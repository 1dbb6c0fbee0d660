--------------------------- MODULE StepSyncProofs ---------------------------
(***************************************************************************)
(* Proofs about StepSync, for any number of steppers, any plans of steps   *)
(* and any timing: the pool of move nodes stays whole (PoolInv), every     *)
(* motor stands where its trapq says (PositionIsTheMotors), the host's     *)
(* idea of a position agrees with it (PositionsAgree), and a motor that    *)
(* was stopped stands still until its step clock is reset (StandsStill).   *)
(*                                                                         *)
(* The order: sums over the steppers; a stepper and its queue; the steps   *)
(* of a move in stepcompress.c; the commands, and what a stepper comes to  *)
(* by executing them (View, Runs); the streams of commands that            *)
(* steppersync_flush merges; the inductive invariant (SyncInv) and the     *)
(* step of each action; the theorems.                                      *)
(***************************************************************************)
EXTENDS StepSync, FiniteSetTheorems, WellFoundedInduction, SequenceTheorems,
        TLAPS

-----------------------------------------------------------------------------
(* Sums *)

(* A set of natural numbers has a least one. *)
LEMMA LeastNat ==
  ASSUME NEW T \in SUBSET Nat, T # {}
  PROVE  \E x \in T : \A y \in T : x <= y
<1> DEFINE R == StrictSubsetOrdering(Nat)
           U == {0..n : n \in T}
<1>1. \A n \in Nat : 0..n \in FiniteSubsetsOf(Nat)
  BY FS_Interval DEF FiniteSubsetsOf
<1>2. \A m, n \in Nat : m < n => <<0..m, 0..n>> \in R
  BY SMT DEF StrictSubsetOrdering
<1>3. IsWellFoundedOn(R, FiniteSubsetsOf(Nat))
  BY FS_StrictSubsetOrderingWellFounded
<1>4. U \subseteq FiniteSubsetsOf(Nat) /\ U # {}
  BY <1>1
<1> HIDE DEF R
<1>5. \E x \in U : \A y \in U : ~ (<<y, x>> \in R)
  <2> HIDE DEF U
  <2> QED BY <1>3, <1>4, WFMin
<1>6. PICK x \in T : \A y \in T : ~ (<<0..y, 0..x>> \in R)
  BY <1>5
<1>7. \A y \in T : ~ (y < x)
  BY <1>2, <1>6
<1> QED BY <1>7

(* Induction up to n, over the set of the numbers that have the property. *)
LEMMA UpTo ==
  ASSUME NEW n \in Nat, NEW S, 0 \in S,
         \A i \in 0..(n - 1) : i \in S => i + 1 \in S
  PROVE  \A i \in 0..n : i \in S
<1> DEFINE T == {i \in 0..n : i \notin S}
<1> SUFFICES ASSUME T # {} PROVE FALSE
  OBVIOUS
<1>1. PICK x \in T : \A y \in T : x <= y
  <2>1. T \in SUBSET Nat /\ T # {}
    OBVIOUS
  <2> HIDE DEF T
  <2> QED BY <2>1, LeastNat
<1>2. x \in 0..n /\ x # 0 /\ x \notin S
  BY <1>1
<1>3. x - 1 \in 0..(n - 1) /\ (x - 1) + 1 = x /\ x - 1 \in 0..n
      /\ ~(x <= x - 1)
  BY <1>2
<1>4. x - 1 \in S
  BY <1>1, <1>3
<1> QED BY <1>2, <1>3, <1>4

(* Induction over the parts of a finite set. *)
LEMMA Parts ==
  ASSUME NEW D, IsFiniteSet(D), NEW G,
         \A s \in SUBSET D : (\A x \in s : s \ {x} \in G) => s \in G
  PROVE  \A s \in SUBSET D : s \in G
<1> DEFINE R == StrictSubsetOrdering(D)
           U == {s \in SUBSET D : s \notin G}
<1> SUFFICES ASSUME U # {} PROVE FALSE
  OBVIOUS
<1>1. IsWellFoundedOn(R, FiniteSubsetsOf(D))
  BY FS_StrictSubsetOrderingWellFounded
<1>2. U \subseteq FiniteSubsetsOf(D)
  BY FS_Subset DEF FiniteSubsetsOf
<1>3. PICK s \in U : \A t \in U : ~ (<<t, s>> \in R)
  <2> HIDE DEF R, U
  <2> QED BY <1>1, <1>2, WFMin
<1>4. \A x \in s : s \ {x} \in G
  <2> SUFFICES ASSUME NEW x \in s, s \ {x} \notin G PROVE FALSE
    OBVIOUS
  <2>1. s \ {x} \in U
    OBVIOUS
  <2>2. <<s \ {x}, s>> \in R
    BY DEF StrictSubsetOrdering
  <2> QED BY <1>3, <2>1, <2>2
<1> QED BY <1>4

(* The element that a fold takes next. *)
Next1(s) == CHOOSE x \in s : TRUE

LEMMA Next1In ==
  ASSUME NEW s, s # {}
  PROVE  Next1(s) \in s
  BY DEF Next1

(* it gives the sum of w over each part of D, one element after the other:
   what a fold with + does. *)
SumBody(it, w, D) ==
  [s \in SUBSET D |-> IF s = {} THEN 0 ELSE w[Next1(s)] + it[s \ {Next1(s)}]]
IsSum(it, w, D) == it = SumBody(it, w, D)

(* What IsSum says of each part, and conversely. *)
LEMMA SumAt ==
  ASSUME NEW it, NEW w, NEW D, IsSum(it, w, D), NEW s \in SUBSET D
  PROVE  it[s] = IF s = {} THEN 0 ELSE w[Next1(s)] + it[s \ {Next1(s)}]
<1> DEFINE h == SumBody(it, w, D)
<1>1. h[s] = IF s = {} THEN 0 ELSE w[Next1(s)] + it[s \ {Next1(s)}]
  BY DEF SumBody
<1> HIDE DEF h
<1>2. it = h
  BY DEF IsSum, h
<1> QED BY <1>1, <1>2

LEMMA SumFrom ==
  ASSUME NEW w, NEW D, NEW g, g = [s \in SUBSET D |-> g[s]],
         \A s \in SUBSET D :
           g[s] = IF s = {} THEN 0 ELSE w[Next1(s)] + g[s \ {Next1(s)}]
  PROVE  IsSum(g, w, D)
<1> DEFINE h == SumBody(g, w, D)
<1>1. \A s \in SUBSET D : g[s] = h[s]
  BY DEF SumBody
<1>2. h = [s \in SUBSET D |-> h[s]]
  BY DEF SumBody
<1> HIDE DEF h
<1>3. g = h
  BY <1>1, <1>2
<1> QED BY <1>3 DEF h, IsSum

LEMMA SumUnique ==
  ASSUME NEW D, NEW E, IsFiniteSet(D), NEW w, NEW f, NEW g,
         IsSum(f, w, D), IsSum(g, w, E),
         NEW t \in SUBSET D, t \in SUBSET E
  PROVE  f[t] = g[t]
<1> DEFINE G == {s \in SUBSET D : s \in SUBSET E => f[s] = g[s]}
<1>1. ASSUME NEW s \in SUBSET D, \A x \in s : s \ {x} \in G
      PROVE  s \in G
  <2> SUFFICES ASSUME s \in SUBSET E PROVE f[s] = g[s]
    OBVIOUS
  <2>0. /\ f[s] = IF s = {} THEN 0 ELSE w[Next1(s)] + f[s \ {Next1(s)}]
        /\ g[s] = IF s = {} THEN 0 ELSE w[Next1(s)] + g[s \ {Next1(s)}]
    BY SumAt, ZenonT(30)
  <2>1. CASE s = {}
    BY <2>0, <2>1
  <2>2. CASE s # {}
    <3>1. Next1(s) \in s
      BY <2>2, Next1In
    <3>2. f[s \ {Next1(s)}] = g[s \ {Next1(s)}]
      BY <1>1, <3>1
    <3> QED BY <2>0, <2>2, <3>2
  <2> QED BY <2>1, <2>2
<1> HIDE DEF G
<1>2. \A s \in SUBSET D : s \in G
  BY <1>1, Parts
<1> QED BY <1>2 DEF G

LEMMA SumRestrict ==
  ASSUME NEW D, NEW w, NEW f, IsSum(f, w, D), NEW E \in SUBSET D
  PROVE  IsSum([s \in SUBSET E |-> f[s]], w, E)
<1> DEFINE g == [s \in SUBSET E |-> f[s]]
<1>1. ASSUME NEW s \in SUBSET E
      PROVE  g[s] = IF s = {} THEN 0 ELSE w[Next1(s)] + g[s \ {Next1(s)}]
  <2>1. f[s] = IF s = {} THEN 0 ELSE w[Next1(s)] + f[s \ {Next1(s)}]
    BY SumAt
  <2>2. s \ {Next1(s)} \in SUBSET E
    OBVIOUS
  <2> QED BY <2>1, <2>2
<1>2. g = [s \in SUBSET E |-> g[s]]
  OBVIOUS
<1> HIDE DEF g
<1>3. IsSum(g, w, E)
  BY <1>1, <1>2, SumFrom
<1> QED BY <1>3 DEF g

LEMMA SumExists ==
  ASSUME NEW D, IsFiniteSet(D), NEW w
  PROVE  \E it : IsSum(it, w, D)
<1> DEFINE G == {s \in SUBSET D : \E it : IsSum(it, w, s)}
           At(s) == CHOOSE it : IsSum(it, w, s)
           V(s) == At(s)[s]
<1>0. \A s \in G : IsSum(At(s), w, s)
  OBVIOUS
<1>1. ASSUME NEW s \in SUBSET D, \A x \in s : s \ {x} \in G
      PROVE  s \in G
  <2> DEFINE g == [t \in SUBSET s |->
                     IF t = {} THEN 0 ELSE w[Next1(t)] + V(t \ {Next1(t)})]
  <2>1. ASSUME NEW t \in SUBSET s, t # s PROVE t \in G
    <3>1. PICK x \in s : x \notin t
      BY <2>1
    <3>2. PICK f : IsSum(f, w, s \ {x})
      BY <1>1
    <3>3. IsSum([u \in SUBSET t |-> f[u]], w, t)
      <4>1. t \in SUBSET (s \ {x})
        BY <3>1
      <4> QED BY <3>2, <4>1, SumRestrict
    <3> QED BY <3>3
  <2>2. ASSUME NEW t \in SUBSET s, t # s
        PROVE  V(t) = IF t = {} THEN 0 ELSE w[Next1(t)] + V(t \ {Next1(t)})
    <3>1. IsSum(At(t), w, t)
      BY <1>0, <2>1, <2>2
    <3>2. At(t)[t] = IF t = {} THEN 0 ELSE w[Next1(t)] + At(t)[t \ {Next1(t)}]
      <4> HIDE DEF At
      <4>1. t \in SUBSET t
        OBVIOUS
      <4> QED BY <3>1, <4>1, SumAt
    <3>3. CASE t # {}
      <4> DEFINE u == t \ {Next1(t)}
      <4>1. u \in SUBSET s /\ u # s /\ u \in SUBSET t
        BY <3>3, Next1In
      <4>2. IsSum(At(u), w, u)
        BY <1>0, <2>1, <4>1
      <4>3. IsFiniteSet(u)
        BY FS_Subset
      <4>4. At(u)[u] = At(t)[u]
        <5> HIDE DEF At, u
        <5>1. u \in SUBSET u
          OBVIOUS
        <5> QED BY <3>1, <4>1, <4>2, <4>3, <5>1, SumUnique
      <4> QED BY <3>2, <3>3, <4>4
    <3>4. CASE t = {}
      BY <3>2, <3>4
    <3> QED BY <3>3, <3>4
  <2>3. ASSUME NEW t \in SUBSET s
        PROVE  g[t] = IF t = {} THEN 0 ELSE w[Next1(t)] + g[t \ {Next1(t)}]
    <3> HIDE DEF V
    <3>1. CASE t # {}
      <4>1. t \ {Next1(t)} \in SUBSET s /\ t \ {Next1(t)} # s
        BY <3>1, Next1In
      <4>2. g[t \ {Next1(t)}] = V(t \ {Next1(t)})
        BY <2>2, <4>1
      <4> QED BY <3>1, <4>2
    <3>2. CASE t = {}
      BY <3>2
    <3> QED BY <3>1, <3>2
  <2>4. g = [t \in SUBSET s |-> g[t]]
    OBVIOUS
  <2> HIDE DEF g
  <2>5. IsSum(g, w, s)
    BY <2>3, <2>4, SumFrom
  <2> QED BY <2>5
<1> HIDE DEF G
<1>2. \A s \in SUBSET D : s \in G
  BY <1>1, Parts
<1> QED BY <1>2 DEF G

LEMMA SumInt ==
  ASSUME NEW D, IsFiniteSet(D), NEW w \in [D -> Int], NEW f, IsSum(f, w, D)
  PROVE  \A s \in SUBSET D : f[s] \in Int
<1> DEFINE G == {s \in SUBSET D : f[s] \in Int}
<1>1. ASSUME NEW s \in SUBSET D, \A x \in s : s \ {x} \in G
      PROVE  s \in G
  <2>1. f[s] = IF s = {} THEN 0 ELSE w[Next1(s)] + f[s \ {Next1(s)}]
    BY SumAt
  <2>2. CASE s # {}
    <3>1. Next1(s) \in s
      BY <2>2, Next1In
    <3>2. f[s \ {Next1(s)}] \in Int /\ w[Next1(s)] \in Int
      BY <1>1, <3>1
    <3> QED BY <2>1, <2>2, <3>2
  <2> QED BY <2>1, <2>2
<1> HIDE DEF G
<1>2. \A s \in SUBSET D : s \in G
  BY <1>1, Parts
<1> QED BY <1>2 DEF G

(* A sum does not depend on the order in which its terms are taken. *)
LEMMA SumSplit ==
  ASSUME NEW D, IsFiniteSet(D), NEW w \in [D -> Int], NEW f, IsSum(f, w, D),
         NEW s \in SUBSET D, NEW e \in s
  PROVE  f[s] = w[e] + f[s \ {e}]
<1> DEFINE G == {t \in SUBSET D : \A x \in t : f[t] = w[x] + f[t \ {x}]}
<1>1. ASSUME NEW t \in SUBSET D, \A x \in t : t \ {x} \in G
      PROVE  t \in G
  <2> SUFFICES ASSUME NEW x \in t PROVE f[t] = w[x] + f[t \ {x}]
    OBVIOUS
  <2> DEFINE y == Next1(t)
  <2>1. y \in t
    BY Next1In
  <2>2. f[t] = w[y] + f[t \ {y}]
    BY SumAt
  <2> HIDE DEF y
  <2>3. CASE x = y
    BY <2>2, <2>3
  <2>4. CASE x # y
    <3>1. x \in t \ {y} /\ y \in t \ {x}
      BY <2>1, <2>4
    <3>2. t \ {y} \in G /\ t \ {x} \in G
      BY <1>1, <2>1
    <3>3. /\ f[t \ {y}] = w[x] + f[(t \ {y}) \ {x}]
          /\ f[t \ {x}] = w[y] + f[(t \ {x}) \ {y}]
      BY <3>1, <3>2
    <3>4. (t \ {y}) \ {x} = (t \ {x}) \ {y}
      OBVIOUS
    <3>5. f[(t \ {x}) \ {y}] \in Int
      <4>1. (t \ {x}) \ {y} \in SUBSET D
        OBVIOUS
      <4> QED BY <4>1, SumInt
    <3>6. w[x] \in Int /\ w[y] \in Int
      <4>1. x \in D /\ y \in D
        BY <2>1
      <4> QED BY <4>1
    <3> HIDE DEF G
    <3>7. PICK a \in Int, b \in Int, c \in Int :
            a = w[x] /\ b = w[y] /\ c = f[(t \ {x}) \ {y}]
      BY <3>5, <3>6
    <3>8. f[t \ {y}] = a + c /\ f[t \ {x}] = b + c
      BY <3>3, <3>4, <3>7
    <3>9. f[t] = b + (a + c)
      BY <2>2, <3>7, <3>8
    <3>10. w[x] + f[t \ {x}] = a + (b + c)
      BY <3>7, <3>8
    <3>11. b + (a + c) = a + (b + c)
      OBVIOUS
    <3> QED BY <3>9, <3>10, <3>11
  <2> QED BY <2>3, <2>4
<1> HIDE DEF G
<1>2. \A t \in SUBSET D : t \in G
  BY <1>1, Parts
<1> QED BY <1>2 DEF G

(* Terms that are the same give the same sum. *)
LEMMA SumSame ==
  ASSUME NEW D, NEW E, NEW w, NEW v, NEW f, NEW g,
         IsSum(f, w, D), IsSum(g, v, E),
         NEW s, IsFiniteSet(s), s \in SUBSET D, s \in SUBSET E,
         \A x \in s : w[x] = v[x]
  PROVE  f[s] = g[s]
<1> DEFINE G == {t \in SUBSET s : f[t] = g[t]}
<1>1. ASSUME NEW t \in SUBSET s, \A x \in t : t \ {x} \in G
      PROVE  t \in G
  <2>0. t \in SUBSET D /\ t \in SUBSET E
    OBVIOUS
  <2>1. /\ f[t] = IF t = {} THEN 0 ELSE w[Next1(t)] + f[t \ {Next1(t)}]
        /\ g[t] = IF t = {} THEN 0 ELSE v[Next1(t)] + g[t \ {Next1(t)}]
    BY <2>0, SumAt
  <2>2. CASE t # {}
    <3>1. Next1(t) \in t
      BY <2>2, Next1In
    <3>2. f[t \ {Next1(t)}] = g[t \ {Next1(t)}] /\ w[Next1(t)] = v[Next1(t)]
      BY <1>1, <3>1
    <3> QED BY <2>1, <2>2, <3>2
  <2> QED BY <2>1, <2>2
<1> HIDE DEF G
<1>2. \A t \in SUBSET s : t \in G
  BY <1>1, Parts
<1> QED BY <1>2 DEF G

(* A sum of nothing but zeros. *)
LEMMA SumZero ==
  ASSUME NEW D, IsFiniteSet(D), NEW w, NEW f, IsSum(f, w, D),
         \A x \in D : w[x] = 0
  PROVE  f[D] = 0
<1> DEFINE G == {t \in SUBSET D : f[t] = 0}
<1>1. ASSUME NEW t \in SUBSET D, \A x \in t : t \ {x} \in G
      PROVE  t \in G
  <2>1. f[t] = IF t = {} THEN 0 ELSE w[Next1(t)] + f[t \ {Next1(t)}]
    BY SumAt
  <2>2. CASE t # {}
    <3>1. Next1(t) \in t
      BY <2>2, Next1In
    <3>2. f[t \ {Next1(t)}] = 0 /\ w[Next1(t)] = 0
      BY <1>1, <3>1
    <3> QED BY <2>1, <2>2, <3>2
  <2> QED BY <2>1, <2>2
<1> HIDE DEF G
<1>2. \A t \in SUBSET D : t \in G
  BY <1>1, Parts
<1>3. D \in G
  BY <1>2
<1> QED BY <1>3 DEF G

(* A sum of natural numbers, and its parts. *)
LEMMA SumNat ==
  ASSUME NEW D, IsFiniteSet(D), NEW w \in [D -> Nat], NEW f, IsSum(f, w, D)
  PROVE  f[D] \in Nat /\ \A x \in D : w[x] <= f[D]
<1> DEFINE G == {t \in SUBSET D : f[t] \in Nat}
<1>1. ASSUME NEW t \in SUBSET D, \A x \in t : t \ {x} \in G
      PROVE  t \in G
  <2>1. f[t] = IF t = {} THEN 0 ELSE w[Next1(t)] + f[t \ {Next1(t)}]
    BY SumAt
  <2>2. CASE t # {}
    <3>1. Next1(t) \in t
      BY <2>2, Next1In
    <3>2. f[t \ {Next1(t)}] \in Nat /\ w[Next1(t)] \in Nat
      BY <1>1, <3>1
    <3> QED BY <2>1, <2>2, <3>2
  <2> QED BY <2>1, <2>2
<1> HIDE DEF G
<1>2. \A t \in SUBSET D : t \in G
  BY <1>1, Parts
<1>3. \A t \in SUBSET D : f[t] \in Nat
  BY <1>2 DEF G
<1>4. ASSUME NEW x \in D PROVE w[x] <= f[D]
  <2>1. w \in [D -> Int] /\ D \in SUBSET D
    OBVIOUS
  <2>2. f[D] = w[x] + f[D \ {x}]
    BY <2>1, SumSplit
  <2> QED BY <1>3, <2>2
<1> QED BY <1>3, <1>4

(* The folds of the model are sums.  First the moves queued in stepper.c, *)
QueuedIn(st, D) == MapThenSumSet(LAMBDA o : Len(st[o].mq), D)

LEMMA QueuedIsSum ==
  ASSUME NEW D, IsFiniteSet(D), NEW st
  PROVE  \E it : /\ IsSum(it, [o \in D |-> Len(st[o].mq)], D)
                 /\ QueuedIn(st, D) = it[D]
<1> DEFINE w == [o \in D |-> Len(st[o].mq)]
           B(it) == [s \in SUBSET D |->
                      IF s = {} THEN 0
                      ELSE Len(st[CHOOSE x \in s : TRUE].mq)
                           + it[s \ {CHOOSE x \in s : TRUE}]]
<1>1. ASSUME NEW it PROVE SumBody(it, w, D) = B(it)
  <2>1. ASSUME NEW s \in SUBSET D
        PROVE  SumBody(it, w, D)[s] = B(it)[s]
    <3>1. s # {} => Next1(s) \in D
      BY Next1In
    <3>2. s # {} => w[Next1(s)] = Len(st[Next1(s)].mq)
      BY <3>1
    <3> HIDE DEF w
    <3> QED BY <3>2 DEF SumBody, Next1
  <2>2. /\ SumBody(it, w, D) = [s \in SUBSET D |-> SumBody(it, w, D)[s]]
        /\ B(it) = [s \in SUBSET D |-> B(it)[s]]
    BY DEF SumBody
  <2> HIDE DEF B, w
  <2> QED BY <2>1, <2>2
<1>2. PICK f : IsSum(f, w, D)
  BY SumExists
<1>3. \E it : it = B(it)
  <2>1. f = B(f)
    <3> HIDE DEF B, w
    <3> QED BY <1>1, <1>2 DEF IsSum
  <2> QED BY Zenon, <2>1
<1>4. \E it : it = B(it) /\ QueuedIn(st, D) = it[D]
  BY Zenon, <1>3 DEF QueuedIn, MapThenSumSet, MapThenFoldSet
<1>5. PICK it : it = B(it) /\ QueuedIn(st, D) = it[D]
  BY Zenon, <1>4
<1>6. IsSum(it, w, D)
  <2> HIDE DEF B, w
  <2> QED BY <1>1, <1>5 DEF IsSum
<1> QED BY <1>5, <1>6

(* the commands that the host has queued (Merge), *)
CommandsIn(st, D) == MapThenSumSet(LAMBDA o : Len(st[o].msg_queue), D)

LEMMA CommandsAreSum ==
  ASSUME NEW D, IsFiniteSet(D), NEW st
  PROVE  \E it : /\ IsSum(it, [o \in D |-> Len(st[o].msg_queue)], D)
                 /\ CommandsIn(st, D) = it[D]
<1> DEFINE w == [o \in D |-> Len(st[o].msg_queue)]
           B(it) == [s \in SUBSET D |->
                      IF s = {} THEN 0
                      ELSE Len(st[CHOOSE x \in s : TRUE].msg_queue)
                           + it[s \ {CHOOSE x \in s : TRUE}]]
<1>1. ASSUME NEW it PROVE SumBody(it, w, D) = B(it)
  <2>1. ASSUME NEW s \in SUBSET D
        PROVE  SumBody(it, w, D)[s] = B(it)[s]
    <3>1. s # {} => Next1(s) \in D
      BY Next1In
    <3>2. s # {} => w[Next1(s)] = Len(st[Next1(s)].msg_queue)
      BY <3>1
    <3> HIDE DEF w
    <3> QED BY <3>2 DEF SumBody, Next1
  <2>2. /\ SumBody(it, w, D) = [s \in SUBSET D |-> SumBody(it, w, D)[s]]
        /\ B(it) = [s \in SUBSET D |-> B(it)[s]]
    BY DEF SumBody
  <2> HIDE DEF B, w
  <2> QED BY <2>1, <2>2
<1>2. PICK f : IsSum(f, w, D)
  BY SumExists
<1>3. \E it : it = B(it)
  <2>1. f = B(f)
    <3> HIDE DEF B, w
    <3> QED BY <1>1, <1>2 DEF IsSum
  <2> QED BY Zenon, <2>1
<1>4. \E it : it = B(it) /\ CommandsIn(st, D) = it[D]
  BY Zenon, <1>3 DEF CommandsIn, MapThenSumSet, MapThenFoldSet
<1>5. PICK it : it = B(it) /\ CommandsIn(st, D) = it[D]
  BY Zenon, <1>4
<1>6. IsSum(it, w, D)
  <2> HIDE DEF B, w
  <2> QED BY <1>1, <1>5 DEF IsSum
<1> QED BY <1>5, <1>6

(* the gaps between the steps of a plan (StepClock), *)
GapsTo(p, d, n) == FoldSet(LAMBDA k, sum : sum + p[d + k].gap, 0, 1..n)

LEMMA GapsAreSum ==
  ASSUME NEW n, IsFiniteSet(1..n), NEW p, NEW d,
         \A k \in 1..n : p[d + k].gap \in Int
  PROVE  \E it : /\ IsSum(it, [k \in 1..n |-> p[d + k].gap], 1..n)
                 /\ GapsTo(p, d, n) = it[1..n]
<1> DEFINE w == [k \in 1..n |-> p[d + k].gap]
           D == 1..n
           B(it) == [s \in SUBSET D |->
                      IF s = {} THEN 0
                      ELSE it[s \ {CHOOSE x \in s : TRUE}]
                           + p[d + CHOOSE x \in s : TRUE].gap]
<1>1. ASSUME NEW f, IsSum(f, w, D) PROVE f = B(f)
  <2>0. \A s \in SUBSET D : f[s] \in Int
    <3>1. w \in [D -> Int]
      OBVIOUS
    <3> HIDE DEF w, D
    <3> QED BY <1>1, <3>1, SumInt DEF D
  <2>1. ASSUME NEW s \in SUBSET D
        PROVE  f[s] = B(f)[s]
    <3>1. s # {} => Next1(s) \in D
      BY Next1In
    <3>2. s # {} => w[Next1(s)] = p[d + Next1(s)].gap /\ w[Next1(s)] \in Int
      BY <3>1
    <3>3. f[s] = IF s = {} THEN 0 ELSE w[Next1(s)] + f[s \ {Next1(s)}]
      <4> HIDE DEF w, D
      <4> QED BY <1>1, SumAt
    <3>4. f[s \ {Next1(s)}] \in Int
      BY <2>0
    <3> HIDE DEF w
    <3>5. CASE s = {}
      BY <3>3, <3>5
    <3>6. CASE s # {}
      <4>1. B(f)[s] = f[s \ {Next1(s)}] + p[d + Next1(s)].gap
        BY <3>6 DEF Next1
      <4> QED BY <3>2, <3>3, <3>4, <3>6, <4>1
    <3> QED BY <3>5, <3>6
  <2>2. /\ f = [s \in SUBSET D |-> f[s]]
        /\ B(f) = [s \in SUBSET D |-> B(f)[s]]
    BY <1>1 DEF IsSum, SumBody
  <2> HIDE DEF B, w
  <2> QED BY <2>1, <2>2
<1>2. PICK f : IsSum(f, w, D)
  BY SumExists
<1>3. \E it : it = B(it)
  <2> HIDE DEF B, w, D
  <2> QED BY Zenon, <1>1, <1>2
<1>4. \E it : /\ it = B(it)
              /\ GapsTo(p, d, n) = it[D]
  BY Zenon, <1>3 DEF GapsTo, FoldSet, MapThenFoldSet
<1>5. PICK it : /\ it = B(it)
                /\ GapsTo(p, d, n) = it[D]
  BY Zenon, <1>4
<1>6. f[D] = it[D]
  <2> DEFINE G == {s \in SUBSET D : f[s] = it[s]}
  <2>1. ASSUME NEW s \in SUBSET D, \A x \in s : s \ {x} \in G
        PROVE  s \in G
    <3>1. f[s] = B(f)[s] /\ it[s] = B(it)[s]
      <4> HIDE DEF B
      <4> QED BY <1>1, <1>2, <1>5
    <3>2. CASE s # {}
      <4>1. f[s \ {Next1(s)}] = it[s \ {Next1(s)}]
        BY <2>1, <3>2, Next1In
      <4>2. f[s] = f[s \ {Next1(s)}] + p[d + Next1(s)].gap
        BY <3>1, <3>2 DEF Next1
      <4>3. it[s] = it[s \ {Next1(s)}] + p[d + Next1(s)].gap
        BY <3>1, <3>2 DEF Next1
      <4> QED BY <4>1, <4>2, <4>3
    <3>3. CASE s = {}
      BY <3>1, <3>3
    <3> QED BY <3>2, <3>3
  <2> HIDE DEF G, D
  <2>2. \A s \in SUBSET D : s \in G
    BY <2>1, Parts DEF D
  <2>3. D \in G
    BY <2>2
  <2> QED BY <2>3 DEF G
<1> QED BY <1>2, <1>5, <1>6

(* and the directions of the steps of a plan (NoStepLost). *)
Way(dir) == IF dir = 1 THEN 1 ELSE -1
WaysTo(p, n) == FoldSet(LAMBDA k, sum : sum + Way(p[k].dir), 0, 1..n)

LEMMA WaysAreSum ==
  ASSUME NEW n, IsFiniteSet(1..n), NEW p,
         \A k \in 1..n : Way(p[k].dir) \in Int
  PROVE  \E it : /\ IsSum(it, [k \in 1..n |-> Way(p[k].dir)], 1..n)
                 /\ WaysTo(p, n) = it[1..n]
<1> DEFINE w == [k \in 1..n |-> Way(p[k].dir)]
           D == 1..n
           B(it) == [s \in SUBSET D |->
                      IF s = {} THEN 0
                      ELSE it[s \ {CHOOSE x \in s : TRUE}]
                           + Way(p[CHOOSE x \in s : TRUE].dir)]
<1>1. ASSUME NEW f, IsSum(f, w, D) PROVE f = B(f)
  <2>0. \A s \in SUBSET D : f[s] \in Int
    <3>1. w \in [D -> Int]
      OBVIOUS
    <3> HIDE DEF w, D
    <3> QED BY <1>1, <3>1, SumInt DEF D
  <2>1. ASSUME NEW s \in SUBSET D
        PROVE  f[s] = B(f)[s]
    <3>1. s # {} => Next1(s) \in D
      BY Next1In
    <3>2. s # {} => w[Next1(s)] = Way(p[Next1(s)].dir) /\ w[Next1(s)] \in Int
      BY <3>1
    <3>3. f[s] = IF s = {} THEN 0 ELSE w[Next1(s)] + f[s \ {Next1(s)}]
      <4> HIDE DEF w, D
      <4> QED BY <1>1, SumAt
    <3>4. f[s \ {Next1(s)}] \in Int
      BY <2>0
    <3> HIDE DEF w
    <3>5. CASE s = {}
      BY <3>3, <3>5
    <3>6. CASE s # {}
      <4>1. B(f)[s] = f[s \ {Next1(s)}] + Way(p[Next1(s)].dir)
        BY <3>6 DEF Next1
      <4> QED BY <3>2, <3>3, <3>4, <3>6, <4>1
    <3> QED BY <3>5, <3>6
  <2>2. /\ f = [s \in SUBSET D |-> f[s]]
        /\ B(f) = [s \in SUBSET D |-> B(f)[s]]
    BY <1>1 DEF IsSum, SumBody
  <2> HIDE DEF B, w
  <2> QED BY <2>1, <2>2
<1>2. PICK f : IsSum(f, w, D)
  BY SumExists
<1>3. \E it : it = B(it)
  <2> HIDE DEF B, w, D
  <2> QED BY Zenon, <1>1, <1>2
<1>4. \E it : /\ it = B(it)
              /\ WaysTo(p, n) = it[D]
  BY Zenon, <1>3 DEF WaysTo, FoldSet, MapThenFoldSet
<1>5. PICK it : /\ it = B(it)
                /\ WaysTo(p, n) = it[D]
  BY Zenon, <1>4
<1>6. f[D] = it[D]
  <2> DEFINE G == {s \in SUBSET D : f[s] = it[s]}
  <2>1. ASSUME NEW s \in SUBSET D, \A x \in s : s \ {x} \in G
        PROVE  s \in G
    <3>1. f[s] = B(f)[s] /\ it[s] = B(it)[s]
      <4> HIDE DEF B
      <4> QED BY <1>1, <1>2, <1>5
    <3>2. CASE s # {}
      <4>1. f[s \ {Next1(s)}] = it[s \ {Next1(s)}]
        BY <2>1, <3>2, Next1In
      <4>2. f[s] = f[s \ {Next1(s)}] + Way(p[Next1(s)].dir)
        BY <3>1, <3>2 DEF Next1
      <4>3. it[s] = it[s \ {Next1(s)}] + Way(p[Next1(s)].dir)
        BY <3>1, <3>2 DEF Next1
      <4> QED BY <4>1, <4>2, <4>3
    <3>3. CASE s = {}
      BY <3>1, <3>3
    <3> QED BY <3>2, <3>3
  <2> HIDE DEF G, D
  <2>2. \A s \in SUBSET D : s \in G
    BY <2>1, Parts DEF D
  <2>3. D \in G
    BY <2>2
  <2> QED BY <2>3 DEF G
<1> QED BY <1>2, <1>5, <1>6

-----------------------------------------------------------------------------
(* Sequences *)

(* What is left of a queue, *)
LEMMA TailProps ==
  ASSUME NEW S, NEW s \in Seq(S), s # <<>>
  PROVE  /\ Len(s) \in Nat /\ Len(s) >= 1 /\ Head(s) = s[1] /\ Head(s) \in S
         /\ Tail(s) \in Seq(S) /\ Len(Tail(s)) = Len(s) - 1
         /\ \A i \in 1..Len(Tail(s)) : Tail(s)[i] = s[i + 1]
  OBVIOUS

(* a queue with one more element, *)
LEMMA AppendProps ==
  ASSUME NEW S, NEW s \in Seq(S), NEW e \in S
  PROVE  /\ Append(s, e) \in Seq(S) /\ Len(Append(s, e)) = Len(s) + 1
         /\ Len(s) \in Nat /\ Append(s, e)[Len(s) + 1] = e
         /\ \A i \in 1..Len(s) : Append(s, e)[i] = s[i]
  OBVIOUS

(* and a function that is a queue. *)
LEMMA SeqIn ==
  ASSUME NEW S, NEW n \in Nat, NEW f \in [1..n -> S]
  PROVE  f \in Seq(S) /\ Len(f) = n
  OBVIOUS

-----------------------------------------------------------------------------
(* What commands do *)

(* Commands that are well formed.  The steps of a move are not before one
   another (check_line). *)
Move == [first : Int, interval : Int, count : Nat \ {0}, add : Int]
Steady(m) == \A n \in 0..(m.count - 1) : m.interval + n * m.add >= 0
GoodMessage(m) ==
  /\ m.kind \in {"queue_step", "set_next_step_dir", "reset_step_clock"}
  /\ m.kind = "queue_step" => m.arg \in Move /\ Steady(m.arg)
  /\ m.kind = "set_next_step_dir" => m.arg \in {0, 1}
  /\ m.kind = "reset_step_clock" => m.arg = 0

(* The commands for one motor, as far as they tell where it goes: those that
   are on their way to it, and the moves it has queued ("load"). *)
Command ==
  {c \in [kind : {"none", "queue_step", "set_next_step_dir",
                  "reset_step_clock", "load"},
          dir : {0, 1}, turn : BOOLEAN, count : Nat] :
      c.kind \in {"queue_step", "load"} => c.count > 0}
None == [kind |-> "none", dir |-> 0, turn |-> FALSE, count |-> 0]
CommandOf(m) ==
  [kind |-> m.kind,
   dir |-> IF m.kind = "set_next_step_dir" THEN m.arg ELSE 0,
   turn |-> FALSE,
   count |-> IF m.kind = "queue_step" THEN m.arg.count ELSE 0]
LoadOf(m) == [kind |-> "load", dir |-> 0, turn |-> m.dir, count |-> m.count]

Seen(q, o) ==
  [i \in 1..Len(q) |-> IF q[i].oid = o THEN CommandOf(q[i]) ELSE None]
Commands(q) == [i \in 1..Len(q) |-> CommandOf(q[i])]
Loads(q) == [i \in 1..Len(q) |-> LoadOf(q[i])]

(* Where a motor is going to be: its place, its direction, whether it ignores
   moves, how many steps it has taken at most, and how often it was reset. *)
View == [place : Int, dir : {0, 1}, stopped : BOOLEAN, used : Nat, resets : Nat]

Moved(place, dir, count) == IF dir = 1 THEN place + count ELSE place - count
Moves(v, c) == c.kind = "load" \/ (c.kind = "queue_step" /\ ~v.stopped)
Turned(v, c) ==
  IF c.kind = "set_next_step_dir" THEN c.dir
  ELSE IF c.kind = "load" /\ c.turn THEN 1 - v.dir ELSE v.dir

Apply(v, c) ==
  [place   |-> IF Moves(v, c) THEN Moved(v.place, Turned(v, c), c.count)
               ELSE v.place,
   dir     |-> Turned(v, c),
   stopped |-> v.stopped /\ c.kind # "reset_step_clock",
   used    |-> IF Moves(v, c) THEN v.used + c.count ELSE v.used,
   resets  |-> IF c.kind = "reset_step_clock" THEN v.resets + 1 ELSE v.resets]

(* The commands c take a motor from v to w. *)
IsRun(f, c, v, w) ==
  /\ f \in [0..Len(c) -> View] /\ f[0] = v /\ f[Len(c)] = w
  /\ \A i \in 1..Len(c) : f[i] = Apply(f[i - 1], c[i])
Runs(c, v, w) == \E f : IsRun(f, c, v, w)

LEMMA ApplyType ==
  ASSUME NEW v \in View, NEW c \in Command
  PROVE  /\ Apply(v, c) \in View
         /\ v.used <= Apply(v, c).used
         /\ v.used = Apply(v, c).used => Apply(v, c).place = v.place
         /\ v.resets <= Apply(v, c).resets
         /\ c.kind # "reset_step_clock" => /\ Apply(v, c).resets = v.resets
                                           /\ Apply(v, c).stopped = v.stopped
         /\ c.kind = "reset_step_clock" => Apply(v, c).resets = v.resets + 1
         /\ c.kind # "load" /\ v.stopped => /\ Apply(v, c).used = v.used
                                            /\ Apply(v, c).place = v.place
<1>1. v.dir \in {0, 1} /\ v.used \in Nat /\ v.place \in Int /\ v.resets \in Nat
      /\ v.stopped \in BOOLEAN
  BY DEF View
<1>2. c.dir \in {0, 1} /\ c.count \in Nat
  BY DEF Command
<1>3. Turned(v, c) \in {0, 1}
  BY <1>1, <1>2 DEF Turned
<1>4. Moved(v.place, Turned(v, c), c.count) \in Int
  BY <1>1, <1>2 DEF Moved
<1>5. Apply(v, c) \in View
  BY <1>1, <1>2, <1>3, <1>4 DEF Apply, View
<1>6. v.used <= Apply(v, c).used
  BY <1>1, <1>2 DEF Apply
<1>7. v.used = Apply(v, c).used => Apply(v, c).place = v.place
  <2>1. Moves(v, c) => c.count > 0
    BY DEF Moves, Command
  <2> QED BY <1>1, <1>2, <2>1 DEF Apply
<1>8. v.resets <= Apply(v, c).resets
  BY <1>1 DEF Apply
<1>9. c.kind # "reset_step_clock" => /\ Apply(v, c).resets = v.resets
                                     /\ Apply(v, c).stopped = v.stopped
  BY <1>1 DEF Apply
<1>10. c.kind = "reset_step_clock" => Apply(v, c).resets = v.resets + 1
  BY <1>1 DEF Apply
<1>11. c.kind # "load" /\ v.stopped => /\ Apply(v, c).used = v.used
                                       /\ Apply(v, c).place = v.place
  BY <1>1 DEF Apply, Moves
<1> QED BY <1>5, <1>6, <1>7, <1>8, <1>9, <1>10, <1>11

(* An empty queue. *)
LEMMA RunsEmpty ==
  ASSUME NEW c, Len(c) = 0, NEW v \in View, NEW w, Runs(c, v, w)
  PROVE  w = v
  BY DEF Runs, IsRun

LEMMA RunsNothing ==
  ASSUME NEW c, Len(c) = 0, NEW v \in View
  PROVE  Runs(c, v, v)
<1> DEFINE f == [i \in 0..0 |-> v]
<1>1. f \in [0..0 -> View] /\ f[0] = v
  OBVIOUS
<1> HIDE DEF f
<1>2. IsRun(f, c, v, v)
  BY <1>1 DEF IsRun
<1> QED BY <1>2 DEF Runs

(* One more command at the end. *)
LEMMA RunsAppend ==
  ASSUME NEW c \in Seq(Command), NEW e \in Seq(Command), NEW v \in View, NEW w,
         Len(e) = Len(c) + 1, \A i \in 1..Len(c) : e[i] = c[i],
         Runs(c, v, w)
  PROVE  w \in View /\ Runs(e, v, Apply(w, e[Len(e)]))
<1>1. PICK f : IsRun(f, c, v, w)
  BY DEF Runs
<1>2. Len(c) \in Nat /\ f \in [0..Len(c) -> View] /\ f[0] = v /\ f[Len(c)] = w
  BY <1>1 DEF IsRun
<1>3. w \in View /\ e[Len(e)] \in Command
  BY <1>2
<1> DEFINE x == Apply(w, e[Len(e)])
           g == [i \in 0..Len(e) |-> IF i = Len(e) THEN x ELSE f[i]]
<1>4. x \in View
  BY <1>3, ApplyType
<1> HIDE DEF x
<1>5. /\ g \in [0..Len(e) -> View] /\ g[0] = v /\ g[Len(e)] = x
      /\ \A i \in 0..Len(c) : g[i] = f[i]
  BY <1>2, <1>4
<1> HIDE DEF g
<1>6. \A i \in 1..Len(e) : g[i] = Apply(g[i - 1], e[i])
  <2> SUFFICES ASSUME NEW i \in 1..Len(e) PROVE g[i] = Apply(g[i - 1], e[i])
    OBVIOUS
  <2>1. CASE i = Len(e)
    <3>1. i - 1 = Len(c) /\ i - 1 \in 0..Len(c)
      BY <1>2, <2>1
    <3>2. g[i - 1] = w
      BY <1>2, <1>5, <3>1
    <3> QED BY <1>5, <2>1, <3>2 DEF x
  <2>2. CASE i # Len(e)
    <3>1. i \in 1..Len(c) /\ i - 1 \in 0..Len(c) /\ i \in 0..Len(c)
      BY <1>2, <2>2
    <3>2. f[i] = Apply(f[i - 1], c[i])
      BY <1>1, <3>1 DEF IsRun
    <3> QED BY <1>5, <3>1, <3>2
  <2> QED BY <2>1, <2>2
<1>7. IsRun(g, e, v, x)
  BY <1>5, <1>6 DEF IsRun
<1> QED BY <1>3, <1>7 DEF Runs, x

(* The first command is done. *)
LEMMA RunsTail ==
  ASSUME NEW c \in Seq(Command), NEW e \in Seq(Command), NEW v \in View, NEW w,
         Len(c) = Len(e) + 1, \A i \in 1..Len(e) : e[i] = c[i + 1],
         Runs(c, v, w)
  PROVE  Apply(v, c[1]) \in View /\ Runs(e, Apply(v, c[1]), w)
<1>1. PICK f : IsRun(f, c, v, w)
  BY DEF Runs
<1>2. /\ Len(c) \in Nat /\ Len(e) \in Nat
      /\ f \in [0..Len(c) -> View] /\ f[0] = v /\ f[Len(c)] = w
  BY <1>1 DEF IsRun
<1>3. c[1] \in Command /\ 1 \in 1..Len(c) /\ 1 - 1 = 0
  BY <1>2
<1>4. f[1] = Apply(v, c[1])
  BY <1>1, <1>2, <1>3 DEF IsRun
<1>5. Apply(v, c[1]) \in View
  BY <1>3, ApplyType
<1> DEFINE g == [i \in 0..Len(e) |-> f[i + 1]]
<1>6. /\ g \in [0..Len(e) -> View] /\ g[0] = f[1] /\ g[Len(e)] = w
      /\ \A i \in 0..Len(e) : g[i] = f[i + 1]
  BY <1>2
<1> HIDE DEF g
<1>7. \A i \in 1..Len(e) : g[i] = Apply(g[i - 1], e[i])
  <2> SUFFICES ASSUME NEW i \in 1..Len(e) PROVE g[i] = Apply(g[i - 1], e[i])
    OBVIOUS
  <2>1. /\ i + 1 \in 1..Len(c) /\ (i + 1) - 1 = i /\ (i - 1) + 1 = i
        /\ i \in 0..Len(e) /\ i - 1 \in 0..Len(e)
    BY <1>2
  <2>2. f[i + 1] = Apply(f[i], c[i + 1])
    BY <1>1, <2>1 DEF IsRun
  <2>3. g[i] = f[i + 1] /\ g[i - 1] = f[i] /\ e[i] = c[i + 1]
    BY <1>6, <2>1
  <2> QED BY <2>2, <2>3
<1>8. IsRun(g, e, Apply(v, c[1]), w)
  BY <1>4, <1>6, <1>7 DEF IsRun
<1> QED BY <1>5, <1>8 DEF Runs

(* What a run does to each part of the view. *)
LEMMA RunsProps ==
  ASSUME NEW c \in Seq(Command), NEW v \in View, NEW w, Runs(c, v, w)
  PROVE  /\ w \in View
         /\ v.used <= w.used
         /\ v.used = w.used => v.place = w.place
         /\ v.resets <= w.resets
         /\ v.resets = w.resets =>
              /\ w.stopped = v.stopped
              /\ \A i \in 1..Len(c) : c[i].kind # "reset_step_clock"
         /\ (\A i \in 1..Len(c) : c[i].kind # "reset_step_clock") =>
              v.resets = w.resets
         /\ /\ v.resets = w.resets /\ v.stopped
            /\ \A i \in 1..Len(c) : c[i].kind # "load"
            => v.used = w.used
<1>1. PICK f : IsRun(f, c, v, w)
  BY DEF Runs
<1> DEFINE n == Len(c)
           Fine(i) ==
             /\ f[i] \in View
             /\ v.used <= f[i].used
             /\ v.used = f[i].used => v.place = f[i].place
             /\ v.resets <= f[i].resets
             /\ v.resets = f[i].resets =>
                  /\ f[i].stopped = v.stopped
                  /\ \A j \in 1..i : c[j].kind # "reset_step_clock"
             /\ (\A j \in 1..i : c[j].kind # "reset_step_clock") =>
                  v.resets = f[i].resets
             /\ /\ v.resets = f[i].resets /\ v.stopped
                /\ \A j \in 1..i : c[j].kind # "load"
                => v.used = f[i].used
           S == {i \in 0..n : Fine(i)}
<1>2. n \in Nat /\ f \in [0..n -> View] /\ f[0] = v /\ f[n] = w
  BY <1>1 DEF IsRun
<1>3. v.used \in Nat /\ v.resets \in Nat /\ v.place \in Int
  BY DEF View
<1>4. 0 \in S
  BY <1>2, <1>3
<1>5. ASSUME NEW i \in 0..(n - 1), i \in S
      PROVE  i + 1 \in S
  <2>1. /\ i + 1 \in 1..n /\ (i + 1) - 1 = i /\ i + 1 \in 0..n /\ i \in Nat
        /\ f[i] \in View /\ f[i + 1] \in View
    BY <1>2
  <2>2. f[i + 1] = Apply(f[i], c[i + 1])
    BY <1>1, <2>1 DEF IsRun
  <2>3. c[i + 1] \in Command
    BY <2>1
  <2>4. PICK x \in View, y \in View, e \in Command :
          x = f[i] /\ y = f[i + 1] /\ e = c[i + 1]
    BY <2>1, <2>3
  <2>5. /\ x.used <= y.used
        /\ x.used = y.used => y.place = x.place
        /\ x.resets <= y.resets
        /\ e.kind # "reset_step_clock" => /\ y.resets = x.resets
                                          /\ y.stopped = x.stopped
        /\ e.kind = "reset_step_clock" => y.resets = x.resets + 1
        /\ e.kind # "load" /\ x.stopped => y.used = x.used
    BY <2>2, <2>4, ApplyType
  <2>6. /\ x.used \in Nat /\ y.used \in Nat /\ x.resets \in Nat /\ y.resets \in Nat
    BY DEF View
  <2>7. Fine(i)
    BY <1>5
  <2>8. \A j \in 1..(i + 1) : j \in 1..i \/ j = i + 1
    BY <2>1
  <2>9. 1..i \subseteq 1..(i + 1) /\ i + 1 \in 1..(i + 1)
    BY <2>1
  <2>10. v.used <= y.used /\ v.resets <= y.resets
    <3>1. v.used <= x.used /\ v.resets <= x.resets
      BY <2>4, <2>7
    <3> HIDE DEF Fine
    <3> QED BY <1>3, <2>5, <2>6, <3>1
  <2>11. v.used = y.used => v.place = y.place
    BY <1>3, <2>4, <2>5, <2>6, <2>7
  <2>12. v.resets = y.resets => x.resets = v.resets /\ e.kind # "reset_step_clock"
    BY <1>3, <2>4, <2>5, <2>6, <2>7
  <2>13. v.resets = y.resets =>
           /\ y.stopped = v.stopped
           /\ \A j \in 1..(i + 1) : c[j].kind # "reset_step_clock"
    BY <2>4, <2>5, <2>7, <2>8, <2>12
  <2>14. (\A j \in 1..(i + 1) : c[j].kind # "reset_step_clock") =>
           v.resets = y.resets
    BY <2>4, <2>5, <2>7, <2>9
  <2>15. /\ v.resets = y.resets /\ v.stopped
         /\ \A j \in 1..(i + 1) : c[j].kind # "load"
         => v.used = y.used
    <3> SUFFICES ASSUME v.resets = y.resets, v.stopped,
                        \A j \in 1..(i + 1) : c[j].kind # "load"
                 PROVE  v.used = y.used
      OBVIOUS
    <3>1. x.resets = v.resets /\ \A j \in 1..i : c[j].kind # "load"
      BY <2>9, <2>12
    <3>2. v.used = x.used /\ x.stopped
      BY <2>4, <2>7, <3>1
    <3>3. e.kind # "load"
      BY <2>4, <2>9
    <3> QED BY <2>5, <3>2, <3>3
  <2>16. Fine(i + 1)
    BY <2>1, <2>4, <2>10, <2>11, <2>13, <2>14, <2>15
  <2> HIDE DEF Fine
  <2> QED BY <2>1, <2>16
<1> HIDE DEF S
<1>6. n \in S
  <2>1. \A i \in 0..n : i \in S
    BY <1>2, <1>4, <1>5, UpTo
  <2> QED BY <1>2, <2>1
<1>7. Fine(n)
  BY <1>6 DEF S
<1> QED BY <1>2, <1>7

(* Commands take every view somewhere. *)
LEMMA RunsExist ==
  ASSUME NEW c \in Seq(Command), NEW v \in View
  PROVE  \E w \in View : Runs(c, v, w)
<1> DEFINE n == Len(c)
           Up(f, i) == /\ f \in [0..i -> View] /\ f[0] = v
                       /\ \A j \in 1..i : f[j] = Apply(f[j - 1], c[j])
           S == {i \in 0..n : \E f : Up(f, i)}
<1>1. n \in Nat
  OBVIOUS
<1>2. 0 \in S
  <2> DEFINE f == [i \in 0..0 |-> v]
  <2>1. f \in [0..0 -> View] /\ f[0] = v /\ 1..0 = {}
    OBVIOUS
  <2> HIDE DEF f
  <2>2. Up(f, 0)
    BY <2>1
  <2> HIDE DEF Up
  <2> QED BY <1>1, <2>2
<1>3. ASSUME NEW i \in 0..(n - 1), i \in S
      PROVE  i + 1 \in S
  <2>1. PICK f : Up(f, i)
    BY <1>3
  <2>2. i \in Nat /\ i + 1 \in 1..n /\ i + 1 \in 0..n /\ i \in 0..i /\ n \in Nat
    BY <1>1
  <2>3. f[i] \in View /\ c[i + 1] \in Command
    BY <2>1, <2>2
  <2> DEFINE x == Apply(f[i], c[i + 1])
             g == [j \in 0..(i + 1) |-> IF j = i + 1 THEN x ELSE f[j]]
  <2>4. x \in View
    BY <2>3, ApplyType
  <2> HIDE DEF x
  <2>5. /\ g \in [0..(i + 1) -> View] /\ g[i + 1] = x /\ g[0] = v
        /\ \A j \in 0..i : g[j] = f[j]
    BY <2>1, <2>2, <2>4
  <2> HIDE DEF g
  <2>6. \A j \in 1..(i + 1) : g[j] = Apply(g[j - 1], c[j])
    <3> SUFFICES ASSUME NEW j \in 1..(i + 1) PROVE g[j] = Apply(g[j - 1], c[j])
      OBVIOUS
    <3>1. CASE j = i + 1
      <4>1. j - 1 = i
        BY <2>2, <3>1
      <4> QED BY <2>2, <2>5, <3>1, <4>1 DEF x
    <3>2. CASE j # i + 1
      <4>1. j \in 1..i /\ j - 1 \in 0..i /\ j \in 0..i
        BY <2>2, <3>2
      <4> QED BY <2>1, <2>5, <4>1
    <3> QED BY <3>1, <3>2
  <2>7. Up(g, i + 1)
    BY <2>5, <2>6
  <2> HIDE DEF Up
  <2> QED BY <2>2, <2>7
<1> HIDE DEF S
<1>4. n \in S
  <2>1. \A i \in 0..n : i \in S
    BY <1>1, <1>2, <1>3, UpTo
  <2> QED BY <1>1, <2>1
<1>5. PICK f : Up(f, n)
  BY <1>4 DEF S
<1>6. f[n] \in View
  BY <1>1, <1>5
<1>7. IsRun(f, c, v, f[n])
  BY <1>5 DEF IsRun
<1> QED BY <1>6, <1>7 DEF Runs

-----------------------------------------------------------------------------
(* Positions *)

Size2 == 2^W

LEMMA Sizes == TopBit \in Nat \ {0} /\ Size2 = 2 * TopBit /\ Size2 \in Nat \ {0}
  BY StepperAssumption DEF TopBit, Size2

(* Division with remainder. *)
LEMMA WordProps ==
  ASSUME NEW a \in Int
  PROVE  /\ Word(a) \in Int /\ 0 <= Word(a) /\ Word(a) < Size2
         /\ \E k \in Int : a = Word(a) + k * Size2
<1>1. PICK m \in Nat \ {0} : m = Size2
  BY Sizes
<1>2. /\ a % m \in Int /\ 0 <= a % m /\ a % m < m
      /\ a = (a % m) + (a \div m) * m /\ a \div m \in Int
  BY <1>1
<1>3. Word(a) = a % m
  BY <1>1 DEF Word, Size2
<1> QED BY <1>1, <1>2, <1>3

(* The remainder is the only number of its kind. *)
LEMMA Remainder ==
  ASSUME NEW m \in Nat \ {0}, NEW r \in 0..(m - 1), NEW s \in 0..(m - 1),
         NEW k \in Int, r = s + k * m
  PROVE  r = s
<1>1. CASE k >= 1
  <2>1. k * m >= m
    BY <1>1
  <2> QED BY <2>1
<1>2. CASE k <= -1
  <2>1. k * m <= -m
    BY <1>2
  <2> QED BY <2>1
<1>3. CASE k = 0
  BY <1>3
<1> QED BY <1>1, <1>2, <1>3

LEMMA WordSame ==
  ASSUME NEW a \in Int, NEW b \in Int, NEW k \in Int, a = b + k * Size2
  PROVE  Word(a) = Word(b)
<1>1. PICK m \in Nat \ {0} : m = Size2
  BY Sizes
<1>2. PICK i \in Int : a = Word(a) + i * m
  BY <1>1, WordProps
<1>3. PICK j \in Int : b = Word(b) + j * m
  BY <1>1, WordProps
<1>4. PICK r \in 0..(m - 1), s \in 0..(m - 1) : r = Word(a) /\ s = Word(b)
  <2>1. /\ Word(a) \in Int /\ 0 <= Word(a) /\ Word(a) < m
        /\ Word(b) \in Int /\ 0 <= Word(b) /\ Word(b) < m
    BY <1>1, WordProps
  <2>2. Word(a) \in 0..(m - 1) /\ Word(b) \in 0..(m - 1)
    BY <2>1
  <2> QED BY <2>2
<1>5. r = s + (j + k - i) * m
  <2>1. a = r + i * m /\ b = s + j * m /\ a = b + k * m
    BY <1>1, <1>2, <1>3, <1>4
  <2>2. (j + k - i) * m = j * m + k * m - i * m
    OBVIOUS
  <2> QED BY <2>1, <2>2
<1>6. j + k - i \in Int
  OBVIOUS
<1>7. r = s
  BY <1>5, <1>6, Remainder
<1> QED BY <1>4, <1>7

LEMMA WordSmall ==
  ASSUME NEW a \in Int, 0 <= a, a < Size2
  PROVE  Word(a) = a
<1>1. PICK m \in Nat \ {0} : m = Size2
  BY Sizes
<1>2. a % m = a
  BY <1>1
<1> QED BY <1>1, <1>2 DEF Word, Size2

(* Reducing before adding or subtracting makes no difference. *)
LEMMA WordPlus ==
  ASSUME NEW a \in Int, NEW b \in Int
  PROVE  Word(Word(a) + b) = Word(a + b) /\ Word(b - Word(a)) = Word(b - a)
<1>1. PICK k \in Int : a = Word(a) + k * Size2
  BY WordProps
<1>2. PICK m \in Nat \ {0}, x \in Int : m = Size2 /\ x = Word(a)
  BY Sizes, WordProps
<1>3. a = x + k * m
  BY <1>1, <1>2
<1>4. x + b = (a + b) + (-k) * m /\ b - x = (b - a) + k * m /\ -k \in Int
      /\ a + b \in Int /\ b - a \in Int /\ x + b \in Int /\ b - x \in Int
  <2>1. (-k) * m = -(k * m)
    OBVIOUS
  <2> QED BY <1>3, <2>1
<1>5. Word(x + b) = Word(a + b)
  <2>1. PICK y \in Int, z \in Int, j \in Int : y = x + b /\ z = a + b /\ j = -k
    BY <1>4
  <2>2. y = z + j * Size2
    BY <1>2, <1>4, <2>1
  <2>3. Word(y) = Word(z)
    BY <2>2, WordSame
  <2> QED BY <2>1, <2>3
<1>6. Word(b - x) = Word(b - a)
  <2>1. PICK y \in Int, z \in Int : y = b - x /\ z = b - a
    BY <1>4
  <2>2. y = z + k * Size2
    BY <1>2, <1>4, <2>1
  <2>3. Word(y) = Word(z)
    BY <2>2, WordSame
  <2> QED BY <2>1, <2>3
<1> QED BY <1>2, <1>5, <1>6

LEMMA WordEqual ==
  ASSUME NEW a \in Int, NEW b \in Int, NEW c \in Int, Word(a) = Word(b)
  PROVE  Word(a + c) = Word(b + c) /\ Word(c - a) = Word(c - b)
<1>1. Word(Word(a) + c) = Word(a + c) /\ Word(c - Word(a)) = Word(c - a)
  BY WordPlus
<1>2. Word(Word(b) + c) = Word(b + c) /\ Word(c - Word(b)) = Word(c - b)
  BY WordPlus
<1> QED BY <1>1, <1>2

-----------------------------------------------------------------------------
(* stepper.c *)

Abs(x) == IF x < 0 THEN -x ELSE x

QueuedMove ==
  {m \in [interval : Int, count : Nat \ {0}, add : Int, dir : BOOLEAN] : Steady(m)}

StepperType ==
  [interval : Int, add : Int, count : Nat, next_step_time : Int, waketime : Int,
   active : BOOLEAN, position : 0..(2^W - 1), mq : Seq(QueuedMove),
   last_dir : {0, 1}, next_dir : {0, 1}, need_reset : BOOLEAN,
   single : BOOLEAN, step_pin : {0, 1}, dir_pin : {0, 1}, motor : Int]

(* The steps left of the move under way. *)
Left(s) == IF s.single THEN s.count ELSE s.count \div 2

(* position is, modulo its width, the place of the motor at the end of the
   move under way, negated if the motor moves backwards. *)
Signed(s) == IF s.dir_pin = 1 THEN s.motor + Bias ELSE -(s.motor + Bias)
PositionOK(s) == Word(s.position - Left(s)) = Word(Signed(s))

(* A stepper, *)
Sound(s) ==
  /\ s \in StepperType
  /\ s.count = 0 => s.mq = <<>>
  /\ s.count > 0 => ~s.need_reset
  /\ ~s.single => s.step_pin = s.count % 2
  /\ s.single => \A n \in 0..(s.count - 2) : s.interval + n * s.add >= 0
  /\ PositionOK(s)
StepperOK(s) ==
  /\ Sound(s)
  /\ s.active <=> s.count > 0

(* and one whose motor is where the position can tell. *)
InRange(s) == 1 <= s.motor + Bias /\ s.motor + Bias < TopBit

LEMMA BiasInt == Bias \in Nat
  BY StepperAssumption, Sizes DEF Size2

LEMMA StepperFields ==
  ASSUME NEW s \in StepperType
  PROVE  /\ s.interval \in Int /\ s.add \in Int /\ s.count \in Nat
         /\ s.next_step_time \in Int /\ s.waketime \in Int
         /\ s.active \in BOOLEAN /\ s.position \in Int
         /\ s.mq \in Seq(QueuedMove) /\ s.last_dir \in {0, 1}
         /\ s.next_dir \in {0, 1} /\ s.need_reset \in BOOLEAN
         /\ s.single \in BOOLEAN /\ s.step_pin \in {0, 1}
         /\ s.dir_pin \in {0, 1} /\ s.motor \in Int
         /\ Left(s) \in Nat
<1>1. /\ s.interval \in Int /\ s.add \in Int /\ s.count \in Nat
      /\ s.next_step_time \in Int /\ s.waketime \in Int
      /\ s.active \in BOOLEAN /\ s.position \in 0..(2^W - 1)
      /\ s.mq \in Seq(QueuedMove) /\ s.last_dir \in {0, 1}
      /\ s.next_dir \in {0, 1} /\ s.need_reset \in BOOLEAN
      /\ s.single \in BOOLEAN /\ s.step_pin \in {0, 1}
      /\ s.dir_pin \in {0, 1} /\ s.motor \in Int
  BY DEF StepperType
<1>2. s.position \in Int
  BY <1>1, Sizes DEF Size2
<1>3. Left(s) \in Nat
  BY <1>1 DEF Left
<1> QED BY <1>1, <1>2, <1>3

LEMMA WordType ==
  ASSUME NEW a \in Int
  PROVE  Word(a) \in 0..(2^W - 1) /\ Word(a) \in Int
<1>1. Word(a) \in Int /\ 0 <= Word(a) /\ Word(a) < Size2
  BY WordProps
<1> QED BY <1>1, Sizes DEF Size2

(* stepper_get_position computes the place of the motor. *)
LEMMA PositionTrue ==
  ASSUME NEW s \in StepperType, PositionOK(s), InRange(s)
  PROVE  GetPosition(s) = s.motor + Bias /\ Reported(s) = s.motor
<1>1. PICK x \in Int : x = s.motor + Bias /\ 1 <= x /\ x < TopBit
  BY StepperFields, BiasInt DEF InRange
<1> DEFINE p == Word(s.position - Left(s))
<1>2. /\ GetPosition(s) = IF p >= TopBit THEN Word(-p) ELSE p
      /\ s.position - Left(s) \in Int
  BY StepperFields DEF GetPosition, Left
<1>3. TopBit \in Nat /\ Size2 = 2 * TopBit
  BY Sizes
<1>4. GetPosition(s) = x
  <2>1. CASE s.dir_pin = 1
    <3>1. p = Word(x)
      BY <1>1, <2>1 DEF PositionOK, Signed
    <3>2. Word(x) = x
      BY <1>1, <1>3, WordSmall
    <3> QED BY <1>1, <1>2, <1>3, <3>1, <3>2
  <2>2. CASE s.dir_pin # 1
    <3>1. p = Word(-x)
      BY <1>1, <2>2 DEF PositionOK, Signed
    <3>2. PICK y \in Int, z \in Int : y = -x /\ z = Size2 - x
      BY <1>1, <1>3
    <3>3. Word(y) = Word(z)
      <4>1. y = z + (-1) * Size2 /\ -1 \in Int
        BY <1>3, <3>2
      <4> QED BY <4>1, WordSame
    <3>4. Word(z) = z
      BY <1>1, <1>3, <3>2, WordSmall
    <3>5. p = z /\ p >= TopBit
      BY <1>1, <1>3, <3>1, <3>2, <3>3, <3>4
    <3>6. Word(-p) = Word(x)
      <4>1. PICK u \in Int : u = -p
        BY <3>2, <3>5
      <4>2. u = x + (-1) * Size2 /\ -1 \in Int
        BY <1>3, <3>2, <3>5, <4>1
      <4>3. Word(u) = Word(x)
        BY <4>2, WordSame
      <4> QED BY <4>1, <4>3
    <3>7. Word(x) = x
      BY <1>1, <1>3, WordSmall
    <3> QED BY <1>2, <3>5, <3>6, <3>7
  <2> QED BY <2>1, <2>2
<1> QED BY <1>1, <1>4, StepperFields, BiasInt DEF Reported

(* stepper_stop. *)
LEMMA StoppedOK ==
  ASSUME NEW s, Sound(s), InRange(s)
  PROVE  /\ StepperOK(Stopped(s))
         /\ Stopped(s).motor = s.motor /\ Stopped(s).count = 0
         /\ Stopped(s).mq = <<>> /\ Stopped(s).need_reset
         /\ Stopped(s).last_dir = 0 /\ Stopped(s).next_dir = 0
         /\ Stopped(s).dir_pin = 0
<1> DEFINE r == Stopped(s)
<1>1. s \in StepperType /\ PositionOK(s)
  BY DEF Sound
<1>2. GetPosition(s) = s.motor + Bias
  BY <1>1, PositionTrue
<1>3. s.motor \in Int /\ Bias \in Nat /\ -(s.motor + Bias) \in Int
      /\ s.step_pin \in {0, 1} /\ s.single \in BOOLEAN
  BY <1>1, StepperFields, BiasInt
<1>4. PICK q : q = Word(-(s.motor + Bias))
  OBVIOUS
<1>5. q \in 0..(2^W - 1) /\ q \in Int
  BY <1>3, <1>4, WordType
<1>6. r = [s EXCEPT !.active = FALSE, !.next_step_time = 0, !.waketime = 0,
              !.position = q, !.count = 0,
              !.last_dir = 0, !.next_dir = 0, !.need_reset = TRUE,
              !.dir_pin = 0, !.step_pin = IF s.single THEN @ ELSE 0,
              !.mq = <<>>]
  BY <1>2, <1>4 DEF Stopped
<1>7. /\ r.motor = s.motor /\ r.count = 0 /\ r.mq = <<>> /\ r.need_reset = TRUE
      /\ r.last_dir = 0 /\ r.next_dir = 0 /\ r.dir_pin = 0 /\ r.position = q
      /\ r.active = FALSE /\ r.waketime = 0 /\ r.single = s.single
      /\ r.step_pin = IF s.single THEN s.step_pin ELSE 0
  BY <1>1, <1>6 DEF StepperType
<1>8. r \in StepperType
  <2>1. <<>> \in Seq(QueuedMove)
    OBVIOUS
  <2>2. (IF s.single THEN s.step_pin ELSE 0) \in {0, 1}
    BY <1>3
  <2>3. r = [interval |-> s.interval, add |-> s.add, count |-> 0,
             next_step_time |-> 0, waketime |-> 0, active |-> FALSE,
             position |-> q, mq |-> <<>>, last_dir |-> 0, next_dir |-> 0,
             need_reset |-> TRUE, single |-> s.single,
             step_pin |-> IF s.single THEN s.step_pin ELSE 0,
             dir_pin |-> 0, motor |-> s.motor]
    <3> HIDE DEF r
    <3> QED BY <1>1, <1>6 DEF StepperType
  <2> HIDE DEF r
  <2>4. s.interval \in Int /\ s.add \in Int /\ s.single \in BOOLEAN /\ s.motor \in Int
    BY <1>1, StepperFields
  <2> QED BY <1>5, <2>1, <2>2, <2>3, <2>4 DEF StepperType
<1> HIDE DEF r
<1>9. PositionOK(r)
  <2>1. Left(r) = 0
    BY <1>3, <1>7 DEF Left
  <2>2. r.position - Left(r) = q /\ Signed(r) = -(s.motor + Bias)
    BY <1>5, <1>7, <2>1 DEF Signed
  <2>3. Word(q) = q
    BY <1>5, Sizes, WordSmall DEF Size2
  <2> QED BY <1>4, <2>2, <2>3 DEF PositionOK
<1>10. Sound(r)
  BY <1>3, <1>7, <1>8, <1>9 DEF Sound
<1> QED BY <1>7, <1>10 DEF StepperOK, r

(* The motor is at the end of a move. *)
Ended(s) ==
  /\ s \in StepperType
  /\ Word(s.position) = Word(Signed(s))
  /\ ~s.need_reset
  /\ ~s.single => s.step_pin = 0

(* stepper_load_next, with a move to load: *)
Loaded(s, m) ==
  [interval |-> m.interval + m.add, add |-> m.add,
   count |-> IF s.single THEN m.count ELSE 2 * m.count,
   next_step_time |-> IF s.single THEN s.next_step_time
                      ELSE s.next_step_time + m.interval,
   waketime |-> IF s.single THEN s.waketime + m.interval
                ELSE s.next_step_time + m.interval,
   active |-> s.active,
   position |-> IF m.dir THEN Word(m.count - s.position)
                ELSE Word(s.position + m.count),
   mq |-> Tail(s.mq), last_dir |-> s.last_dir, next_dir |-> s.next_dir,
   need_reset |-> s.need_reset, single |-> s.single, step_pin |-> s.step_pin,
   dir_pin |-> IF m.dir THEN 1 - s.dir_pin ELSE s.dir_pin, motor |-> s.motor]

LEMMA LoadNextIs ==
  ASSUME NEW s \in StepperType
  PROVE  /\ s.mq # <<>> => LoadNext(s) = Loaded(s, Head(s.mq))
         /\ s.mq = <<>> => LoadNext(s) = [s EXCEPT !.count = 0, !.active = FALSE]
<1>1. ASSUME s.mq # <<>> PROVE LoadNext(s) = Loaded(s, Head(s.mq))
  <2> DEFINE m == Head(s.mq)
             x == [s EXCEPT !.mq = Tail(@), !.add = m.add,
                            !.interval = m.interval + m.add]
             y == LoadTime(x, m)
  <2>1. LoadNext(s) = LoadDir(y, m)
    BY <1>1 DEF LoadNext
  <2> HIDE DEF m
  <2>2. x = [interval |-> m.interval + m.add, add |-> m.add, count |-> s.count,
             next_step_time |-> s.next_step_time, waketime |-> s.waketime,
             active |-> s.active, position |-> s.position, mq |-> Tail(s.mq),
             last_dir |-> s.last_dir, next_dir |-> s.next_dir,
             need_reset |-> s.need_reset, single |-> s.single,
             step_pin |-> s.step_pin, dir_pin |-> s.dir_pin, motor |-> s.motor]
    <3>1. s = [interval |-> s.interval, add |-> s.add, count |-> s.count,
               next_step_time |-> s.next_step_time, waketime |-> s.waketime,
               active |-> s.active, position |-> s.position, mq |-> s.mq,
               last_dir |-> s.last_dir, next_dir |-> s.next_dir,
               need_reset |-> s.need_reset, single |-> s.single,
               step_pin |-> s.step_pin, dir_pin |-> s.dir_pin, motor |-> s.motor]
      BY DEF StepperType
    <3>2. PICK q : q = Tail(s.mq)
      OBVIOUS
    <3>3. x = [s EXCEPT !.mq = q, !.add = m.add, !.interval = m.interval + m.add]
      BY <3>2
    <3> HIDE DEF x
    <3> QED BY <3>1, <3>2, <3>3
  <2> HIDE DEF x
  <2>3. y = [interval |-> m.interval + m.add, add |-> m.add,
             count |-> IF s.single THEN m.count ELSE 2 * m.count,
             next_step_time |-> IF s.single THEN s.next_step_time
                                ELSE s.next_step_time + m.interval,
             waketime |-> IF s.single THEN s.waketime + m.interval
                          ELSE s.next_step_time + m.interval,
             active |-> s.active, position |-> s.position, mq |-> Tail(s.mq),
             last_dir |-> s.last_dir, next_dir |-> s.next_dir,
             need_reset |-> s.need_reset, single |-> s.single,
             step_pin |-> s.step_pin, dir_pin |-> s.dir_pin, motor |-> s.motor]
    BY <2>2, ZenonT(30) DEF LoadTime
  <2> HIDE DEF y
  <2>4. LoadDir(y, m) = Loaded(s, m)
    BY <2>3, ZenonT(30) DEF LoadDir, Loaded
  <2> QED BY <2>1, <2>4 DEF m
<1>2. s.mq = <<>> => LoadNext(s) = [s EXCEPT !.count = 0, !.active = FALSE]
  BY DEF LoadNext
<1> QED BY <1>1, <1>2

(* the position still tells the place, and the next steps are in order. *)
LEMMA LoadedSound ==
  ASSUME NEW s, Ended(s), NEW m \in QueuedMove, s.mq # <<>>
  PROVE  /\ Sound(Loaded(s, m)) /\ Loaded(s, m).count > 0
         /\ Left(Loaded(s, m)) = m.count
<1> DEFINE r == Loaded(s, m)
<1>1. /\ s \in StepperType /\ Word(s.position) = Word(Signed(s))
      /\ ~s.need_reset /\ (~s.single => s.step_pin = 0)
  BY DEF Ended
<1>2. /\ s.position \in Int /\ s.mq \in Seq(QueuedMove) /\ s.motor \in Int
      /\ s.dir_pin \in {0, 1} /\ s.next_step_time \in Int /\ s.waketime \in Int
      /\ s.single \in BOOLEAN /\ s.active \in BOOLEAN /\ s.last_dir \in {0, 1}
      /\ s.next_dir \in {0, 1} /\ s.need_reset \in BOOLEAN /\ s.step_pin \in {0, 1}
  BY <1>1, StepperFields
<1>3. /\ m.interval \in Int /\ m.add \in Int /\ m.count \in Nat /\ m.count > 0
      /\ m.dir \in BOOLEAN
      /\ \A n \in 0..(m.count - 1) : m.interval + n * m.add >= 0
  BY DEF QueuedMove, Steady
<1>4. /\ r.interval = m.interval + m.add /\ r.add = m.add
      /\ r.count = (IF s.single THEN m.count ELSE 2 * m.count)
      /\ r.single = s.single /\ r.mq = Tail(s.mq) /\ r.motor = s.motor
      /\ r.dir_pin = (IF m.dir THEN 1 - s.dir_pin ELSE s.dir_pin)
      /\ r.position = (IF m.dir THEN Word(m.count - s.position)
                       ELSE Word(s.position + m.count))
      /\ r.step_pin = s.step_pin /\ r.need_reset = s.need_reset
  BY DEF Loaded
<1>5. r \in StepperType
  <2>1. Tail(s.mq) \in Seq(QueuedMove)
    BY <1>2, TailProps
  <2>2. (IF m.dir THEN Word(m.count - s.position)
         ELSE Word(s.position + m.count)) \in 0..(2^W - 1)
    <3>1. m.count - s.position \in Int /\ s.position + m.count \in Int
      BY <1>2, <1>3
    <3>2. /\ Word(m.count - s.position) \in 0..(2^W - 1)
          /\ Word(s.position + m.count) \in 0..(2^W - 1)
      BY <3>1, WordType
    <3> QED BY <3>2
  <2>3. (IF m.dir THEN 1 - s.dir_pin ELSE s.dir_pin) \in {0, 1}
    BY <1>2
  <2>4. /\ (IF s.single THEN m.count ELSE 2 * m.count) \in Nat
        /\ (IF s.single THEN s.next_step_time
            ELSE s.next_step_time + m.interval) \in Int
        /\ (IF s.single THEN s.waketime + m.interval
            ELSE s.next_step_time + m.interval) \in Int
        /\ m.interval + m.add \in Int
    BY <1>2, <1>3, SMTT(30)
  <2> QED BY <1>2, <1>3, <2>1, <2>2, <2>3, <2>4 DEF StepperType, Loaded
<1> HIDE DEF r
<1>6. Left(r) = m.count /\ r.count > 0 /\ r.count \in Nat
  BY <1>2, <1>3, <1>4, SMTT(30) DEF Left
<1>7. PositionOK(r)
  <2> DEFINE p == s.motor + Bias
  <2>1. p \in Int /\ -p \in Int
    BY <1>2, BiasInt
  <2>2. Signed(s) \in Int
    BY <1>2, <2>1 DEF Signed
  <2>3. CASE m.dir
    <3>1. Signed(r) = 0 - Signed(s)
      BY <1>2, <1>4, <2>1, <2>3 DEF Signed
    <3>2. Word(Word(m.count - s.position) + (-m.count))
            = Word((m.count - s.position) + (-m.count))
      <4>1. m.count - s.position \in Int /\ -m.count \in Int
        BY <1>2, <1>3
      <4> QED BY <4>1, WordPlus
    <3>3. (m.count - s.position) + (-m.count) = 0 - s.position
      BY <1>2, <1>3
    <3>4. Word(0 - s.position) = Word(0 - Signed(s))
      <4>1. 0 \in Int
        OBVIOUS
      <4> QED BY <1>1, <1>2, <2>2, <4>1, WordEqual, ZenonT(30)
    <3>5. r.position - Left(r) = Word(m.count - s.position) + (-m.count)
      <4>1. Word(m.count - s.position) \in Int
        <5>1. m.count - s.position \in Int
          BY <1>2, <1>3
        <5> QED BY <5>1, WordType
      <4> QED BY <1>3, <1>4, <1>6, <2>3, <4>1
    <3> QED BY <3>1, <3>2, <3>3, <3>4, <3>5 DEF PositionOK
  <2>4. CASE ~m.dir
    <3>1. Signed(r) = Signed(s)
      BY <1>4, <2>4 DEF Signed
    <3>2. Word(Word(s.position + m.count) + (-m.count))
            = Word((s.position + m.count) + (-m.count))
      <4>1. s.position + m.count \in Int /\ -m.count \in Int
        BY <1>2, <1>3
      <4> QED BY <4>1, WordPlus
    <3>3. (s.position + m.count) + (-m.count) = s.position
      BY <1>2, <1>3
    <3>5. r.position - Left(r) = Word(s.position + m.count) + (-m.count)
      <4>1. Word(s.position + m.count) \in Int
        <5>1. s.position + m.count \in Int
          BY <1>2, <1>3
        <5> QED BY <5>1, WordType
      <4> QED BY <1>3, <1>4, <1>6, <2>4, <4>1
    <3> QED BY <1>1, <3>1, <3>2, <3>3, <3>5 DEF PositionOK
  <2> QED BY <1>3, <2>3, <2>4
<1>8. r.single => \A n \in 0..(r.count - 2) : r.interval + n * r.add >= 0
  <2> SUFFICES ASSUME r.single, NEW n \in 0..(r.count - 2)
               PROVE  r.interval + n * r.add >= 0
    OBVIOUS
  <2>1. n + 1 \in 0..(m.count - 1) /\ n \in Int
    BY <1>3, <1>4
  <2>2. m.interval + (n + 1) * m.add >= 0
    BY <1>3, <2>1
  <2>3. (n + 1) * m.add = n * m.add + m.add /\ n * m.add \in Int
    <3>1. PICK k \in Int, j \in Int : k = m.add /\ j = n
      BY <1>3, <2>1
    <3>2. (j + 1) * k = j * k + k /\ j * k \in Int
      OBVIOUS
    <3> QED BY <3>1, <3>2
  <2>4. r.interval + n * r.add = (m.interval + m.add) + n * m.add
    BY <1>4
  <2> QED BY <1>3, <2>2, <2>3, <2>4
<1>9. ~r.single => r.step_pin = r.count % 2
  <2> SUFFICES ASSUME ~r.single PROVE r.step_pin = r.count % 2
    OBVIOUS
  <2>1. r.count = 2 * m.count /\ r.step_pin = 0
    BY <1>1, <1>4
  <2> QED BY <1>3, <2>1
<1>10. Sound(r)
  BY <1>1, <1>4, <1>5, <1>6, <1>7, <1>8, <1>9 DEF Sound
<1> QED BY <1>4, <1>6, <1>10 DEF r

(* gpio_out_toggle of the step pin: one edge. *)
Edge(s) == [ToggleStep(s) EXCEPT !.count = @ - 1]

LEMMA ToggleIs ==
  ASSUME NEW s \in StepperType
  PROVE  /\ ToggleStep(s) \in StepperType
         /\ ToggleStep(s) =
              [s EXCEPT !.step_pin = 1 - s.step_pin,
                        !.motor = IF s.single \/ s.step_pin = 0
                                  THEN Moved(s.motor, s.dir_pin, 1) ELSE s.motor]
<1>1. s.step_pin \in {0, 1} /\ s.motor \in Int /\ s.dir_pin \in {0, 1}
  BY StepperFields
<1> DEFINE q == IF s.single \/ s.step_pin = 0
                THEN Moved(s.motor, s.dir_pin, 1) ELSE s.motor
<1>2. q \in Int /\ 1 - s.step_pin \in {0, 1}
  BY <1>1 DEF Moved
<1>3. ToggleStep(s) = [s EXCEPT !.step_pin = 1 - s.step_pin, !.motor = q]
  BY <1>1 DEF ToggleStep, Moved
<1> HIDE DEF q
<1>4. [s EXCEPT !.step_pin = 1 - s.step_pin, !.motor = q] \in StepperType
  BY <1>2 DEF StepperType
<1> QED BY <1>3, <1>4 DEF q

LEMMA EdgeOK ==
  ASSUME NEW s, Sound(s), s.count > 0
  PROVE  /\ Edge(s) \in StepperType /\ PositionOK(Edge(s))
         /\ Edge(s).count = s.count - 1
         /\ Edge(s).mq = s.mq /\ Edge(s).active = s.active
         /\ Edge(s).waketime = s.waketime /\ Edge(s).interval = s.interval
         /\ Edge(s).add = s.add /\ Edge(s).single = s.single
         /\ Edge(s).last_dir = s.last_dir /\ Edge(s).next_dir = s.next_dir
         /\ Edge(s).need_reset = s.need_reset /\ Edge(s).dir_pin = s.dir_pin
         /\ Edge(s).next_step_time = s.next_step_time
         /\ ~s.single => Edge(s).step_pin = Edge(s).count % 2
         /\ Moved(Edge(s).motor, s.dir_pin, Left(Edge(s)))
              = Moved(s.motor, s.dir_pin, Left(s))
         /\ Abs(Edge(s).motor) + Left(Edge(s)) <= Abs(s.motor) + Left(s)
<1> DEFINE q == IF s.single \/ s.step_pin = 0
                THEN Moved(s.motor, s.dir_pin, 1) ELSE s.motor
           r == Edge(s)
<1>1. /\ s \in StepperType /\ PositionOK(s)
      /\ ~s.single => s.step_pin = s.count % 2
  BY DEF Sound
<1>2. /\ s.step_pin \in {0, 1} /\ s.motor \in Int /\ s.dir_pin \in {0, 1}
      /\ s.count \in Nat /\ s.single \in BOOLEAN /\ s.position \in Int
      /\ Left(s) \in Nat
  BY <1>1, StepperFields
<1>3. q \in Int /\ 1 - s.step_pin \in {0, 1} /\ s.count - 1 \in Nat
  BY <1>2 DEF Moved
<1>4. ToggleStep(s) = [s EXCEPT !.step_pin = 1 - s.step_pin, !.motor = q]
  BY <1>1, ToggleIs
<1> HIDE DEF q
<1>5. r = [s EXCEPT !.step_pin = 1 - s.step_pin, !.motor = q, !.count = s.count - 1]
  BY <1>1, <1>4 DEF Edge, StepperType
<1> HIDE DEF r
<1>6. r \in StepperType
  BY <1>1, <1>3, <1>5 DEF StepperType
<1>7. /\ r.step_pin = 1 - s.step_pin /\ r.motor = q /\ r.count = s.count - 1
      /\ r.position = s.position /\ r.dir_pin = s.dir_pin /\ r.single = s.single
      /\ r.mq = s.mq /\ r.active = s.active /\ r.waketime = s.waketime
      /\ r.interval = s.interval /\ r.add = s.add /\ r.last_dir = s.last_dir
      /\ r.next_dir = s.next_dir /\ r.need_reset = s.need_reset
      /\ r.next_step_time = s.next_step_time
  BY <1>1, <1>5 DEF StepperType
(* Either the motor makes a step and one step less is left, or neither. *)
<1>8. \/ q = Moved(s.motor, s.dir_pin, 1) /\ Left(r) = Left(s) - 1
      \/ q = s.motor /\ Left(r) = Left(s)
  <2>1. CASE s.single
    <3>1. q = Moved(s.motor, s.dir_pin, 1)
      BY <2>1 DEF q
    <3>2. Left(r) = Left(s) - 1
      BY <1>7, <2>1 DEF Left
    <3> QED BY <3>1, <3>2
  <2>2. CASE ~s.single
    <3>1. s.step_pin = s.count % 2 /\ Left(s) = s.count \div 2
          /\ Left(r) = (s.count - 1) \div 2
      BY <1>1, <1>7, <2>2 DEF Left
    <3>2. CASE s.step_pin = 0
      <4>1. (s.count - 1) \div 2 = s.count \div 2 - 1
        BY <1>2, <3>1, <3>2
      <4> QED BY <3>1, <3>2, <4>1 DEF q
    <3>3. CASE s.step_pin # 0
      <4>1. (s.count - 1) \div 2 = s.count \div 2
        BY <1>2, <3>1, <3>3
      <4> QED BY <2>2, <3>1, <3>3, <4>1 DEF q
    <3> QED BY <3>2, <3>3
  <2> QED BY <1>2, <2>1, <2>2
<1>9. ~s.single => r.step_pin = r.count % 2
  BY <1>1, <1>2, <1>7
<1>10. /\ Moved(r.motor, s.dir_pin, Left(r)) = Moved(s.motor, s.dir_pin, Left(s))
       /\ Abs(r.motor) + Left(r) <= Abs(s.motor) + Left(s)
  BY <1>2, <1>7, <1>8 DEF Moved, Abs
<1>11. PositionOK(r)
  <2>0. Word(s.position - Left(s)) = Word(Signed(s))
    BY <1>1 DEF PositionOK
  <2>1. CASE q = s.motor /\ Left(r) = Left(s)
    <3>1. Signed(r) = Signed(s) /\ r.position - Left(r) = s.position - Left(s)
      BY <1>7, <2>1 DEF Signed
    <3> QED BY <2>0, <3>1 DEF PositionOK
  <2>2. CASE q = Moved(s.motor, s.dir_pin, 1) /\ Left(r) = Left(s) - 1
    <3>1. PICK a \in Int, b \in Int : a = s.position - Left(s) /\ b = Signed(s)
      BY <1>2, BiasInt DEF Signed
    <3>2. r.position - Left(r) = a + 1
      BY <1>2, <1>7, <2>2, <3>1
    <3>3. Signed(r) = b + 1
      BY <1>2, <1>7, <2>2, <3>1, BiasInt DEF Signed, Moved
    <3>4. Word(a) = Word(b)
      BY <2>0, <3>1
    <3>5. Word(a + 1) = Word(b + 1)
      BY <3>4, WordEqual
    <3> QED BY <3>2, <3>3, <3>5 DEF PositionOK
  <2> QED BY <1>8, <2>1, <2>2
<1> QED BY <1>6, <1>7, <1>9, <1>10, <1>11 DEF r

(* The last edge ends the move. *)
LEMMA EdgeEnds ==
  ASSUME NEW s, Sound(s), s.count = 1, NEW t,
         t = ToggleStep(s) \/ t = Edge(s)
  PROVE  /\ Ended(t) /\ t.mq = s.mq /\ t.active = s.active
         /\ t.waketime = s.waketime /\ t.single = s.single
         /\ t.next_step_time = s.next_step_time
         /\ t.last_dir = s.last_dir /\ t.next_dir = s.next_dir
         /\ t.need_reset = s.need_reset /\ t.dir_pin = s.dir_pin
         /\ t.motor = Moved(s.motor, s.dir_pin, Left(s))
         /\ Abs(t.motor) <= Abs(s.motor) + Left(s)
<1> DEFINE e == Edge(s)
<1>1. s \in StepperType /\ ~s.need_reset
  BY DEF Sound
<1>2. t \in StepperType /\ e \in StepperType
  <2>1. s.count > 0
    OBVIOUS
  <2>2. Edge(s) \in StepperType
    BY <2>1, EdgeOK
  <2>3. ToggleStep(s) \in StepperType
    BY <1>1, ToggleIs
  <2> QED BY <2>2, <2>3
<1>3. e = [ToggleStep(s) EXCEPT !.count = @ - 1] /\ ToggleStep(s) \in StepperType
  BY <1>1, ToggleIs DEF Edge
<1> HIDE DEF e
<1>4. /\ t.mq = e.mq /\ t.active = e.active /\ t.waketime = e.waketime
      /\ t.single = e.single /\ t.next_step_time = e.next_step_time
      /\ t.last_dir = e.last_dir /\ t.next_dir = e.next_dir
      /\ t.need_reset = e.need_reset /\ t.dir_pin = e.dir_pin
      /\ t.motor = e.motor /\ t.position = e.position /\ t.step_pin = e.step_pin
  BY <1>3 DEF StepperType, e
<1>5. /\ PositionOK(e) /\ e.count = 0 /\ e.mq = s.mq /\ e.active = s.active
      /\ e.waketime = s.waketime /\ e.single = s.single
      /\ e.next_step_time = s.next_step_time
      /\ e.last_dir = s.last_dir /\ e.next_dir = s.next_dir
      /\ e.need_reset = s.need_reset /\ e.dir_pin = s.dir_pin
      /\ ~s.single => e.step_pin = e.count % 2
      /\ Moved(e.motor, s.dir_pin, Left(e)) = Moved(s.motor, s.dir_pin, Left(s))
      /\ Abs(e.motor) + Left(e) <= Abs(s.motor) + Left(s)
  BY EdgeOK DEF e
<1>6. Left(e) = 0 /\ e.motor \in Int /\ e.position \in Int /\ t.motor \in Int
  BY <1>2, <1>5, StepperFields DEF Left
<1>7. e.motor = Moved(s.motor, s.dir_pin, Left(s))
  BY <1>5, <1>6 DEF Moved
<1>8. Word(t.position) = Word(Signed(t))
  <2>1. Word(e.position - 0) = Word(Signed(e))
    BY <1>5, <1>6 DEF PositionOK
  <2>2. e.position - 0 = e.position /\ Signed(t) = Signed(e)
    BY <1>4, <1>6 DEF Signed
  <2> QED BY <1>4, <2>1, <2>2
<1>9. ~t.single => t.step_pin = 0
  BY <1>4, <1>5
<1>10. Abs(t.motor) <= Abs(s.motor) + Left(s)
  BY <1>4, <1>5, <1>6 DEF Abs
<1> QED BY <1>1, <1>2, <1>4, <1>5, <1>7, <1>8, <1>9, <1>10 DEF Ended

-----------------------------------------------------------------------------
(* Where a motor is going to be *)

(* With n steps left of the move under way, and after the moves it has
   queued, the motor comes to view b. *)
Faces(s, n, b) ==
  \E a \in View :
    /\ a.place = Moved(s.motor, s.dir_pin, n) /\ a.dir = s.dir_pin
    /\ Abs(s.motor) + n <= a.used
    /\ Runs(Loads(s.mq), a, b)

(* v is what the next command meets. *)
Predicts(s, v) ==
  /\ v \in View
  /\ v.dir = s.next_dir /\ v.stopped = s.need_reset
  /\ \E b \in View : /\ Faces(s, Left(s), b)
                     /\ b.place = v.place /\ b.dir = s.last_dir /\ b.used <= v.used

LEMMA LoadsType ==
  ASSUME NEW q \in Seq(QueuedMove)
  PROVE  /\ Loads(q) \in Seq(Command) /\ Len(Loads(q)) = Len(q) /\ Len(q) \in Nat
         /\ \A i \in 1..Len(q) : Loads(q)[i] = LoadOf(q[i])
         /\ \A m \in QueuedMove : LoadOf(m) \in Command
<1>1. \A m \in QueuedMove : LoadOf(m) \in Command
  BY DEF QueuedMove, LoadOf, Command
<1>2. Len(q) \in Nat /\ \A i \in 1..Len(q) : q[i] \in QueuedMove
  OBVIOUS
<1>3. Loads(q) \in [1..Len(q) -> Command]
  BY <1>1, <1>2 DEF Loads
<1>4. Loads(q) \in Seq(Command) /\ Len(Loads(q)) = Len(q)
  <2>1. PICK f, n : f = Loads(q) /\ n = Len(q)
    OBVIOUS
  <2>2. n \in Nat /\ f \in [1..n -> Command]
    BY <1>2, <1>3, <2>1
  <2>3. f \in Seq(Command) /\ Len(f) = n
    BY <2>2
  <2> QED BY <2>1, <2>3
<1>5. \A i \in 1..Len(q) : Loads(q)[i] = LoadOf(q[i])
  BY DEF Loads
<1> QED BY <1>1, <1>2, <1>4, <1>5

LEMMA LoadedFaces ==
  ASSUME NEW s \in StepperType, s.mq # <<>>, NEW b, Faces(s, 0, b)
  PROVE  Faces(Loaded(s, Head(s.mq)), Head(s.mq).count, b)
<1> DEFINE m == Head(s.mq)
           r == Loaded(s, m)
<1>1. PICK a \in View : /\ a.place = Moved(s.motor, s.dir_pin, 0) /\ a.dir = s.dir_pin
                        /\ Abs(s.motor) + 0 <= a.used
                        /\ Runs(Loads(s.mq), a, b)
  BY DEF Faces
<1>2. s.mq \in Seq(QueuedMove) /\ s.motor \in Int /\ s.dir_pin \in {0, 1}
  BY StepperFields
<1>3. /\ m = s.mq[1] /\ m \in QueuedMove /\ Tail(s.mq) \in Seq(QueuedMove)
      /\ Len(Tail(s.mq)) = Len(s.mq) - 1 /\ Len(s.mq) \in Nat /\ Len(s.mq) >= 1
      /\ \A i \in 1..Len(Tail(s.mq)) : Tail(s.mq)[i] = s.mq[i + 1]
  BY <1>2, TailProps
<1> HIDE DEF m
<1>4. PICK q : q = Tail(s.mq)
  OBVIOUS
<1> DEFINE c == Loads(s.mq)
           e == Loads(q)
<1>5. /\ c \in Seq(Command) /\ Len(c) = Len(s.mq) /\ c[1] = LoadOf(m)
      /\ \A i \in 1..Len(s.mq) : c[i] = LoadOf(s.mq[i])
  <2>1. 1 \in 1..Len(s.mq)
    BY <1>3
  <2> QED BY <1>2, <1>3, <2>1, LoadsType
<1>6. /\ e \in Seq(Command) /\ Len(e) = Len(s.mq) - 1
      /\ \A i \in 1..Len(e) : e[i] = LoadOf(q[i])
  BY <1>3, <1>4, LoadsType
<1>7. \A i \in 1..Len(e) : e[i] = c[i + 1]
  <2> SUFFICES ASSUME NEW i \in 1..Len(e) PROVE e[i] = c[i + 1]
    OBVIOUS
  <2>1. i + 1 \in 1..Len(s.mq)
    BY <1>3, <1>6
  <2>2. q[i] = s.mq[i + 1]
    BY <1>3, <1>4, <1>6
  <2> QED BY <1>5, <1>6, <2>1, <2>2
<1> HIDE DEF c, e
<1>8. Apply(a, LoadOf(m)) \in View /\ Runs(e, Apply(a, LoadOf(m)), b)
  <2>1. Len(c) = Len(e) + 1 /\ Runs(c, a, b)
    BY <1>1, <1>3, <1>5, <1>6 DEF c
  <2> QED BY <1>5, <1>6, <1>7, <2>1, RunsTail
<1>9. /\ m.count \in Nat /\ m.dir \in BOOLEAN
  BY <1>3 DEF QueuedMove
<1>10. /\ r.motor = s.motor /\ r.mq = q
       /\ r.dir_pin = IF m.dir THEN 1 - s.dir_pin ELSE s.dir_pin
  BY <1>4 DEF Loaded
<1> HIDE DEF r
<1>11. /\ Apply(a, LoadOf(m)).dir = r.dir_pin
       /\ Apply(a, LoadOf(m)).place = Moved(s.motor, r.dir_pin, m.count)
       /\ Apply(a, LoadOf(m)).used = a.used + m.count
  <2>1. Turned(a, LoadOf(m)) = r.dir_pin
    BY <1>1, <1>10 DEF Turned, LoadOf
  <2>2. a.place = s.motor
    BY <1>1, <1>2 DEF Moved
  <2> QED BY <2>1, <2>2 DEF Apply, Moves, LoadOf
<1>12. Abs(r.motor) + m.count <= a.used + m.count
  <2>1. Abs(s.motor) \in Int /\ a.used \in Nat
    BY <1>1, <1>2 DEF Abs, View
  <2> QED BY <1>1, <1>9, <1>10, <2>1
<1>13. Faces(r, m.count, b)
  BY <1>8, <1>10, <1>11, <1>12 DEF Faces, e
<1> QED BY <1>13 DEF r, m

(* r is the stepper s after an event of its timer. *)
Follows(s, r) ==
  /\ StepperOK(r)
  /\ r.next_dir = s.next_dir /\ r.last_dir = s.last_dir
  /\ r.need_reset = s.need_reset
  /\ \A b : Faces(s, Left(s), b) => Faces(r, Left(r), b)

(* The move under way goes on: one event for a step, or two. *)
GoesOnEdge(s, r) ==
  /\ s.single
  /\ r = [Edge(s) EXCEPT !.waketime = s.waketime + s.interval,
                         !.interval = s.interval + s.add]
GoesOnFull(s, r) ==
  /\ ~s.single
  /\ \E time \in Nat, next \in Int, interval \in Int :
       r = [Edge(s) EXCEPT !.waketime = time, !.next_step_time = next,
                           !.interval = interval]

LEMMA EdgeFollows ==
  ASSUME NEW s, StepperOK(s), s.count > 1, NEW r,
         GoesOnEdge(s, r) \/ GoesOnFull(s, r)
  PROVE  Follows(s, r) /\ r.mq = s.mq
<1> DEFINE e == Edge(s)
<1>1. Sound(s) /\ s \in StepperType
  BY DEF StepperOK, Sound
<1>2. /\ e \in StepperType /\ PositionOK(e) /\ e.count = s.count - 1
      /\ e.mq = s.mq /\ e.active = s.active /\ e.waketime = s.waketime
      /\ e.interval = s.interval /\ e.add = s.add /\ e.single = s.single
      /\ e.last_dir = s.last_dir /\ e.next_dir = s.next_dir
      /\ e.need_reset = s.need_reset /\ e.dir_pin = s.dir_pin
      /\ ~s.single => e.step_pin = e.count % 2
      /\ Moved(e.motor, s.dir_pin, Left(e)) = Moved(s.motor, s.dir_pin, Left(s))
      /\ Abs(e.motor) + Left(e) <= Abs(s.motor) + Left(s)
  <2>1. s.count > 0
    BY <1>1, StepperFields
  <2> QED BY <1>1, <2>1, EdgeOK
<1>3. /\ s.count \in Nat /\ s.interval \in Int /\ s.add \in Int
      /\ s.waketime \in Int /\ s.single \in BOOLEAN
  BY <1>1, StepperFields
<1> HIDE DEF e
<1>4. PICK time \in Int, next \in Int, interval \in Int :
        /\ s.single => interval = s.interval + s.add
        /\ r = [e EXCEPT !.waketime = time, !.next_step_time = next,
                         !.interval = interval]
  <2>1. CASE s.single
    <3>1. r = [e EXCEPT !.waketime = s.waketime + s.interval,
                        !.interval = s.interval + s.add]
      BY <2>1 DEF e, GoesOnEdge, GoesOnFull
    <3>2. e.next_step_time \in Int
      BY <1>2, StepperFields
    <3>3. r = [e EXCEPT !.waketime = s.waketime + s.interval,
                        !.next_step_time = e.next_step_time,
                        !.interval = s.interval + s.add]
      BY <1>2, <3>1 DEF StepperType
    <3>4. s.waketime + s.interval \in Int /\ s.interval + s.add \in Int
      BY <1>3
    <3> QED BY <3>2, <3>3, <3>4
  <2>2. CASE ~s.single
    <3>1. PICK time \in Nat, next \in Int, interval \in Int :
            r = [e EXCEPT !.waketime = time, !.next_step_time = next,
                          !.interval = interval]
      BY <2>2 DEF e, GoesOnEdge, GoesOnFull
    <3>2. time \in Int
      OBVIOUS
    <3> QED BY <2>2, <3>1, <3>2
  <2> QED BY <2>1, <2>2
<1>5. r \in StepperType
  BY <1>2, <1>4 DEF StepperType
<1>6. /\ r.count = e.count /\ r.mq = e.mq /\ r.active = e.active
      /\ r.waketime = time /\ r.interval = interval /\ r.add = e.add
      /\ r.single = e.single /\ r.last_dir = e.last_dir /\ r.next_dir = e.next_dir
      /\ r.need_reset = e.need_reset /\ r.dir_pin = e.dir_pin
      /\ r.step_pin = e.step_pin /\ r.motor = e.motor /\ r.position = e.position
  BY <1>2, <1>4 DEF StepperType
<1>7. Left(r) = Left(e) /\ Signed(r) = Signed(e)
  BY <1>6 DEF Left, Signed
<1>8. PositionOK(r)
  BY <1>2, <1>6, <1>7 DEF PositionOK
<1>9. r.single => \A n \in 0..(r.count - 2) : r.interval + n * r.add >= 0
  <2> SUFFICES ASSUME r.single, NEW n \in 0..(r.count - 2)
               PROVE  r.interval + n * r.add >= 0
    OBVIOUS
  <2>1. n + 1 \in 0..(s.count - 2) /\ n \in Int
    BY <1>2, <1>3, <1>6
  <2>2. s.interval + (n + 1) * s.add >= 0
    BY <1>1, <1>2, <1>6, <2>1 DEF Sound
  <2>3. PICK k \in Int, j \in Int : k = s.add /\ j = n
    BY <1>3, <2>1
  <2>4. (j + 1) * k = j * k + k /\ j * k \in Int
    OBVIOUS
  <2>5. r.interval + n * r.add = (s.interval + k) + j * k
    BY <1>2, <1>4, <1>6, <2>3
  <2>6. s.interval + (j * k + k) >= 0
    BY <2>2, <2>3, <2>4
  <2> QED BY <1>3, <2>3, <2>4, <2>5, <2>6
<1>10. Sound(r)
  BY <1>1, <1>2, <1>3, <1>5, <1>6, <1>8, <1>9 DEF Sound
<1>11. StepperOK(r)
  <2>1. s.active <=> s.count > 0
    BY DEF StepperOK
  <2>2. r.active <=> r.count > 0
    BY <1>2, <1>3, <1>6, <2>1
  <2> QED BY <1>10, <2>2 DEF StepperOK
<1>12. ASSUME NEW b, Faces(s, Left(s), b) PROVE Faces(r, Left(r), b)
  <2>1. PICK a \in View : /\ a.place = Moved(s.motor, s.dir_pin, Left(s))
                          /\ a.dir = s.dir_pin
                          /\ Abs(s.motor) + Left(s) <= a.used
                          /\ Runs(Loads(s.mq), a, b)
    BY <1>12 DEF Faces
  <2>2. a.place = Moved(r.motor, r.dir_pin, Left(r)) /\ a.dir = r.dir_pin
    BY <1>2, <1>6, <1>7, <2>1
  <2>3. Abs(r.motor) + Left(r) <= a.used
    <3>1. /\ Abs(s.motor) \in Int /\ Left(s) \in Int /\ Abs(e.motor) \in Int
          /\ Left(e) \in Int /\ a.used \in Int
      <4>1. /\ s.motor \in Int /\ e.motor \in Int
            /\ Left(s) \in Int /\ Left(e) \in Int
        BY <1>1, <1>2, StepperFields
      <4>2. a.used \in Int
        BY DEF View
      <4> QED BY <4>1, <4>2 DEF Abs
    <3> QED BY <1>2, <1>6, <1>7, <2>1, <3>1
  <2> QED BY <1>2, <1>6, <2>1, <2>2, <2>3 DEF Faces
<1> QED BY <1>2, <1>6, <1>11, <1>12 DEF Follows

(* The move under way ends, and the next one is loaded if there is one. *)
LEMMA EndFaces ==
  ASSUME NEW s, Sound(s), NEW t, t.mq = s.mq, t.dir_pin = s.dir_pin,
         t.motor \in Int, t.motor = Moved(s.motor, s.dir_pin, Left(s)),
         Abs(t.motor) <= Abs(s.motor) + Left(s), NEW b, Faces(s, Left(s), b)
  PROVE  Faces(t, 0, b)
<1>1. PICK a \in View : /\ a.place = Moved(s.motor, s.dir_pin, Left(s))
                        /\ a.dir = s.dir_pin
                        /\ Abs(s.motor) + Left(s) <= a.used
                        /\ Runs(Loads(s.mq), a, b)
  BY DEF Faces
<1>2. a.place = Moved(t.motor, t.dir_pin, 0) /\ a.dir = t.dir_pin
  BY <1>1 DEF Moved
<1>3. Abs(t.motor) + 0 <= a.used
  <2>1. s.motor \in Int /\ Left(s) \in Int
    BY StepperFields DEF Sound
  <2>2. Abs(t.motor) \in Int /\ Abs(s.motor) \in Int /\ a.used \in Int
    BY <2>1 DEF Abs, View
  <2> QED BY <1>1, <2>1, <2>2
<1> QED BY <1>1, <1>2, <1>3 DEF Faces

LEMMA EndFollows ==
  ASSUME NEW s, StepperOK(s), s.count = 1, NEW t,
         t = ToggleStep(s) \/ t = Edge(s),
         NEW time \in Int, NEW r, r = [LoadNext(t) EXCEPT !.waketime = time]
  PROVE  /\ Follows(s, r)
         /\ Len(r.mq) + LoadFreed(s) = Len(s.mq)
<1>1. Sound(s) /\ s \in StepperType /\ s.mq \in Seq(QueuedMove) /\ ~s.need_reset
  BY StepperFields DEF StepperOK, Sound
<1>2. s.active
  BY DEF StepperOK
<1>3. /\ Ended(t) /\ t.mq = s.mq /\ t.active = s.active
      /\ t.waketime = s.waketime /\ t.single = s.single
      /\ t.next_step_time = s.next_step_time
      /\ t.last_dir = s.last_dir /\ t.next_dir = s.next_dir
      /\ t.need_reset = s.need_reset /\ t.dir_pin = s.dir_pin
      /\ t.motor = Moved(s.motor, s.dir_pin, Left(s))
      /\ Abs(t.motor) <= Abs(s.motor) + Left(s)
  BY <1>1, EdgeEnds
<1>4. /\ t \in StepperType /\ Word(t.position) = Word(Signed(t))
      /\ ~t.single => t.step_pin = 0
  BY <1>3 DEF Ended
<1>5. t.motor \in Int /\ t.position \in Int
  BY <1>4, StepperFields
<1>6. \A b : Faces(s, Left(s), b) => Faces(t, 0, b)
  BY <1>1, <1>3, <1>5, EndFaces
<1>7. CASE s.mq = <<>>
  <2>1. r = [t EXCEPT !.count = 0, !.active = FALSE, !.waketime = time]
    <3>1. LoadNext(t) = [t EXCEPT !.count = 0, !.active = FALSE]
      BY <1>3, <1>4, <1>7, LoadNextIs
    <3> QED BY <1>4, <3>1 DEF StepperType
  <2>2. r \in StepperType
    <3>1. time \in Int /\ 0 \in Nat
      OBVIOUS
    <3> QED BY <1>4, <2>1, <3>1 DEF StepperType
  <2>3. /\ r.count = 0 /\ r.active = FALSE /\ r.waketime = time /\ r.mq = t.mq
        /\ r.single = t.single /\ r.last_dir = t.last_dir /\ r.next_dir = t.next_dir
        /\ r.need_reset = t.need_reset /\ r.dir_pin = t.dir_pin
        /\ r.step_pin = t.step_pin /\ r.motor = t.motor /\ r.position = t.position
    BY <1>4, <2>1 DEF StepperType
  <2>4. Left(r) = 0 /\ Signed(r) = Signed(t)
    BY <2>3 DEF Left, Signed
  <2>5. PositionOK(r)
    <3>1. r.position - Left(r) = t.position
      BY <1>5, <2>3, <2>4
    <3> QED BY <1>4, <2>4, <3>1 DEF PositionOK
  <2>6. Sound(r)
    BY <1>3, <1>4, <1>7, <2>2, <2>3, <2>5 DEF Sound
  <2>7. StepperOK(r)
    BY <2>3, <2>6 DEF StepperOK
  <2>8. ASSUME NEW b, Faces(t, 0, b) PROVE Faces(r, Left(r), b)
    BY <2>3, <2>4, <2>8 DEF Faces
  <2>9. Len(r.mq) + LoadFreed(s) = Len(s.mq)
    BY <1>3, <1>7, <2>3 DEF LoadFreed
  <2> QED BY <1>3, <1>6, <2>3, <2>7, <2>8, <2>9 DEF Follows
<1>8. CASE s.mq # <<>>
  <2> DEFINE m == Head(t.mq)
             x == Loaded(t, m)
  <2>1. /\ m \in QueuedMove /\ Len(Tail(t.mq)) = Len(t.mq) - 1 /\ Len(t.mq) \in Nat
    BY <1>1, <1>3, <1>8, TailProps
  <2>2. LoadNext(t) = x
    BY <1>3, <1>4, <1>8, LoadNextIs
  <2> HIDE DEF m
  <2>3. Sound(x) /\ x.count > 0 /\ Left(x) = m.count
    BY <1>3, <1>8, <2>1, LoadedSound
  <2>4. /\ x.mq = Tail(t.mq) /\ x.last_dir = t.last_dir /\ x.next_dir = t.next_dir
        /\ x.need_reset = t.need_reset /\ x.active = t.active
    BY DEF Loaded
  <2>5. \A b : Faces(t, 0, b) => Faces(x, m.count, b)
    BY <1>3, <1>4, <1>8, LoadedFaces DEF m
  <2> HIDE DEF x
  <2>6. x \in StepperType
    BY <2>3 DEF Sound
  <2>7. r = [x EXCEPT !.waketime = time]
    BY <2>2
  <2>8. r \in StepperType
    <3>1. time \in Int
      OBVIOUS
    <3> QED BY <2>6, <2>7, <3>1 DEF StepperType
  <2>9. /\ r.count = x.count /\ r.active = x.active /\ r.waketime = time
        /\ r.mq = x.mq /\ r.interval = x.interval /\ r.add = x.add
        /\ r.single = x.single /\ r.last_dir = x.last_dir /\ r.next_dir = x.next_dir
        /\ r.need_reset = x.need_reset /\ r.dir_pin = x.dir_pin
        /\ r.step_pin = x.step_pin /\ r.motor = x.motor /\ r.position = x.position
    BY <2>6, <2>7 DEF StepperType
  <2>10. Left(r) = Left(x) /\ Signed(r) = Signed(x)
    BY <2>9 DEF Left, Signed
  <2>11. PositionOK(r)
    BY <2>3, <2>9, <2>10 DEF Sound, PositionOK
  <2>12. Sound(r)
    BY <2>3, <2>8, <2>9, <2>11 DEF Sound
  <2>13. StepperOK(r)
    <3>1. r.active /\ r.count > 0
      BY <1>2, <1>3, <2>3, <2>4, <2>9
    <3> QED BY <2>12, <3>1 DEF StepperOK
  <2>14. ASSUME NEW b, Faces(x, m.count, b) PROVE Faces(r, Left(r), b)
    BY <2>3, <2>9, <2>10, <2>14 DEF Faces
  <2>15. Len(r.mq) + LoadFreed(s) = Len(s.mq)
    <3>1. LoadFreed(s) = 1 /\ r.mq = Tail(t.mq) /\ t.mq = s.mq
      BY <1>3, <1>8, <2>4, <2>9 DEF LoadFreed
    <3>2. Len(Tail(t.mq)) + 1 = Len(t.mq)
      BY <2>1
    <3> QED BY <3>1, <3>2
  <2> QED BY <1>3, <1>6, <2>4, <2>5, <2>9, <2>13, <2>14, <2>15 DEF Follows
<1> QED BY <1>7, <1>8

(* The stepper o becomes r, and the nodes it lets go are free again. *)
Becomes(o, r) ==
  /\ stepper' = [stepper EXCEPT ![o] = r]
  /\ free' + Len(r.mq) = free + Len(stepper[o].mq)
  /\ fault' = fault

LEMMA AddsUp ==
  ASSUME NEW a \in Int, NEW b \in Int, NEW c \in Int, NEW d \in Int, a + b = d
  PROVE  (c + b) + a = c + d
  OBVIOUS

(* An event of the timer. *)
LEMMA EdgeEvent ==
  ASSUME NEW o, StepperOK(stepper[o]), stepper[o].active, free \in Int,
         StepperEventEdge(o)
  PROVE  \E r : Follows(stepper[o], r) /\ Becomes(o, r)
<1> DEFINE s == stepper[o]
           t == ToggleStep(s)
<1>1. /\ s \in StepperType /\ Sound(s) /\ s.count > 0
      /\ s.count \in Nat /\ s.mq \in Seq(QueuedMove)
      /\ s.interval \in Int /\ s.add \in Int /\ s.waketime \in Int
  BY StepperFields DEF StepperOK, Sound
<1>2. t \in StepperType /\ t.single = s.single /\ t.count = s.count
      /\ t.waketime = s.waketime /\ t.interval = s.interval /\ t.add = s.add
      /\ t.mq = s.mq
  <2>1. /\ t \in StepperType
        /\ t = [s EXCEPT !.step_pin = 1 - s.step_pin,
                         !.motor = IF s.single \/ s.step_pin = 0
                                   THEN Moved(s.motor, s.dir_pin, 1) ELSE s.motor]
    BY <1>1, ToggleIs
  <2> HIDE DEF t
  <2> QED BY <1>1, <2>1 DEF StepperType
<1>3. /\ t.single
      /\ t.count > 1 => 
           /\ stepper' = [stepper EXCEPT ![o] =
                [t EXCEPT !.count = @ - 1, !.waketime = @ + t.interval,
                          !.interval = @ + t.add]]
           /\ free' = free
      /\ ~(t.count > 1) => stepper' = [stepper EXCEPT ![o] = LoadNext(t)]
                           /\ free' = free + LoadFreed(t)
      /\ fault' = fault
  <2> HIDE DEF t
  <2> QED BY DEF StepperEventEdge, t
<1>4. CASE s.count > 1
  <2> DEFINE r == [t EXCEPT !.count = @ - 1, !.waketime = @ + t.interval,
                            !.interval = @ + t.add]
  <2>1. r = [Edge(s) EXCEPT !.waketime = s.waketime + s.interval,
                            !.interval = s.interval + s.add]
    <3>1. Edge(s) = [t EXCEPT !.count = @ - 1]
      BY DEF Edge
    <3> HIDE DEF t, s
    <3> QED BY <1>2, <3>1 DEF StepperType
  <2>2. stepper' = [stepper EXCEPT ![o] = r] /\ free' = free /\ fault' = fault
    BY <1>2, <1>3, <1>4
  <2> HIDE DEF r
  <2>3. GoesOnEdge(s, r)
    BY <1>2, <1>3, <2>1 DEF GoesOnEdge
  <2>4. Follows(s, r) /\ r.mq = s.mq
    BY <1>4, <2>3, EdgeFollows
  <2>5. Becomes(o, r)
    BY <2>2, <2>4 DEF Becomes
  <2> QED BY <2>4, <2>5
<1>5. CASE ~(s.count > 1)
  <2>1. s.count = 1
    BY <1>1, <1>5
  <2>2. stepper' = [stepper EXCEPT ![o] = LoadNext(t)]
        /\ free' = free + LoadFreed(t) /\ fault' = fault
    BY <1>2, <1>3, <1>5
  <2>3. Ended(t)
    BY <1>1, <2>1, EdgeEnds
  <2>4. LoadNext(t).waketime \in Int /\ LoadNext(t) \in StepperType
    <3>1. CASE s.mq = <<>>
      <4>1. LoadNext(t) = [t EXCEPT !.count = 0, !.active = FALSE]
        BY <1>2, <3>1, LoadNextIs
      <4> HIDE DEF t
      <4>2. PICK x : x = [t EXCEPT !.count = 0, !.active = FALSE]
        OBVIOUS
      <4>3. x \in StepperType /\ x.waketime = t.waketime
        BY <1>2, <4>2 DEF StepperType
      <4> QED BY <1>1, <1>2, <4>1, <4>2, <4>3
    <3>2. CASE s.mq # <<>>
      <4>1. Head(s.mq) \in QueuedMove
        BY <1>1, <3>2, TailProps
      <4>2. LoadNext(t) = Loaded(t, Head(t.mq))
        BY <1>2, <3>2, LoadNextIs
      <4>3. Sound(Loaded(t, Head(t.mq)))
        BY <1>2, <1>3, <2>3, <3>2, <4>1, LoadedSound
      <4>4. LoadNext(t) \in StepperType
        BY <4>2, <4>3 DEF Sound
      <4>5. LoadNext(t).waketime \in Int
        BY <4>4, StepperFields
      <4> QED BY <1>1, <1>2, <4>4, <4>5
    <3> QED BY <3>1, <3>2
  <2>5. PICK r : r = LoadNext(t)
    OBVIOUS
  <2>6. PICK time \in Int : time = r.waketime
    BY <2>4, <2>5
  <2>7. r = [LoadNext(t) EXCEPT !.waketime = time]
    BY <2>4, <2>5, <2>6 DEF StepperType
  <2>8. Follows(s, r) /\ Len(r.mq) + LoadFreed(s) = Len(s.mq)
    BY <2>1, <2>7, EndFollows
  <2>9. LoadFreed(t) = LoadFreed(s) /\ LoadFreed(s) \in Int
    BY <1>2 DEF LoadFreed
  <2>10. Len(r.mq) \in Int
    <3>1. r.mq \in Seq(QueuedMove)
      BY <2>4, <2>5, StepperFields
    <3> QED BY <3>1
  <2>11. free' + Len(r.mq) = free + Len(s.mq)
    <3>1. PICK a, b, c, d \in Int :
            a = Len(r.mq) /\ b = LoadFreed(s) /\ c = free /\ d = Len(s.mq)
      <4>1. Len(s.mq) \in Int
        BY <1>1
      <4> QED BY <2>9, <2>10, <4>1
    <3>2. a + b = d /\ free' = c + b
      BY <2>2, <2>8, <2>9, <3>1
    <3>3. (c + b) + a = c + d
      <4>1. a \in Int /\ b \in Int /\ c \in Int /\ d \in Int
        BY <3>1
      <4>2. a + b = d
        BY <3>2
      <4> QED BY ONLY <4>1, <4>2, AddsUp
    <3> QED BY <3>1, <3>2, <3>3
  <2>12. Becomes(o, r)
    BY <2>2, <2>5, <2>11 DEF Becomes
  <2> QED BY <2>8, <2>12
<1> QED BY <1>4, <1>5

Sets(o, r) == stepper' = [stepper EXCEPT ![o] = r]

LEMMA FullEvent ==
  ASSUME NEW o, StepperOK(stepper[o]), stepper[o].active, free \in Int,
         NEW curtime \in Nat, StepperEventFull(o, curtime)
  PROVE  \/ \E r : Follows(stepper[o], r) /\ Becomes(o, r)
         \/ StepperShutdown("Stepper too far in past")
<1> DEFINE s == stepper[o]
           e == Edge(s)
           min == curtime + Pulse
           next == e.next_step_time + e.interval
           l == LoadNext(e)
<1>1. /\ s \in StepperType /\ Sound(s) /\ s.count > 0
      /\ s.count \in Nat /\ s.mq \in Seq(QueuedMove)
      /\ s.interval \in Int /\ s.add \in Int /\ s.waketime \in Int
  BY StepperFields DEF StepperOK, Sound
<1>2. /\ e \in StepperType /\ e.single = s.single /\ e.count = s.count - 1
      /\ e.waketime = s.waketime /\ e.mq = s.mq /\ e.active = s.active
  BY <1>1, EdgeOK
<1>3. /\ e.interval \in Int /\ e.next_step_time \in Int /\ e.add \in Int
      /\ min \in Nat /\ next \in Int
  <2>1. e.interval \in Int /\ e.next_step_time \in Int /\ e.add \in Int
    BY <1>2, StepperFields
  <2> QED BY <2>1, StepperAssumption
<1>4. e = [ToggleStep(stepper[o]) EXCEPT !.count = @ - 1]
  BY DEF Edge
<1>5. /\ ~e.single
      /\ \/ /\ e.count % 2 = 1
            /\ Sets(o, [e EXCEPT !.waketime = min])
            /\ free' = free /\ fault' = fault
         \/ /\ e.count % 2 = 0 /\ e.count > 0
            /\ Sets(o, [e EXCEPT !.next_step_time = next, !.interval = @ + e.add,
                             !.waketime = IF next < min THEN min ELSE next])
            /\ free' = free /\ fault' = fault
         \/ /\ e.count = 0 /\ (~l.active \/ ~(l.waketime < min))
            /\ Sets(o, l)
            /\ free' = free + LoadFreed(e)
            /\ fault' = fault
         \/ /\ e.count = 0 /\ l.active /\ l.waketime < min
            /\ IF l.waketime - min < -MaxPast
               THEN StepperShutdown("Stepper too far in past")
               ELSE /\ Sets(o, [l EXCEPT !.waketime = min])
                    /\ free' = free + LoadFreed(e)
                    /\ fault' = fault
  <2> HIDE DEF e, l
  <2>1. StepperEventFull(o, curtime)
    OBVIOUS
  <2> QED BY <2>1 DEF StepperEventFull, Sets, Edge, e, l
<1> DEFINE Goal == \E r : Follows(s, r) /\ Becomes(o, r)
(* The move goes on *)
<1>6. ASSUME s.count > 1, NEW time \in Nat, NEW next_time \in Int,
             NEW interval \in Int,
             Sets(o, [e EXCEPT !.waketime = time, !.next_step_time = next_time,
                           !.interval = interval]),
             free' = free, fault' = fault
      PROVE  Goal
  <2> DEFINE r == [e EXCEPT !.waketime = time, !.next_step_time = next_time,
                            !.interval = interval]
  <2>1. GoesOnFull(s, r)
    BY <1>2, <1>5 DEF GoesOnFull
  <2>2. Follows(s, r) /\ r.mq = s.mq
    <3> HIDE DEF r
    <3> QED BY <1>6, <2>1, EdgeFollows
  <2>3. Sets(o, r)
    BY <1>6
  <2> HIDE DEF r
  <2>4. Becomes(o, r)
    BY <1>6, <2>2, <2>3 DEF Becomes, Sets
  <2> QED BY <2>2, <2>4
(* or ends. *)
<1>7. ASSUME s.count = 1, NEW time \in Int, Sets(o, [l EXCEPT !.waketime = time]),
             free' = free + LoadFreed(e), fault' = fault
      PROVE  Goal
  <2>1. PICK r : r = [l EXCEPT !.waketime = time]
    OBVIOUS
  <2>2. Follows(s, r) /\ Len(r.mq) + LoadFreed(s) = Len(s.mq)
    BY <1>7, <2>1, EndFollows
  <2>3. LoadFreed(e) = LoadFreed(s) /\ LoadFreed(s) \in Int
    BY <1>2 DEF LoadFreed
  <2>4. Len(r.mq) \in Int
    <3>1. r \in StepperType
      BY <2>2 DEF Follows, StepperOK, Sound
    <3>2. r.mq \in Seq(QueuedMove)
      BY <3>1, StepperFields
    <3> QED BY <3>2
  <2>5. free' + Len(r.mq) = free + Len(s.mq)
    BY <1>7, <2>2, <2>3, <2>4
  <2>6. Becomes(o, r)
    BY <1>7, <2>1, <2>5 DEF Becomes, Sets
  <2> QED BY <2>2, <2>6
<1>8. CASE e.count % 2 = 1 /\ Sets(o, [e EXCEPT !.waketime = min])
           /\ free' = free /\ fault' = fault
  <2>1. s.count > 1
    <3>1. e.count # 0
      BY <1>8
    <3> QED BY <1>1, <1>2, <3>1
  <2>2. [e EXCEPT !.waketime = min]
          = [e EXCEPT !.waketime = min, !.next_step_time = e.next_step_time,
                      !.interval = e.interval]
    <3> HIDE DEF e
    <3> QED BY <1>2 DEF StepperType
  <2> HIDE DEF e, min
  <2>3. Sets(o, [e EXCEPT !.waketime = min, !.next_step_time = e.next_step_time,
                      !.interval = e.interval])
    BY <1>8, <2>2
  <2> QED BY <1>3, <1>6, <1>8, <2>1, <2>3
<1>9. CASE /\ e.count > 0 
           /\ Sets(o, [e EXCEPT !.next_step_time = next, !.interval = @ + e.add,
                            !.waketime = IF next < min THEN min ELSE next])
           /\ free' = free /\ fault' = fault
  <2>1. s.count > 1
    BY <1>1, <1>2, <1>9
  <2>2. PICK time \in Nat : time = IF next < min THEN min ELSE next
    <3> HIDE DEF next, min
    <3>1. (IF next < min THEN min ELSE next) \in Nat
      BY <1>3
    <3> QED BY <3>1
  <2>3. PICK interval \in Int : interval = e.interval + e.add
    BY <1>3
  <2>4. [e EXCEPT !.next_step_time = next, !.interval = @ + e.add,
                  !.waketime = IF next < min THEN min ELSE next]
          = [e EXCEPT !.waketime = time, !.next_step_time = next,
                      !.interval = interval]
    <3> HIDE DEF e, next, min
    <3> QED BY <1>2, <2>2, <2>3 DEF StepperType
  <2> HIDE DEF e, min, next
  <2>5. Sets(o, [e EXCEPT !.waketime = time, !.next_step_time = next,
                      !.interval = interval])
    BY <1>9, <2>4
  <2> QED BY <1>3, <1>6, <1>9, <2>1, <2>5
<1>10. CASE /\ e.count = 0 /\ (~l.active \/ ~(l.waketime < min))
            /\ Sets(o, l) /\ free' = free + LoadFreed(e) /\ fault' = fault
  <2>1. s.count = 1
    BY <1>1, <1>2, <1>10
  <2>2. l \in StepperType /\ l.waketime \in Int
    <3>1. CASE s.mq = <<>>
      <4>1. l = [e EXCEPT !.count = 0, !.active = FALSE]
        BY <1>2, <3>1, LoadNextIs
      <4> HIDE DEF e, l
      <4>2. PICK x : x = [e EXCEPT !.count = 0, !.active = FALSE]
        OBVIOUS
      <4>3. x \in StepperType /\ x.waketime = e.waketime
        BY <1>2, <4>2 DEF StepperType
      <4> QED BY <1>1, <1>2, <4>1, <4>2, <4>3
    <3>2. CASE s.mq # <<>>
      <4>1. Head(s.mq) \in QueuedMove
        BY <1>1, <3>2, TailProps
      <4>2. l = Loaded(e, Head(e.mq))
        BY <1>2, <3>2, LoadNextIs
      <4>3. Ended(e)
        BY <1>1, <2>1, EdgeEnds
      <4>4. Sound(Loaded(e, Head(e.mq)))
        BY <1>2, <4>3, <3>2, <4>1, LoadedSound
      <4>5. l \in StepperType
        BY <4>2, <4>4 DEF Sound
      <4>6. l.waketime \in Int
        BY <4>5, StepperFields
      <4> QED BY <4>5, <4>6
    <3> QED BY <3>1, <3>2
  <2> HIDE DEF e, l, min
  <2>3. PICK time \in Int : time = l.waketime
    BY <2>2
  <2>4. l = [l EXCEPT !.waketime = time]
    BY <2>2, <2>3 DEF StepperType
  <2>5. Sets(o, [l EXCEPT !.waketime = time])
    BY <1>10, <2>4
  <2> QED BY <1>7, <1>10, <2>1, <2>5
<1>11. CASE /\ e.count = 0 /\ Sets(o, [l EXCEPT !.waketime = min])
            /\ free' = free + LoadFreed(e) /\ fault' = fault
  <2>1. s.count = 1
    BY <1>1, <1>2, <1>11
  <2>2. min \in Int
    BY <1>3
  <2> HIDE DEF e, l, min
  <2> QED BY <1>7, <1>11, <2>1, <2>2
<1> HIDE DEF e, l, min, next
<1> QED
  BY <1>5, <1>8, <1>9, <1>10, <1>11

(* The moves in the queue end where the next command is expected to begin. *)
LEMMA PredictsBound ==
  ASSUME NEW s, Sound(s), NEW v, Predicts(s, v)
  PROVE  /\ Abs(s.motor) + Left(s) <= v.used
         /\ s.count = 0 => s.motor = v.place /\ s.last_dir = s.dir_pin
<1>1. /\ s \in StepperType /\ s.motor \in Int /\ Left(s) \in Nat
      /\ s.mq \in Seq(QueuedMove) /\ s.dir_pin \in {0, 1}
  BY StepperFields DEF Sound
<1>2. PICK b \in View : /\ Faces(s, Left(s), b)
                        /\ b.place = v.place /\ b.dir = s.last_dir /\ b.used <= v.used
  BY DEF Predicts
<1>3. PICK a \in View : /\ a.place = Moved(s.motor, s.dir_pin, Left(s))
                        /\ a.dir = s.dir_pin
                        /\ Abs(s.motor) + Left(s) <= a.used
                        /\ Runs(Loads(s.mq), a, b)
  BY <1>2 DEF Faces
<1>4. Loads(s.mq) \in Seq(Command) /\ Len(Loads(s.mq)) = Len(s.mq)
  BY <1>1, LoadsType
<1>5. a.used <= b.used
  BY <1>3, <1>4, RunsProps
<1>6. Abs(s.motor) + Left(s) <= v.used
  <2>1. a.used \in Int /\ b.used \in Int /\ v.used \in Int
    BY DEF View, Predicts
  <2>2. Abs(s.motor) \in Int
    BY <1>1 DEF Abs
  <2> QED BY <1>1, <1>2, <1>3, <1>5, <2>1, <2>2
<1>7. ASSUME s.count = 0
      PROVE  s.motor = v.place /\ s.last_dir = s.dir_pin
  <2>1. Len(Loads(s.mq)) = 0
    BY <1>4, <1>7 DEF Sound
  <2>2. b = a
    BY <1>3, <2>1, RunsEmpty
  <2>3. Left(s) = 0
    BY <1>7 DEF Left
  <2> QED BY <1>1, <1>2, <1>3, <2>2, <2>3 DEF Moved
<1> QED BY <1>6, <1>7

LEMMA AfterEvent ==
  ASSUME NEW s, NEW r, Follows(s, r), NEW v, Predicts(s, v)
  PROVE  Predicts(r, v)
  BY DEF Follows, Predicts

(* queue_step puts a move at the end of the queue, *)
LEMMA PushedFaces ==
  ASSUME NEW s \in StepperType, NEW m \in QueuedMove, NEW n, NEW b \in View,
         Faces(s, n, b)
  PROVE  /\ Apply(b, LoadOf(m)) \in View
         /\ Faces([s EXCEPT !.last_dir = s.next_dir, !.mq = Append(@, m)], n,
                  Apply(b, LoadOf(m)))
<1>1. PICK a \in View : /\ a.place = Moved(s.motor, s.dir_pin, n)
                        /\ a.dir = s.dir_pin
                        /\ Abs(s.motor) + n <= a.used
                        /\ Runs(Loads(s.mq), a, b)
  BY DEF Faces
<1>2. PICK q : q = Append(s.mq, m)
  OBVIOUS
<1>3. s.mq \in Seq(QueuedMove)
  BY StepperFields
<1>4. /\ q \in Seq(QueuedMove) /\ Len(q) = Len(s.mq) + 1 /\ Len(s.mq) \in Nat
      /\ q[Len(s.mq) + 1] = m /\ \A i \in 1..Len(s.mq) : q[i] = s.mq[i]
  BY <1>2, <1>3, AppendProps
<1> DEFINE c == Loads(s.mq)
           e == Loads(q)
<1>5. /\ c \in Seq(Command) /\ Len(c) = Len(s.mq)
      /\ \A i \in 1..Len(s.mq) : c[i] = LoadOf(s.mq[i])
      /\ LoadOf(m) \in Command
  BY <1>3, LoadsType
<1>6. /\ e \in Seq(Command) /\ Len(e) = Len(q)
      /\ \A i \in 1..Len(q) : e[i] = LoadOf(q[i])
  BY <1>4, LoadsType
<1>7. Runs(c, a, b)
  BY <1>1
<1> HIDE DEF c, e
<1>8. Len(e) = Len(c) + 1 /\ \A i \in 1..Len(c) : e[i] = c[i]
  BY <1>4, <1>5, <1>6
<1>9. e[Len(e)] = LoadOf(m)
  BY <1>4, <1>6
<1>10. Runs(e, a, Apply(b, LoadOf(m)))
  BY <1>5, <1>6, <1>7, <1>8, <1>9, RunsAppend
<1>11. Apply(b, LoadOf(m)) \in View
  BY <1>5, ApplyType
<1> DEFINE r == [s EXCEPT !.last_dir = s.next_dir, !.mq = Append(@, m)]
<1>12. r.motor = s.motor /\ r.dir_pin = s.dir_pin /\ r.mq = q
  BY <1>2 DEF StepperType
<1> HIDE DEF r
<1>13. Faces(r, n, Apply(b, LoadOf(m)))
  BY <1>1, <1>10, <1>12 DEF Faces, e
<1> QED BY <1>11, <1>13 DEF r

LEMMA PushedIs ==
  ASSUME NEW s, Sound(s), ~s.need_reset, NEW v, Predicts(s, v),
         NEW m, m \in Move, Steady(m), NEW c \in Command,
         c.kind = "queue_step", c.count = m.count
  PROVE  LET p == Pushed(s, m)
         IN  /\ p \in StepperType /\ PositionOK(p) /\ p.mq # <<>>
             /\ p.mq = Append(s.mq, WithDir(s, m)) /\ WithDir(s, m) \in QueuedMove
             /\ p.count = s.count /\ p.need_reset = s.need_reset
             /\ p.single = s.single /\ p.step_pin = s.step_pin
             /\ p.interval = s.interval /\ p.add = s.add /\ p.motor = s.motor
             /\ p.active = s.active /\ p.waketime = s.waketime
             /\ p.last_dir = s.next_dir /\ p.next_dir = s.next_dir
             /\ p.next_step_time = s.next_step_time /\ p.position = s.position
             /\ p.dir_pin = s.dir_pin
             /\ Predicts(p, Apply(v, c))
<1> DEFINE p == Pushed(s, m)
           w == WithDir(s, m)
<1>1. /\ s \in StepperType /\ s.mq \in Seq(QueuedMove) /\ s.last_dir \in {0, 1}
      /\ s.next_dir \in {0, 1} /\ PositionOK(s) /\ Left(s) \in Nat
  BY StepperFields DEF Sound
<1>2. w \in QueuedMove /\ w.count = m.count /\ w.dir = (s.last_dir # s.next_dir)
  BY <1>1 DEF WithDir, QueuedMove, Move, Steady
<1> HIDE DEF w
<1>3. p = [s EXCEPT !.last_dir = s.next_dir, !.mq = Append(@, w)]
  BY DEF Pushed, w
<1>4. PICK q : q = Append(s.mq, w)
  OBVIOUS
<1>5. q \in Seq(QueuedMove) /\ q # <<>>
  <2>1. q \in Seq(QueuedMove) /\ Len(q) = Len(s.mq) + 1 /\ Len(s.mq) \in Nat
    BY <1>1, <1>2, <1>4, AppendProps
  <2> QED BY <2>1
<1>6. p = [s EXCEPT !.last_dir = s.next_dir, !.mq = q]
  BY <1>3, <1>4
<1> HIDE DEF p
<1>7. p \in StepperType
  BY <1>1, <1>5, <1>6 DEF StepperType
<1>8. /\ p.count = s.count /\ p.need_reset = s.need_reset
      /\ p.single = s.single /\ p.step_pin = s.step_pin
      /\ p.interval = s.interval /\ p.add = s.add /\ p.motor = s.motor
      /\ p.active = s.active /\ p.waketime = s.waketime
      /\ p.last_dir = s.next_dir /\ p.next_dir = s.next_dir
      /\ p.next_step_time = s.next_step_time /\ p.position = s.position
      /\ p.dir_pin = s.dir_pin /\ p.mq = q
  BY <1>1, <1>6 DEF StepperType
<1>9. Left(p) = Left(s) /\ Signed(p) = Signed(s)
  BY <1>8 DEF Left, Signed
<1>10. PositionOK(p)
  BY <1>1, <1>8, <1>9 DEF PositionOK
<1>11. PICK b \in View : /\ Faces(s, Left(s), b)
                         /\ b.place = v.place /\ b.dir = s.last_dir /\ b.used <= v.used
  BY DEF Predicts
<1> DEFINE b2 == Apply(b, LoadOf(w))
           v2 == Apply(v, c)
<1>12. b2 \in View /\ Faces(p, Left(p), b2)
  BY <1>1, <1>2, <1>3, <1>9, <1>11, PushedFaces
<1>13. v \in View /\ v.dir = s.next_dir /\ v.stopped = FALSE
  BY <1>1, StepperFields DEF Predicts
<1>14. v2 \in View
  BY <1>13, ApplyType
<1>15. /\ b2.dir = s.next_dir
       /\ b2.place = Moved(b.place, s.next_dir, m.count)
       /\ b2.used = b.used + m.count
  <2>1. Turned(b, LoadOf(w)) = s.next_dir
    <3>1. b.dir = s.last_dir
      BY <1>11
    <3>2. CASE s.last_dir # s.next_dir
      <4>1. LoadOf(w).turn = TRUE /\ LoadOf(w).kind = "load"
        BY <1>2, <3>2 DEF LoadOf
      <4>2. Turned(b, LoadOf(w)) = 1 - b.dir
        BY <4>1 DEF Turned
      <4> QED BY <1>1, <3>1, <3>2, <4>2
    <3>3. CASE ~(s.last_dir # s.next_dir)
      <4>1. LoadOf(w).turn = FALSE /\ LoadOf(w).kind = "load"
        BY <1>2, <3>3 DEF LoadOf
      <4>2. Turned(b, LoadOf(w)) = b.dir
        BY <4>1 DEF Turned
      <4> QED BY <3>1, <3>3, <4>2
    <3> QED BY <3>2, <3>3
  <2> QED BY <1>2, <2>1 DEF Apply, Moves, LoadOf
<1>16. /\ v2.dir = s.next_dir /\ v2.stopped = FALSE
       /\ v2.place = Moved(v.place, s.next_dir, m.count)
       /\ v2.used = v.used + m.count
  <2>1. Turned(v, c) = s.next_dir
    BY <1>13 DEF Turned
  <2> QED BY <1>13, <2>1 DEF Apply, Moves
<1>17. b2.used <= v2.used
  <2>1. b.used \in Int /\ v.used \in Int /\ m.count \in Int
    BY <1>13 DEF View, Move
  <2> QED BY <1>11, <1>15, <1>16, <2>1
<1> HIDE DEF b2, v2
<1>18. Predicts(p, v2)
  <2>1. v2.stopped = p.need_reset /\ v2.dir = p.next_dir
    BY <1>8, <1>16, <1>1, StepperFields
  <2>2. b2.place = v2.place /\ b2.dir = p.last_dir
    BY <1>8, <1>11, <1>15, <1>16
  <2> QED BY <1>12, <1>14, <1>17, <2>1, <2>2 DEF Predicts
<1> QED BY <1>2, <1>4, <1>5, <1>7, <1>8, <1>10, <1>18 DEF p, w, v2

Reasons == {"Move queue overflow", "Timer too close", "Stepper too far in past",
            "Rescheduled timer in the past",
            "Can't reset time when stepper active"}
Shuts ==
  \/ StepperShutdown("Move queue overflow")
  \/ StepperShutdown("Timer too close")
  \/ StepperShutdown("Stepper too far in past")
  \/ StepperShutdown("Rescheduled timer in the past")
  \/ StepperShutdown("Can't reset time when stepper active")

LEMMA ShutsIs ==
  ASSUME Shuts
  PROVE  /\ fault' \in Reasons /\ fault' # "none"
         /\ stepper' = [o \in DOMAIN stepper |-> Stopped([stepper[o] EXCEPT !.mq = <<>>])]
         /\ free' = MoveCount
<1>1. \/ fault' = "Move queue overflow" \/ fault' = "Timer too close"
      \/ fault' = "Stepper too far in past"
      \/ fault' = "Rescheduled timer in the past"
      \/ fault' = "Can't reset time when stepper active"
  BY Zenon DEF Shuts, StepperShutdown
<1>2. fault' \in Reasons /\ fault' # "none"
  BY <1>1 DEF Reasons
<1>3. stepper' = [o \in DOMAIN stepper |-> Stopped([stepper[o] EXCEPT !.mq = <<>>])]
      /\ free' = MoveCount
  BY Zenon DEF Shuts, StepperShutdown
<1> QED BY <1>2, <1>3

(* A command for a stepper. *)
Obeys(o, c, v) ==
  \/ Shuts
  \/ \E r : /\ StepperOK(r) /\ Becomes(o, r) /\ r.motor = stepper[o].motor
            /\ Predicts(r, Apply(v, c))

LEMMA QueueStepObeys ==
  ASSUME NEW o, StepperOK(stepper[o]), NEW v, Predicts(stepper[o], v),
         stepper = [p \in DOMAIN stepper |-> stepper[p]],
         free \in Int, NEW m, m \in Move, Steady(m), NEW c \in Command,
         c.kind = "queue_step", c.count = m.count, c.dir = 0, c.turn = FALSE,
         NEW curtime \in Nat, QueueStep(o, m, curtime)
  PROVE  Obeys(o, c, v)
<1> DEFINE s == stepper[o]
           p == Pushed(s, m)
           l == LoadNext(p)
           started == [l EXCEPT !.active = TRUE]
<1>1. /\ s \in StepperType /\ Sound(s) /\ s.count \in Nat
      /\ s.mq \in Seq(QueuedMove) /\ s.need_reset \in BOOLEAN
      /\ (s.active <=> s.count > 0)
  BY StepperFields DEF StepperOK, Sound
<1>2. CASE free = 0
  <2>1. StepperShutdown("Move queue overflow")
    BY <1>2 DEF QueueStep
  <2> QED BY <2>1 DEF Obeys, Shuts
<1>3. CASE /\ s.count > 0 /\ Sets(o, p) /\ free' = free - 1 /\ fault' = fault
  <2>1. ~s.need_reset
    BY <1>1, <1>3 DEF Sound
  <2>2. /\ p \in StepperType /\ PositionOK(p) 
        /\ p.mq = Append(s.mq, WithDir(s, m)) /\ WithDir(s, m) \in QueuedMove
        /\ p.count = s.count /\ p.need_reset = s.need_reset
        /\ p.single = s.single /\ p.step_pin = s.step_pin
        /\ p.interval = s.interval /\ p.add = s.add /\ p.motor = s.motor
        /\ p.active = s.active /\ p.waketime = s.waketime
        /\ Predicts(p, Apply(v, c))
    BY <1>1, <2>1, PushedIs
  <2> HIDE DEF p
  <2>3. Sound(p)
    BY <1>1, <1>3, <2>1, <2>2 DEF Sound
  <2>4. StepperOK(p)
    BY <1>1, <2>2, <2>3 DEF StepperOK
  <2>5. Len(p.mq) = Len(s.mq) + 1 /\ Len(s.mq) \in Int
    BY <1>1, <2>2, AppendProps
  <2>6. Becomes(o, p)
    BY <1>3, <2>5, SMTT(30) DEF Becomes, Sets
  <2> QED BY <2>2, <2>4, <2>6 DEF Obeys
<1>4. CASE /\ s.count = 0 /\ s.need_reset
           /\ UNCHANGED <<stepper, free, fault>>
  <2>1. v \in View /\ v.stopped = TRUE /\ v.dir \in {0, 1}
    BY <1>4 DEF Predicts, View
  <2>2. Apply(v, c) \in View
    BY <2>1, ApplyType
  <2>3. /\ Apply(v, c).place = v.place /\ Apply(v, c).dir = v.dir
        /\ Apply(v, c).stopped = v.stopped /\ Apply(v, c).used = v.used
    BY <2>1 DEF Apply, Moves, Turned
  <2>4. Predicts(s, Apply(v, c))
    <3>1. PICK b \in View : /\ Faces(s, Left(s), b)
                            /\ b.place = v.place /\ b.dir = s.last_dir /\ b.used <= v.used
      BY DEF Predicts
    <3>2. v.dir = s.next_dir /\ v.stopped = s.need_reset
      BY DEF Predicts
    <3> QED BY <2>2, <2>3, <3>1, <3>2 DEF Predicts
  <2>5. stepper' = [stepper EXCEPT ![o] = s]
    BY <1>4, Zenon
  <2>6. Becomes(o, s)
    BY <1>4, <2>5 DEF Becomes
  <2> QED BY <2>4, <2>6 DEF Obeys
<1>5. CASE /\ s.count = 0 /\ ~s.need_reset
           /\ Sets(o, started) \/ Sets(o, [started EXCEPT !.waketime = curtime])
           /\ free' = free /\ fault' = fault
  <2>1. /\ p \in StepperType /\ PositionOK(p) /\ p.mq # <<>>
        /\ p.mq = Append(s.mq, WithDir(s, m)) /\ WithDir(s, m) \in QueuedMove
        /\ p.count = s.count /\ p.need_reset = s.need_reset
        /\ p.single = s.single /\ p.step_pin = s.step_pin
        /\ p.motor = s.motor /\ p.position = s.position /\ p.dir_pin = s.dir_pin
        /\ p.last_dir = s.next_dir /\ p.next_dir = s.next_dir
        /\ Predicts(p, Apply(v, c))
    BY <1>1, <1>5, PushedIs
  <2> HIDE DEF p
  <2>2. Left(p) = 0 /\ p.position \in Int
    BY <1>5, <2>1, StepperFields DEF Left
  <2>3. Ended(p)
    <3>1. p.position - Left(p) = p.position
      BY <2>2
    <3>2. ~p.single => p.step_pin = 0
      BY <1>1, <1>5, <2>1 DEF Sound
    <3> QED BY <1>5, <2>1, <3>1, <3>2 DEF Ended, PositionOK
  <2> DEFINE w == Head(p.mq)
  <2>4. s.mq = <<>>
    BY <1>1, <1>5 DEF Sound
  <2>5. w \in QueuedMove /\ Len(Tail(p.mq)) = 0 /\ Tail(p.mq) = <<>>
    <3>1. Len(p.mq) = Len(s.mq) + 1 /\ Len(s.mq) = 0
      BY <1>1, <2>1, <2>4, AppendProps
    <3>2. p.mq \in Seq(QueuedMove)
      BY <2>1, StepperFields
    <3>3. w \in QueuedMove /\ Len(Tail(p.mq)) = Len(p.mq) - 1
          /\ Tail(p.mq) \in Seq(QueuedMove)
      BY <2>1, <3>2, TailProps
    <3>4. Len(Tail(p.mq)) = 0
      BY <3>1, <3>3
    <3>5. Tail(p.mq) = <<>>
      <4>1. PICK t \in Seq(QueuedMove) : t = Tail(p.mq)
        BY <3>3
      <4>2. t = <<>>
        BY <3>4, <4>1
      <4> QED BY <4>1, <4>2
    <3> QED BY <3>3, <3>4, <3>5
  <2>6. l = Loaded(p, w)
    BY <2>1, LoadNextIs
  <2> HIDE DEF w, l
  <2>7. Sound(l) /\ l.count > 0 /\ Left(l) = w.count
    BY <2>1, <2>3, <2>5, <2>6, LoadedSound
  <2>8. /\ l.motor = p.motor /\ l.mq = <<>> /\ l.last_dir = p.last_dir
        /\ l.next_dir = p.next_dir /\ l.need_reset = p.need_reset
    BY <2>5, <2>6 DEF Loaded
  <2>9. l \in StepperType
    BY <2>7 DEF Sound
  <2>10. PICK time, r : /\ time \in Int
                        /\ r = [l EXCEPT !.active = TRUE, !.waketime = time]
                        /\ Sets(o, r)
    <3>1. l = [l EXCEPT !.waketime = l.waketime] /\ l.waketime \in Int
      BY <2>9 DEF StepperType
    <3>2. CASE Sets(o, started)
      <4>1. started = [l EXCEPT !.active = TRUE, !.waketime = l.waketime]
        BY <2>9, Zenon DEF StepperType
      <4> QED BY <3>1, <3>2, <4>1
    <3>3. CASE Sets(o, [started EXCEPT !.waketime = curtime])
      <4>1. [started EXCEPT !.waketime = curtime]
              = [l EXCEPT !.active = TRUE, !.waketime = curtime]
        BY <2>9, Zenon DEF StepperType
      <4>2. curtime \in Int
        OBVIOUS
      <4> QED BY <3>3, <4>1, <4>2
    <3> QED BY <1>5, <3>2, <3>3
  <2>11. /\ r \in StepperType /\ r.active = TRUE /\ r.count = l.count
         /\ r.mq = l.mq /\ r.motor = l.motor
         /\ r.single = l.single /\ r.last_dir = l.last_dir /\ r.next_dir = l.next_dir
         /\ r.need_reset = l.need_reset /\ r.dir_pin = l.dir_pin
         /\ r.step_pin = l.step_pin /\ r.position = l.position
         /\ r.interval = l.interval /\ r.add = l.add
    <3> HIDE DEF l
    <3>1. time \in Int
      BY <2>10
    <3>2. r = [l EXCEPT !.active = TRUE, !.waketime = time]
      BY <2>10
    <3>3. TRUE \in BOOLEAN
      OBVIOUS
    <3> QED BY <2>9, <3>1, <3>2, <3>3, ZenonT(30) DEF StepperType
  <2>12. Left(r) = Left(l) /\ Signed(r) = Signed(l)
    BY <2>11 DEF Left, Signed
  <2>13. PositionOK(r)
    BY <2>7, <2>11, <2>12 DEF Sound, PositionOK
  <2>14. Sound(r)
    BY <2>7, <2>11, <2>13 DEF Sound
  <2>15. StepperOK(r)
    BY <2>7, <2>11, <2>14 DEF StepperOK
  <2>16. Predicts(r, Apply(v, c))
    <3> DEFINE u == Apply(v, c)
    <3>1. PICK b \in View : /\ Faces(p, 0, b) /\ b.place = u.place
                            /\ b.dir = p.last_dir /\ b.used <= u.used
      BY <2>1, <2>2 DEF Predicts
    <3>2. u \in View /\ u.dir = p.next_dir /\ u.stopped = p.need_reset
      BY <2>1 DEF Predicts
    <3> HIDE DEF u
    <3>3. Faces(l, w.count, b)
      BY <2>1, <2>6, <3>1, LoadedFaces DEF w
    <3>4. Faces(r, Left(r), b)
      BY <2>7, <2>11, <2>12, <3>3 DEF Faces
    <3>5. Predicts(r, u)
      BY <2>8, <2>11, <3>1, <3>2, <3>4 DEF Predicts
    <3> QED BY <3>5 DEF u
  <2>17. Becomes(o, r)
    <3>1. Len(r.mq) = 0 /\ Len(s.mq) = 0
      BY <2>4, <2>8, <2>11
    <3>2. stepper' = [stepper EXCEPT ![o] = r]
      BY <1>5, <2>10 DEF Sets
    <3> QED BY <1>5, <3>1, <3>2 DEF Becomes
  <2> QED BY <2>1, <2>8, <2>11, <2>15, <2>16, <2>17 DEF Obeys
<1>6. CASE StepperShutdown("Timer too close")
  BY <1>6 DEF Obeys, Shuts
<1>7. CASE s.count = 0 /\ ~s.need_reset /\ AddTimer(o, started, curtime)
  <2> HIDE DEF started, s
  <2>1. \/ /\ Sets(o, started) \/ Sets(o, [started EXCEPT !.waketime = curtime])
           /\ free' = free /\ fault' = fault
        \/ StepperShutdown("Timer too close")
    BY <1>7 DEF AddTimer, Sets
  <2> QED BY <1>5, <1>6, <1>7, <2>1
<1> HIDE DEF p, l
<1> QED BY <1>1, <1>2, <1>3, <1>4, <1>7 DEF QueueStep, Sets, p, l, stepperVars

LEMMA SetNextStepDirObeys ==
  ASSUME NEW o, StepperOK(stepper[o]), NEW v, Predicts(stepper[o], v),
         free \in Int, NEW d \in {0, 1}, NEW c \in Command,
         c.kind = "set_next_step_dir", c.dir = d, SetNextStepDir(o, d)
  PROVE  Obeys(o, c, v)
<1> DEFINE s == stepper[o]
<1>1. /\ s \in StepperType /\ Sound(s)
      /\ (s.active <=> s.count > 0) /\ s.mq \in Seq(QueuedMove)
  BY StepperFields DEF StepperOK, Sound
<1>2. PICK r : r = [s EXCEPT !.next_dir = d]
  OBVIOUS
<1>3. /\ r \in StepperType /\ r.next_dir = d
      /\ r.active = s.active /\ r.count = s.count /\ r.mq = s.mq
      /\ r.motor = s.motor /\ r.waketime = s.waketime
      /\ r.single = s.single /\ r.last_dir = s.last_dir
      /\ r.need_reset = s.need_reset /\ r.dir_pin = s.dir_pin
      /\ r.step_pin = s.step_pin /\ r.position = s.position
      /\ r.interval = s.interval /\ r.add = s.add
  BY <1>1, <1>2 DEF StepperType
<1>4. stepper' = [stepper EXCEPT ![o] = r] /\ free' = free /\ fault' = fault
  BY <1>2 DEF SetNextStepDir
<1>5. Left(r) = Left(s) /\ Signed(r) = Signed(s)
  BY <1>3 DEF Left, Signed
<1>6. PositionOK(r)
  BY <1>1, <1>3, <1>5 DEF Sound, PositionOK
<1>7. Sound(r)
  BY <1>1, <1>3, <1>6 DEF Sound
<1>8. StepperOK(r)
  BY <1>1, <1>3, <1>7 DEF StepperOK
<1>9. Becomes(o, r)
  BY <1>1, <1>3, <1>4 DEF Becomes
<1>10. Predicts(r, Apply(v, c))
  <2> DEFINE u == Apply(v, c)
  <2>1. v \in View /\ v.stopped = s.need_reset
    BY DEF Predicts
  <2>2. /\ u \in View /\ u.dir = d /\ u.place = v.place /\ u.used = v.used
        /\ u.stopped = v.stopped
    <3>1. u \in View
      BY <2>1, ApplyType
    <3>2. v.stopped \in BOOLEAN
      BY <2>1 DEF View
    <3> QED BY <3>1, <3>2 DEF Apply, Moves, Turned
  <2>3. PICK b \in View : /\ Faces(s, Left(s), b)
                          /\ b.place = v.place /\ b.dir = s.last_dir /\ b.used <= v.used
    BY DEF Predicts
  <2>4. Faces(r, Left(r), b)
    BY <1>3, <1>5, <2>3 DEF Faces
  <2> HIDE DEF u
  <2>5. Predicts(r, u)
    BY <1>3, <2>1, <2>2, <2>3, <2>4 DEF Predicts
  <2> QED BY <2>5 DEF u
<1> QED BY <1>3, <1>8, <1>9, <1>10 DEF Obeys

LEMMA ResetStepClockObeys ==
  ASSUME NEW o, StepperOK(stepper[o]), NEW v, Predicts(stepper[o], v),
         free \in Int, NEW c \in Command,
         c.kind = "reset_step_clock", ResetStepClock(o, 0)
  PROVE  Obeys(o, c, v)
<1> DEFINE s == stepper[o]
<1>1. /\ s \in StepperType /\ Sound(s)
      /\ (s.active <=> s.count > 0) /\ s.mq \in Seq(QueuedMove)
      /\ s.count \in Nat
  BY StepperFields DEF StepperOK, Sound
<1>2. CASE s.count > 0
  <2>1. StepperShutdown("Can't reset time when stepper active")
    BY <1>2 DEF ResetStepClock
  <2> QED BY <2>1 DEF Obeys, Shuts
<1>3. CASE ~(s.count > 0)
  <2>1. PICK r : r = [s EXCEPT !.next_step_time = 0, !.waketime = 0,
                               !.need_reset = FALSE]
    OBVIOUS
  <2>2. /\ r \in StepperType /\ r.next_dir = s.next_dir
        /\ r.active = s.active /\ r.count = s.count /\ r.mq = s.mq
        /\ r.motor = s.motor /\ r.waketime = 0
        /\ r.single = s.single /\ r.last_dir = s.last_dir
        /\ r.need_reset = FALSE /\ r.dir_pin = s.dir_pin
        /\ r.step_pin = s.step_pin /\ r.position = s.position
        /\ r.interval = s.interval /\ r.add = s.add
    <3>1. 0 \in Int /\ FALSE \in BOOLEAN
      OBVIOUS
    <3> HIDE DEF s
    <3>2. r \in StepperType
      BY <1>1, <2>1, <3>1 DEF StepperType
    <3> QED BY <1>1, <2>1, <3>2 DEF StepperType
  <2>3. free' = free /\ fault' = fault
        /\ stepper' = [stepper EXCEPT ![o].next_step_time = 0, ![o].waketime = 0,
                                      ![o].need_reset = FALSE]
    BY <1>3 DEF ResetStepClock
  <2>4. stepper' = [stepper EXCEPT ![o] = r]
    BY <2>1, <2>3
  <2>5. Left(r) = Left(s) /\ Signed(r) = Signed(s)
    BY <2>2 DEF Left, Signed
  <2>6. PositionOK(r)
    BY <1>1, <2>2, <2>5 DEF Sound, PositionOK
  <2>7. Sound(r)
    BY <1>1, <1>3, <2>2, <2>6 DEF Sound
  <2>8. StepperOK(r)
    BY <1>1, <2>2, <2>7 DEF StepperOK
  <2>9. Becomes(o, r)
    BY <1>1, <2>2, <2>3, <2>4 DEF Becomes
  <2>10. Predicts(r, Apply(v, c))
    <3> DEFINE u == Apply(v, c)
    <3>1. v \in View /\ v.dir = s.next_dir /\ v.stopped \in BOOLEAN
      BY DEF Predicts, View
    <3>2. /\ u \in View /\ u.dir = v.dir /\ u.place = v.place /\ u.used = v.used
          /\ u.stopped = FALSE
      <4>1. u \in View
        BY <3>1, ApplyType
      <4> QED BY <3>1, <4>1 DEF Apply, Moves, Turned
    <3>3. PICK b \in View : /\ Faces(s, Left(s), b)
                            /\ b.place = v.place /\ b.dir = s.last_dir /\ b.used <= v.used
      BY DEF Predicts
    <3>4. Faces(r, Left(r), b)
      BY <2>2, <2>5, <3>3 DEF Faces
    <3> HIDE DEF u
    <3>5. Predicts(r, u)
      BY <2>2, <3>1, <3>2, <3>3, <3>4 DEF Predicts
    <3> QED BY <3>5 DEF u
  <2> QED BY <2>2, <2>8, <2>9, <2>10 DEF Obeys
<1> QED BY <1>2, <1>3

(* stepper_stop forgets the moves; the motor is where the position says. *)
LEMMA StoppedPredicts ==
  ASSUME NEW s, Sound(s), InRange(s), NEW v, Predicts(s, v)
  PROVE  Predicts(Stopped(s),
                  [place |-> s.motor, dir |-> 0, stopped |-> TRUE,
                   used |-> v.used, resets |-> 0])
<1> DEFINE r == Stopped(s)
           u == [place |-> s.motor, dir |-> 0, stopped |-> TRUE,
                 used |-> v.used, resets |-> 0]
<1>1. /\ r.motor = s.motor /\ r.count = 0 /\ r.mq = <<>> /\ r.need_reset
      /\ r.last_dir = 0 /\ r.next_dir = 0 /\ r.dir_pin = 0 /\ StepperOK(r)
  BY StoppedOK
<1> HIDE DEF r
<1>2. s.motor \in Int /\ Left(s) \in Nat /\ r.need_reset = TRUE /\ v \in View
      /\ v.used \in Nat
  BY <1>1, StepperFields DEF Sound, StepperOK, Predicts, View
<1>3. u \in View
  BY <1>2 DEF View
<1>4. Abs(s.motor) <= u.used
  <2>1. Abs(s.motor) + Left(s) <= v.used
    BY PredictsBound
  <2>2. Abs(s.motor) \in Int
    BY <1>2 DEF Abs
  <2> QED BY <1>2, <2>1, <2>2
<1>5. Left(r) = 0
  BY <1>1 DEF Left
<1>6. Runs(Loads(r.mq), u, u)
  <2>1. r.mq \in Seq(QueuedMove) /\ Len(r.mq) = 0
    BY <1>1
  <2>2. Len(Loads(r.mq)) = 0
    BY <2>1, LoadsType
  <2> HIDE DEF u
  <2> QED BY <1>3, <2>2, RunsNothing
<1>7. Faces(r, Left(r), u)
  <2>1. Abs(r.motor) + Left(r) <= u.used
    <3>1. Abs(s.motor) \in Int
      BY <1>2 DEF Abs
    <3> HIDE DEF u
    <3> QED BY <1>1, <1>4, <1>5, <3>1
  <2>2. u.place = Moved(r.motor, r.dir_pin, Left(r)) /\ u.dir = r.dir_pin
    BY <1>1, <1>2, <1>5 DEF Moved
  <2> HIDE DEF u
  <2> QED BY <1>3, <1>6, <2>1, <2>2 DEF Faces
<1>8. u.dir = r.next_dir /\ u.stopped = r.need_reset /\ u.dir = r.last_dir
      /\ u.used <= u.used
  BY <1>1, <1>2
<1> HIDE DEF u
<1>9. Predicts(r, u)
  BY <1>3, <1>7, <1>8 DEF Predicts
<1> QED BY <1>9 DEF r, u

-----------------------------------------------------------------------------
(* stepcompress.c *)

(* The steps of a move: the time between two of them grows by add. *)
LEMMA Half ==
  ASSUME NEW n \in Nat
  PROVE  \E t \in Int : 2 * t = n * (n - 1) /\ (n * (n - 1)) \div 2 = t
<1>1. PICK j \in Nat : n = 2 * j \/ n = 2 * j + 1
  <2>1. n = 2 * (n \div 2) \/ n = 2 * (n \div 2) + 1
    OBVIOUS
  <2>2. n \div 2 \in Nat
    OBVIOUS
  <2> QED BY <2>1, <2>2
<1>2. CASE n = 2 * j
  <2> DEFINE t == j * (n - 1)
  <2>1. t \in Int /\ 2 * t = n * (n - 1)
    BY <1>2
  <2> HIDE DEF t
  <2>2. (n * (n - 1)) \div 2 = t
    BY <2>1
  <2> QED BY <2>1, <2>2
<1>3. CASE n = 2 * j + 1
  <2> DEFINE t == n * j
  <2>1. t \in Int /\ 2 * t = n * (n - 1)
    BY <1>3
  <2> HIDE DEF t
  <2>2. (n * (n - 1)) \div 2 = t
    BY <2>1
  <2> QED BY <2>1, <2>2
<1> QED BY <1>1, <1>2, <1>3

LEMMA StepOffsets ==
  ASSUME NEW m, m.interval \in Int, m.add \in Int, NEW n \in Nat
  PROVE  /\ StepOffset(m, n) \in Int
         /\ StepOffset(m, n + 1) = StepOffset(m, n) + m.interval + n * m.add
         /\ StepOffset(m, 1) = m.interval
<1>1. PICK t \in Int : 2 * t = n * (n - 1) /\ (n * (n - 1)) \div 2 = t
  BY Half
<1>2. PICK r \in Int : 2 * r = (n + 1) * ((n + 1) - 1)
                       /\ ((n + 1) * ((n + 1) - 1)) \div 2 = r
  <2>1. n + 1 \in Nat
    OBVIOUS
  <2> QED BY <2>1, Half
<1>3. PICK i \in Int, a \in Int : i = m.interval /\ a = m.add
  OBVIOUS
<1>4. r = t + n
  <2>1. (n + 1) * ((n + 1) - 1) = n * (n - 1) + 2 * n
    OBVIOUS
  <2>2. 2 * r = 2 * t + 2 * n
    BY <1>1, <1>2, <2>1
  <2> QED BY <2>2
<1>5. StepOffset(m, n) = n * i + a * t /\ StepOffset(m, n + 1) = (n + 1) * i + a * r
  BY <1>1, <1>2, <1>3 DEF StepOffset
<1>6. StepOffset(m, n) \in Int
  <2>1. n * i \in Int /\ a * t \in Int
    OBVIOUS
  <2> QED BY <1>5, <2>1
<1>7. StepOffset(m, n + 1) = StepOffset(m, n) + m.interval + n * m.add
  <2>1. (n + 1) * i = n * i + i /\ n * i \in Int
    OBVIOUS
  <2>2. a * (t + n) = a * t + n * a /\ a * t \in Int /\ n * a \in Int
    OBVIOUS
  <2>3. PICK p \in Int, q \in Int, z \in Int : p = n * i /\ q = a * t /\ z = n * a
    BY <2>1, <2>2
  <2>4. StepOffset(m, n + 1) = (p + i) + (q + z) /\ StepOffset(m, n) = p + q
    BY <1>4, <1>5, <2>1, <2>2, <2>3
  <2>5. StepOffset(m, n + 1) = StepOffset(m, n) + i + z
    BY <2>4
  <2> QED BY <1>3, <2>3, <2>5
<1>8. StepOffset(m, 1) = m.interval
  <2>1. (1 * (1 - 1)) \div 2 = 0
    OBVIOUS
  <2>2. StepOffset(m, 1) = 1 * i + a * 0
    BY <1>3, <2>1 DEF StepOffset
  <2> QED BY <1>3, <2>2
<1> QED BY <1>6, <1>7, <1>8

(* The host's record of a motor. *)
Msg ==
  {m \in [kind : {"queue_step", "set_next_step_dir", "reset_step_clock"},
          arg : Move \cup {0, 1}, min_clock : Nat, req_clock : Nat] : GoodMessage(m)}
HistoryEntry ==
  [first_clock : Int, last_clock : Int, start_position : Int, interval : Int,
   add : Int, step_count : Int]
HostRecord ==
  [queue : Seq(Nat), next_step_clock : Nat, next_step_dir : {0, 1},
   sdir : {-1, 0, 1}, last_step_clock : Nat, last_position : Int,
   invert_sdir : {0, 1}, msg_queue : Seq(Msg), history : Seq(HistoryEntry)]

(* The steps it holds are in order and not after clock g. *)
Ordered(x, g) ==
  /\ x.last_step_clock <= g
  /\ \A i \in 1..Len(x.queue) : x.last_step_clock <= x.queue[i] /\ x.queue[i] <= g
  /\ \A i, j \in 1..Len(x.queue) : i <= j => x.queue[i] <= x.queue[j]
  /\ x.next_step_clock # 0 =>
       /\ x.last_step_clock <= x.next_step_clock /\ x.next_step_clock <= g
       /\ \A i \in 1..Len(x.queue) : x.queue[i] <= x.next_step_clock
HostOK(x, g) ==
  /\ x \in HostRecord
  /\ Ordered(x, g)
  /\ Len(x.queue) > 0 => x.sdir \in {0, 1}

(* How many steps it holds, and the position they lead to. *)
Waits(x) == Len(x.queue) + IF x.next_step_clock = 0 THEN 0 ELSE 1
Times(dir, n) == IF dir = 1 THEN n ELSE -n
Balance(x) ==
  x.last_position + Times(x.sdir, Len(x.queue))
    + IF x.next_step_clock = 0 THEN 0 ELSE Times(x.next_step_dir, 1)

(* The commands of msg_queue take a motor from view u to w, with k resets; the
   host knows its position (if b) and its direction (if d). *)
HostDir(x) == IF x.invert_sdir = 1 THEN 1 - x.sdir ELSE x.sdir
HostPlace(x, w) == IF x.invert_sdir = 1 THEN -w.place ELSE w.place
Goes(x, u, w, b, k) ==
  /\ w \in View /\ Runs(Commands(x.msg_queue), u, w) /\ w.resets = k
  /\ b => x.last_position = HostPlace(x, w)
  /\ (b \/ k = 1) => /\ ~w.stopped
                     /\ x.sdir \in {0, 1} => w.dir = HostDir(x)

(* The host and what it has not sent, with t steps at most. *)
Host(x, u, t, g, b, k) ==
  /\ HostOK(x, g)
  /\ \E w : Goes(x, u, w, b, k) /\ w.used + Waits(x) <= t

LEMMA HostFields ==
  ASSUME NEW x \in HostRecord
  PROVE  /\ x.queue \in Seq(Nat) /\ x.next_step_clock \in Nat
         /\ x.next_step_dir \in {0, 1} /\ x.sdir \in {-1, 0, 1}
         /\ x.last_step_clock \in Nat /\ x.last_position \in Int
         /\ x.invert_sdir \in {0, 1} /\ x.msg_queue \in Seq(Msg)
         /\ x.history \in Seq(HistoryEntry) /\ Len(x.queue) \in Nat
         /\ Waits(x) \in Nat
  BY DEF HostRecord, Waits

LEMMA CommandsType ==
  ASSUME NEW q \in Seq(Msg)
  PROVE  /\ Commands(q) \in Seq(Command) /\ Len(Commands(q)) = Len(q) /\ Len(q) \in Nat
         /\ \A i \in 1..Len(q) : Commands(q)[i] = CommandOf(q[i])
         /\ \A i \in 1..Len(q) : Commands(q)[i].kind # "load"
         /\ \A m \in Msg : CommandOf(m) \in Command
<1>1. \A m \in Msg : CommandOf(m) \in Command /\ CommandOf(m).kind # "load"
  <2> SUFFICES ASSUME NEW m \in Msg
               PROVE  CommandOf(m) \in Command /\ CommandOf(m).kind # "load"
    OBVIOUS
  <2>1. GoodMessage(m)
    BY DEF Msg
  <2>2. m.kind = "queue_step" => m.arg.count \in Nat /\ m.arg.count > 0
    BY <2>1 DEF GoodMessage, Move
  <2>3. CommandOf(m).kind = m.kind /\ CommandOf(m).turn = FALSE
    BY DEF CommandOf
  <2>4. CommandOf(m).dir \in {0, 1}
    BY <2>1 DEF CommandOf, GoodMessage
  <2>5. CommandOf(m).count \in Nat /\ (m.kind = "queue_step" => CommandOf(m).count > 0)
    BY <2>2 DEF CommandOf
  <2> QED BY <2>1, <2>3, <2>4, <2>5 DEF Command, CommandOf, GoodMessage
<1>2. Len(q) \in Nat /\ \A i \in 1..Len(q) : q[i] \in Msg
  OBVIOUS
<1>3. Commands(q) \in [1..Len(q) -> Command]
  BY <1>1, <1>2 DEF Commands
<1>4. Commands(q) \in Seq(Command) /\ Len(Commands(q)) = Len(q)
  <2>1. PICK f, n : f = Commands(q) /\ n = Len(q)
    OBVIOUS
  <2>2. n \in Nat /\ f \in [1..n -> Command]
    BY <1>2, <1>3, <2>1
  <2>3. f \in Seq(Command) /\ Len(f) = n
    BY <2>2
  <2> QED BY <2>1, <2>3
<1>5. \A i \in 1..Len(q) : Commands(q)[i] = CommandOf(q[i])
  BY DEF Commands
<1>6. \A i \in 1..Len(q) : Commands(q)[i].kind # "load"
  BY <1>1, <1>2, <1>5
<1> QED BY <1>1, <1>2, <1>4, <1>5, <1>6
(* One more message. *)
LEMMA SentRuns ==
  ASSUME NEW x \in HostRecord, NEW u \in View, NEW w,
         Runs(Commands(x.msg_queue), u, w), NEW m \in Msg
  PROVE  /\ Append(x.msg_queue, m) \in Seq(Msg)
         /\ CommandOf(m) \in Command
         /\ Apply(w, CommandOf(m)) \in View
         /\ Runs(Commands(Append(x.msg_queue, m)), u, Apply(w, CommandOf(m)))
<1>1. x.msg_queue \in Seq(Msg)
  BY HostFields
<1>2. PICK q : q = Append(x.msg_queue, m)
  OBVIOUS
<1>3. /\ q \in Seq(Msg) /\ Len(q) = Len(x.msg_queue) + 1 /\ Len(x.msg_queue) \in Nat
      /\ q[Len(x.msg_queue) + 1] = m
      /\ \A i \in 1..Len(x.msg_queue) : q[i] = x.msg_queue[i]
  BY <1>1, <1>2, AppendProps
<1> DEFINE c == Commands(x.msg_queue)
           e == Commands(q)
<1>4. /\ c \in Seq(Command) /\ Len(c) = Len(x.msg_queue)
      /\ \A i \in 1..Len(x.msg_queue) : c[i] = CommandOf(x.msg_queue[i])
      /\ CommandOf(m) \in Command
  BY <1>1, CommandsType
<1>5. /\ e \in Seq(Command) /\ Len(e) = Len(q)
      /\ \A i \in 1..Len(q) : e[i] = CommandOf(q[i])
  BY <1>3, CommandsType
<1>6. Runs(c, u, w)
  OBVIOUS
<1> HIDE DEF c, e
<1>7. Len(e) = Len(c) + 1 /\ \A i \in 1..Len(c) : e[i] = c[i]
  BY <1>3, <1>4, <1>5
<1>8. e[Len(e)] = CommandOf(m)
  BY <1>3, <1>5
<1>9. w \in View /\ Runs(e, u, Apply(w, CommandOf(m)))
  BY <1>4, <1>5, <1>6, <1>7, <1>8, RunsAppend
<1>10. Apply(w, CommandOf(m)) \in View
  BY <1>4, <1>9, ApplyType
<1> QED BY <1>2, <1>3, <1>4, <1>9, <1>10 DEF e

(* add_move. *)
LEMMA AddMoveIs ==
  ASSUME NEW x \in HostRecord, x.sdir \in {0, 1}, NEW first \in Nat,
         NEW m \in Move, Steady(m), NEW last \in Nat,
         last = first + StepOffset(m, m.count) - m.interval
  PROVE  LET y == add_move(x, first, m)
         IN  /\ y \in HostRecord /\ y.queue = x.queue
             /\ y.next_step_clock = x.next_step_clock
             /\ y.next_step_dir = x.next_step_dir /\ y.sdir = x.sdir
             /\ y.invert_sdir = x.invert_sdir /\ y.last_step_clock = last
             /\ y.last_position = x.last_position + Times(x.sdir, m.count)
             /\ y.msg_queue =
                  Append(x.msg_queue,
                         Message("queue_step", m, x.last_step_clock,
                                 IF m.count = 1
                                    /\ first >= x.last_step_clock + ClockDiffMax
                                 THEN first ELSE x.last_step_clock))
             /\ Message("queue_step", m, x.last_step_clock,
                        IF m.count = 1
                           /\ first >= x.last_step_clock + ClockDiffMax
                        THEN first ELSE x.last_step_clock) \in Msg
<1> DEFINE y == add_move(x, first, m)
           hs == HistoryOf(x, first, m)
           req == IF m.count = 1 /\ first >= x.last_step_clock + ClockDiffMax
                  THEN first ELSE x.last_step_clock
           msg == Message("queue_step", m, x.last_step_clock, req)
<1>1. /\ x.last_step_clock \in Nat /\ x.last_position \in Int
      /\ x.msg_queue \in Seq(Msg) /\ x.history \in Seq(HistoryEntry)
  BY HostFields
<1>2. m.count \in Nat /\ m.count > 0 /\ m.interval \in Int /\ m.add \in Int
  BY DEF Move
<1>3. req \in Nat
  BY <1>1
<1> HIDE DEF req
<1>4. msg \in Msg
  <2>1. /\ msg.kind = "queue_step" /\ msg.arg = m
        /\ msg.min_clock = x.last_step_clock /\ msg.req_clock = req
    BY DEF Message
  <2>2. GoodMessage(msg)
    BY <2>1 DEF GoodMessage
  <2> QED BY <1>1, <1>3, <2>2 DEF Msg, Message
<1>5. hs \in HistoryEntry /\ hs.last_clock = last
      /\ hs.step_count = Times(x.sdir, m.count)
  <2>1. hs.last_clock = last
    BY DEF HistoryOf
  <2>2. hs.step_count = (IF x.sdir # 0 THEN m.count ELSE -m.count)
    BY DEF HistoryOf
  <2>3. hs.step_count = Times(x.sdir, m.count) /\ hs.step_count \in Int
    BY <1>2, <2>2 DEF Times
  <2>4. hs = [first_clock |-> first, last_clock |-> last,
              start_position |-> x.last_position, interval |-> m.interval,
              add |-> m.add, step_count |-> hs.step_count]
    BY DEF HistoryOf
  <2> HIDE DEF hs
  <2>5. [first_clock |-> first, last_clock |-> last,
         start_position |-> x.last_position, interval |-> m.interval,
         add |-> m.add, step_count |-> hs.step_count] \in HistoryEntry
    BY <1>1, <1>2, <2>3 DEF HistoryEntry
  <2> QED BY <2>1, <2>3, <2>4, <2>5
<1>6. y = [x EXCEPT !.msg_queue = Append(@, msg), !.last_step_clock = hs.last_clock,
                    !.last_position = @ + hs.step_count, !.history = <<hs>> \o @]
  BY DEF add_move, req
<1> HIDE DEF hs, msg, y
<1>7. PICK q, h : q = Append(x.msg_queue, msg) /\ h = <<hs>> \o x.history
  OBVIOUS
<1>8. q \in Seq(Msg) /\ h \in Seq(HistoryEntry)
  <2>1. q \in Seq(Msg)
    BY <1>1, <1>4, <1>7, AppendProps
  <2>2. <<hs>> \in Seq(HistoryEntry)
    BY <1>5
  <2>3. h \in Seq(HistoryEntry)
    BY <1>1, <1>7, <2>2
  <2> QED BY <2>1, <2>3
<1>9. PICK p \in Int : p = x.last_position + Times(x.sdir, m.count)
  <2>1. Times(x.sdir, m.count) \in Int
    BY <1>2 DEF Times
  <2> QED BY <1>1, <2>1
<1>10. y = [x EXCEPT !.msg_queue = q, !.last_step_clock = last,
                     !.last_position = p, !.history = h]
  BY <1>5, <1>6, <1>7, <1>9
<1>11. /\ y \in HostRecord /\ y.queue = x.queue
       /\ y.next_step_clock = x.next_step_clock
       /\ y.next_step_dir = x.next_step_dir /\ y.sdir = x.sdir
       /\ y.invert_sdir = x.invert_sdir /\ y.last_step_clock = last
       /\ y.last_position = p /\ y.msg_queue = q
  BY <1>8, <1>10 DEF HostRecord
<1> QED BY <1>4, <1>7, <1>9, <1>11 DEF y, msg, req

LEMMA AddMoveGoes ==
  ASSUME NEW x \in HostRecord, x.sdir \in {0, 1}, NEW first \in Nat,
         NEW m \in Move, Steady(m), NEW last \in Nat,
         last = first + StepOffset(m, m.count) - m.interval,
         NEW u \in View, NEW w, NEW b \in BOOLEAN, NEW k \in Int, Goes(x, u, w, b, k)
  PROVE  \E w2 : Goes(add_move(x, first, m), u, w2, b, k)
                 /\ w2.used <= w.used + m.count
<1> DEFINE y == add_move(x, first, m)
           req == IF m.count = 1 /\ first >= x.last_step_clock + ClockDiffMax
                  THEN first ELSE x.last_step_clock
           msg == Message("queue_step", m, x.last_step_clock, req)
           c == CommandOf(msg)
           w2 == Apply(w, c)
<1>1. /\ y \in HostRecord /\ y.sdir = x.sdir /\ y.invert_sdir = x.invert_sdir
      /\ y.last_position = x.last_position + Times(x.sdir, m.count)
      /\ y.msg_queue = Append(x.msg_queue, msg) /\ msg \in Msg
  BY AddMoveIs
<1>2. c.kind = "queue_step" /\ c.count = m.count
  BY DEF CommandOf, Message
<1> HIDE DEF msg, c, y
<1>3. /\ w \in View /\ Runs(Commands(x.msg_queue), u, w) /\ w.resets = k
      /\ b => x.last_position = HostPlace(x, w)
      /\ (b \/ k = 1) => ~w.stopped /\ w.dir = HostDir(x)
  BY DEF Goes
<1>4. c \in Command /\ w2 \in View /\ Runs(Commands(y.msg_queue), u, w2)
  BY <1>1, <1>3, SentRuns DEF c
<1>5. m.count \in Nat /\ w.used \in Nat /\ w.place \in Int /\ w.dir \in {0, 1}
      /\ w.stopped \in BOOLEAN /\ x.last_position \in Int /\ x.invert_sdir \in {0, 1}
      /\ w.resets \in Nat
  BY <1>3, HostFields DEF Move, View
<1>6. w2.resets = k /\ w2.stopped = w.stopped /\ w2.dir = w.dir
  BY <1>2, <1>3, <1>5 DEF Apply, Turned
<1>7. w2.used <= w.used + m.count
  BY <1>2, <1>5 DEF Apply
<1>8. ASSUME b
      PROVE  y.last_position = HostPlace(y, w2)
  <2>1. ~w.stopped /\ w.dir = HostDir(x) /\ x.last_position = HostPlace(x, w)
    BY <1>3, <1>8
  <2>2. w2.place = Moved(w.place, w.dir, m.count)
    BY <1>2, <2>1 DEF Apply, Moves, Turned
  <2> HIDE DEF w2
  <2> QED BY <1>1, <1>5, <2>1, <2>2, SMTT(30) DEF HostPlace, HostDir, Moved, Times
<1>9. HostDir(y) = HostDir(x)
  BY <1>1 DEF HostDir
<1> HIDE DEF w2
<1>10. Goes(y, u, w2, b, k)
  BY <1>1, <1>3, <1>4, <1>6, <1>8, <1>9 DEF Goes
<1> QED BY <1>7, <1>10 DEF y

(* The step times that one command stands for leave the queue. *)
Same(x, y) ==
  /\ y.next_step_clock = x.next_step_clock /\ y.next_step_dir = x.next_step_dir
  /\ y.sdir = x.sdir /\ y.invert_sdir = x.invert_sdir

LEMMA LinesMove ==
  ASSUME NEW g, NEW x, HostOK(x, g), g \in Nat, Len(x.queue) > 0, NEW m \in Lines(x)
  PROVE  /\ m \in Move /\ Steady(m) /\ m.count \in 1..Len(x.queue)
         /\ x.queue[1] + StepOffset(m, m.count) - m.interval = x.queue[m.count]
<1> DEFINE from == x.last_step_clock
           q == x.queue
<1>1. /\ x \in HostRecord /\ from \in Nat /\ q \in Seq(Nat) /\ Len(q) \in Nat
      /\ \A i \in 1..Len(q) : from <= q[i] /\ q[i] \in Nat
      /\ \A i, j \in 1..Len(q) : i <= j => q[i] <= q[j]
  BY HostFields DEF HostOK, Ordered
<1>2. PICK n \in DOMAIN q :
        m = [first |-> q[1], interval |-> q[1] - from, count |-> n,
             add |-> IF n = 1 THEN 0 ELSE q[2] - from - 2 * (q[1] - from)]
  BY DEF Lines
<1>3. /\ n \in 1..Len(q) /\ n \in Nat /\ n > 0
      /\ m.first = q[1] /\ m.interval = q[1] - from /\ m.count = n
      /\ m.add = IF n = 1 THEN 0 ELSE q[2] - from - 2 * (q[1] - from)
  BY <1>1, <1>2
<1>4. \A i \in 1..n : from + StepOffset(m, i) = q[i]
  BY <1>3 DEF Lines
<1> HIDE DEF from, q
<1>5. 1 \in 1..Len(q) /\ q[1] \in Nat /\ (n # 1 => q[2] \in Nat)
  <2>1. 1 \in 1..Len(q) /\ (n # 1 => 2 \in 1..Len(q))
    BY <1>1, <1>3
  <2> QED BY <1>1, <2>1
<1>6. m.interval \in Int /\ m.add \in Int /\ m.interval >= 0
  <2>1. from <= q[1]
    BY <1>1, <1>5
  <2>2. m.interval \in Int /\ m.interval >= 0
    BY <1>1, <1>3, <1>5, <2>1
  <2>3. CASE n = 1
    BY <1>3, <2>2, <2>3
  <2>4. CASE n # 1
    <3>1. PICK e \in Int, f \in Int, h \in Int : e = q[2] /\ f = q[1] /\ h = from
      BY <1>1, <1>5, <2>4
    <3>2. m.add = e - h - 2 * (f - h)
      BY <1>3, <2>4, <3>1
    <3> QED BY <2>2, <3>2
  <2> QED BY <2>3, <2>4
<1>7. m \in Move
  <2>1. m = [first |-> m.first, interval |-> m.interval, count |-> m.count,
             add |-> m.add]
    BY <1>2
  <2> QED BY <1>3, <1>5, <1>6, <2>1 DEF Move
<1>8. Steady(m)
  <2> SUFFICES ASSUME NEW i \in 0..(n - 1) PROVE m.interval + i * m.add >= 0
    BY <1>3 DEF Steady
  <2>1. CASE i = 0
    <3>1. i * m.add = 0
      BY <1>6, <2>1
    <3> QED BY <1>6, <3>1
  <2>2. CASE i # 0
    <3>1. i \in Nat /\ i \in 1..n /\ i + 1 \in 1..n /\ i \in 1..Len(q)
          /\ i + 1 \in 1..Len(q) /\ i <= i + 1
      <4>1. PICK h \in Nat : h = Len(q)
        BY <1>1
      <4>2. n <= h /\ i \in Int /\ 1 <= i /\ i + 1 <= n
        BY <1>3, <2>2, <4>1
      <4> QED BY <1>3, <4>1, <4>2
    <3>2. from + StepOffset(m, i) = q[i] /\ from + StepOffset(m, i + 1) = q[i + 1]
          /\ q[i] <= q[i + 1] /\ q[i] \in Nat /\ q[i + 1] \in Nat
      BY <1>1, <1>4, <3>1
    <3>3. StepOffset(m, i + 1) = StepOffset(m, i) + m.interval + i * m.add
          /\ StepOffset(m, i) \in Int
      BY <1>6, <3>1, StepOffsets
    <3>4. PICK z \in Int : z = i * m.add
      BY <1>6, <3>1
    <3>5. PICK e \in Nat, f \in Nat : e = q[i] /\ f = q[i + 1]
      BY <3>2
    <3>8. PICK h \in Nat, l \in Int, p \in Int :
            h = from /\ l = StepOffset(m, i) /\ p = m.interval
      BY <1>1, <1>6, <3>3
    <3>6. h + l = e /\ h + (l + p + z) = f /\ e <= f
      BY <3>2, <3>3, <3>4, <3>5, <3>8
    <3>7. p + z >= 0
      BY <3>6
    <3> QED BY <3>4, <3>8, <3>7
  <2> QED BY <2>1, <2>2
<1>9. q[1] + StepOffset(m, n) - m.interval = q[n]
  <2>1. from + StepOffset(m, n) = q[n] /\ n \in 1..n
    BY <1>3, <1>4
  <2>2. StepOffset(m, n) \in Int
    BY <1>3, <1>6, StepOffsets
  <2> QED BY <1>1, <1>3, <1>5, <2>1, <2>2
<1> QED BY <1>3, <1>7, <1>8, <1>9 DEF q

LEMMA RestProps ==
  ASSUME NEW S, NEW q \in Seq(S), NEW c \in 1..Len(q)
  PROVE  /\ SubSeq(q, c + 1, Len(q)) \in Seq(S)
         /\ Len(SubSeq(q, c + 1, Len(q))) = Len(q) - c
         /\ \A i \in 1..(Len(q) - c) : /\ SubSeq(q, c + 1, Len(q))[i] = q[i + c]
                                       /\ i + c \in 1..Len(q)
<1>1. Len(q) \in Nat /\ c \in Nat /\ c <= Len(q)
  OBVIOUS
<1>2. c + 1 \in 1..(Len(q) + 1)
  BY <1>1
<1>3. SubSeq(q, c + 1, Len(q)) = [i \in 1..(Len(q) - c) |-> q[i + c]]
  <2>1. SubSeq(q, c + 1, Len(q))
          = [i \in 1..((1 + Len(q)) - (c + 1)) |-> q[(i + (c + 1)) - 1]]
    OBVIOUS
  <2>2. (1 + Len(q)) - (c + 1) = Len(q) - c
    BY <1>1
  <2>3. \A i \in 1..(Len(q) - c) : (i + (c + 1)) - 1 = i + c
    BY <1>1
  <2> QED BY <2>1, <2>2, <2>3
<1>4. \A i \in 1..(Len(q) - c) : i + c \in 1..Len(q)
  BY <1>1
<1>5. [i \in 1..(Len(q) - c) |-> q[i + c]] \in [1..(Len(q) - c) -> S]
  BY <1>4
<1>6. Len(q) - c \in Nat
  BY <1>1
<1> DEFINE r == [i \in 1..(Len(q) - c) |-> q[i + c]]
<1>7. r \in Seq(S) /\ Len(r) = Len(q) - c
  <2> HIDE DEF r
  <2>1. PICK n \in Nat : n = Len(q) - c
    BY <1>6
  <2>2. r \in [1..n -> S]
    BY <1>5, <2>1 DEF r
  <2>3. PICK f \in [1..n -> S] : f = r
    BY <2>2
  <2>4. f \in Seq(S) /\ Len(f) = n
    OBVIOUS
  <2> QED BY <2>1, <2>3, <2>4
<1>8. \A i \in 1..(Len(q) - c) : r[i] = q[i + c]
  OBVIOUS
<1> QED BY <1>3, <1>4, <1>7, <1>8

LEMMA CompressHost ==
  ASSUME NEW x, NEW u \in View, NEW t \in Int, NEW g \in Nat, NEW b \in BOOLEAN,
         NEW k \in Int, Host(x, u, t, g, b, k), Len(x.queue) > 0, NEW y \in Compress(x)
  PROVE  /\ Host(y, u, t, g, b, k) /\ Balance(y) = Balance(x) /\ Same(x, y)
         /\ Len(y.queue) \in Nat /\ Len(y.queue) < Len(x.queue)
<1> DEFINE q == x.queue
<1>1. HostOK(x, g) /\ x \in HostRecord /\ x.sdir \in {0, 1} /\ q \in Seq(Nat)
      /\ Len(q) \in Nat /\ x.last_position \in Int /\ x.next_step_clock \in Nat
      /\ x.next_step_dir \in {0, 1}
  BY HostFields DEF Host, HostOK
<1>2. PICK m \in Lines(x) :
        y = [add_move(x, q[1], m) EXCEPT !.queue = SubSeq(@, m.count + 1, Len(@))]
  BY DEF Compress
<1>3. /\ m \in Move /\ Steady(m) /\ m.count \in 1..Len(q)
      /\ q[1] + StepOffset(m, m.count) - m.interval = q[m.count]
  BY <1>1, LinesMove
<1>4. PICK c \in Nat, last \in Nat, first \in Nat :
        c = m.count /\ last = q[m.count] /\ first = q[1]
  BY <1>1, <1>3, SMTT(60)
<1>19. last = first + StepOffset(m, m.count) - m.interval
  BY <1>3, <1>4
<1> DEFINE z == add_move(x, first, m)
<1>5. /\ z \in HostRecord /\ z.queue = q
      /\ z.next_step_clock = x.next_step_clock
      /\ z.next_step_dir = x.next_step_dir /\ z.sdir = x.sdir
      /\ z.invert_sdir = x.invert_sdir /\ z.last_step_clock = last
      /\ z.last_position = x.last_position + Times(x.sdir, c)
  BY <1>1, <1>3, <1>4, <1>19, AddMoveIs
<1>6. PICK w : Goes(x, u, w, b, k) /\ w.used + Waits(x) <= t
  BY DEF Host
<1>7. PICK w2 : Goes(z, u, w2, b, k) /\ w2.used <= w.used + c
  BY <1>1, <1>3, <1>4, <1>6, <1>19, AddMoveGoes, SMTT(30)
<1> HIDE DEF z
<1>8. PICK r : r = SubSeq(q, c + 1, Len(q))
  OBVIOUS
<1>9. /\ r \in Seq(Nat) /\ Len(r) = Len(q) - c
      /\ \A i \in 1..Len(r) : r[i] = q[i + c] /\ i + c \in 1..Len(q)
  <2>1. c \in 1..Len(q)
    BY <1>3, <1>4
  <2>2. /\ r \in Seq(Nat) /\ Len(r) = Len(q) - c
        /\ \A i \in 1..(Len(q) - c) : r[i] = q[i + c] /\ i + c \in 1..Len(q)
    BY <1>1, <1>8, <2>1, RestProps
  <2> QED BY <2>2
<1>10. y = [z EXCEPT !.queue = r]
  BY <1>2, <1>4, <1>5, <1>8 DEF z
<1>11. /\ y \in HostRecord /\ y.queue = r
       /\ y.next_step_clock = x.next_step_clock
       /\ y.next_step_dir = x.next_step_dir /\ y.sdir = x.sdir
       /\ y.invert_sdir = x.invert_sdir /\ y.last_step_clock = last
       /\ y.last_position = z.last_position /\ y.msg_queue = z.msg_queue
  BY <1>5, <1>9, <1>10 DEF HostRecord
<1>12. Ordered(y, g)
  <2>1. /\ \A i \in 1..Len(q) : q[i] <= g /\ q[i] \in Nat
        /\ \A i, j \in 1..Len(q) : i <= j => q[i] <= q[j]
        /\ x.next_step_clock # 0 =>
             /\ x.last_step_clock <= x.next_step_clock /\ x.next_step_clock <= g
             /\ \A i \in 1..Len(q) : q[i] <= x.next_step_clock
    <3>1. Ordered(x, g)
      BY <1>1 DEF HostOK
    <3>2. \A i \in 1..Len(q) : q[i] \in Nat
      BY <1>1
    <3> QED BY <3>1, <3>2 DEF Ordered
  <2>2. c \in 1..Len(q) /\ last = q[c]
    BY <1>3, <1>4
  <2>3. \A i \in 1..Len(r) : c <= i + c
    BY <1>4
  <2>4. last <= g /\ \A i \in 1..Len(r) : last <= r[i] /\ r[i] <= g
    BY <1>9, <2>1, <2>2, <2>3
  <2>5. \A i, j \in 1..Len(r) : i <= j => r[i] <= r[j]
    <3> SUFFICES ASSUME NEW i \in 1..Len(r), NEW j \in 1..Len(r), i <= j
                 PROVE  r[i] <= r[j]
      OBVIOUS
    <3>1. i + c <= j + c
      OBVIOUS
    <3> QED BY <1>9, <2>1, <3>1
  <2>6. x.next_step_clock # 0 =>
          /\ last <= x.next_step_clock /\ x.next_step_clock <= g
          /\ \A i \in 1..Len(r) : r[i] <= x.next_step_clock
    BY <1>9, <2>1, <2>2
  <2> QED BY <1>11, <2>4, <2>5, <2>6 DEF Ordered
<1>13. HostOK(y, g)
  BY <1>1, <1>11, <1>12 DEF HostOK
<1>14. HostDir(y) = HostDir(z) /\ HostPlace(y, w2) = HostPlace(z, w2)
  BY <1>5, <1>11 DEF HostDir, HostPlace
<1>15. Goes(y, u, w2, b, k)
  BY <1>5, <1>7, <1>11, <1>14 DEF Goes
<1>16. w2.used + Waits(y) <= t
  <2>1. w.used \in Nat /\ w2.used \in Nat
    BY <1>6, <1>7 DEF Goes, View
  <2>2. PICK e \in Nat : e = IF x.next_step_clock = 0 THEN 0 ELSE 1
    OBVIOUS
  <2>3. Waits(x) = Len(q) + e /\ Waits(y) = Len(q) - c + e
    BY <1>9, <1>11, <2>2 DEF Waits
  <2>4. PICK l \in Nat : l = Len(q)
    BY <1>1
  <2>5. PICK f \in Nat, h \in Nat : f = w.used /\ h = w2.used
    BY <2>1
  <2>6. f + (l + e) <= t /\ h <= f + c
    BY <1>6, <1>7, <2>3, <2>4, <2>5
  <2>7. h + (l - c + e) <= t
    BY <2>6
  <2> QED BY <2>3, <2>4, <2>5, <2>7
<1>17. Balance(y) = Balance(x)
  <2>1. Times(x.sdir, c) + Times(x.sdir, Len(r)) = Times(x.sdir, Len(q))
        /\ Times(x.sdir, c) \in Int /\ Times(x.sdir, Len(r)) \in Int
    <3>1. Len(r) \in Int /\ Len(q) \in Int /\ Len(q) = c + Len(r)
      BY <1>1, <1>4, <1>9
    <3> HIDE DEF q
    <3> QED BY <1>1, <3>1 DEF Times
  <2>2. PICK e \in Int : e = IF x.next_step_clock = 0 THEN 0
                             ELSE Times(x.next_step_dir, 1)
    BY <1>1 DEF Times
  <2>3. Balance(x) = x.last_position + Times(x.sdir, Len(q)) + e
    BY <2>2 DEF Balance
  <2>4. Balance(y) = (x.last_position + Times(x.sdir, c)) + Times(x.sdir, Len(r)) + e
    BY <1>5, <1>11, <2>2 DEF Balance
  <2> QED BY <1>1, <2>1, <2>3, <2>4
<1>18. Len(y.queue) \in Nat /\ Len(y.queue) < Len(q)
  BY <1>1, <1>3, <1>4, <1>9, <1>11, SMTT(30)
<1> QED BY <1>11, <1>13, <1>15, <1>16, <1>17, <1>18 DEF Host, Same

(* queue_flush: one command after the other. *)
IsFlushed(x, move_clock) == x.queue = <<>> \/ x.last_step_clock >= move_clock
FlushOne(X, move_clock) ==
  UNION {IF IsFlushed(x, move_clock) THEN {x} ELSE Compress(x) : x \in X}
IsFlush(f, x, n, move_clock) ==
  f = [k \in 0..n |-> IF k = 0 THEN {x} ELSE FlushOne(f[k - 1], move_clock)]

LEMMA FlushExists ==
  ASSUME NEW x, NEW n \in Nat, NEW move_clock
  PROVE  \E f : IsFlush(f, x, n, move_clock)
<1> DEFINE E(X) == FlushOne(X, move_clock)
           Up(f, i) == /\ f = [j \in 0..i |-> f[j]] /\ f[0] = {x}
                       /\ \A j \in 1..i : f[j] = E(f[j - 1])
           S == {i \in 0..n : \E f : Up(f, i)}
<1> HIDE DEF E
<1>1. 0 \in S
  <2> DEFINE f == [j \in 0..0 |-> {x}]
  <2>1. f = [j \in 0..0 |-> f[j]] /\ f[0] = {x} /\ 1..0 = {}
    OBVIOUS
  <2> HIDE DEF f
  <2>2. Up(f, 0)
    BY <2>1
  <2> HIDE DEF Up
  <2> QED BY <2>2
<1>2. ASSUME NEW i \in 0..(n - 1), i \in S
      PROVE  i + 1 \in S
  <2>1. PICK f : Up(f, i)
    BY <1>2
  <2>2. i \in Nat /\ i + 1 \in 0..n /\ i \in 0..i
    OBVIOUS
  <2> DEFINE g == [j \in 0..(i + 1) |-> IF j = i + 1 THEN E(f[i]) ELSE f[j]]
  <2>3. /\ g = [j \in 0..(i + 1) |-> g[j]] /\ g[i + 1] = E(f[i])
        /\ \A j \in 0..i : g[j] = f[j]
    BY <2>2
  <2> HIDE DEF g
  <2>4. \A j \in 1..(i + 1) : g[j] = E(g[j - 1])
    <3> SUFFICES ASSUME NEW j \in 1..(i + 1) PROVE g[j] = E(g[j - 1])
      OBVIOUS
    <3>1. CASE j = i + 1
      <4>1. j - 1 = i
        BY <2>2, <3>1
      <4> QED BY <2>2, <2>3, <3>1, <4>1
    <3>2. CASE j # i + 1
      <4>1. j \in 1..i /\ j - 1 \in 0..i /\ j \in 0..i
        BY <2>2, <3>2
      <4> QED BY <2>1, <2>3, <4>1
    <3> QED BY <3>1, <3>2
  <2>5. 0 \in 0..i
    BY <2>2
  <2>6. Up(g, i + 1)
    BY <2>1, <2>3, <2>4, <2>5
  <2> HIDE DEF Up
  <2> QED BY <2>2, <2>6
<1> HIDE DEF S
<1>3. n \in S
  <2>1. \A i \in 0..n : i \in S
    BY <1>1, <1>2, UpTo
  <2> QED BY <2>1
<1>4. PICK f : Up(f, n)
  BY <1>3 DEF S
<1>5. f = [k \in 0..n |-> IF k = 0 THEN {x} ELSE E(f[k - 1])]
  <2> DEFINE g == [k \in 0..n |-> IF k = 0 THEN {x} ELSE E(f[k - 1])]
  <2>1. \A k \in 0..n : f[k] = g[k]
    <3> SUFFICES ASSUME NEW k \in 0..n PROVE f[k] = g[k]
      OBVIOUS
    <3>1. k = 0 \/ k \in 1..n
      OBVIOUS
    <3> QED BY <1>4, <3>1
  <2>2. g = [k \in 0..n |-> g[k]] /\ f = [k \in 0..n |-> f[k]]
    BY <1>4
  <2> HIDE DEF g
  <2> QED BY <2>1, <2>2 DEF g
<1> QED BY <1>5 DEF IsFlush, E

LEMMA QueueFlushIs ==
  ASSUME NEW x, Len(x.queue) \in Nat, NEW move_clock
  PROVE  \E f : /\ IsFlush(f, x, Len(x.queue), move_clock)
                /\ queue_flush(x, move_clock) = f[Len(x.queue)]
<1> DEFINE n == Len(x.queue)
           B(f) == [k \in 0..n |->
                      IF k = 0 THEN {x}
                      ELSE UNION {IF y.queue = <<>> \/ y.last_step_clock >= move_clock
                                  THEN {y} ELSE Compress(y) : y \in f[k - 1]}]
<1>1. ASSUME NEW f PROVE IsFlush(f, x, n, move_clock) <=> f = B(f)
  BY Zenon DEF IsFlush, FlushOne, IsFlushed
<1>2. \E f : f = B(f)
  <2>1. PICK f : IsFlush(f, x, n, move_clock)
    BY FlushExists
  <2> HIDE DEF B
  <2> QED BY <1>1, <2>1
<1>3. \E f : f = B(f) /\ queue_flush(x, move_clock) = f[n]
  BY Zenon, <1>2 DEF queue_flush
<1> HIDE DEF B
<1> QED BY <1>1, <1>3

LEMMA QueueFlushHost ==
  ASSUME NEW x, NEW u \in View, NEW t \in Int, NEW g \in Nat, NEW b \in BOOLEAN,
         NEW k \in Int, Host(x, u, t, g, b, k), NEW move_clock,
         NEW y \in queue_flush(x, move_clock)
  PROVE  /\ Host(y, u, t, g, b, k) /\ Balance(y) = Balance(x) /\ Same(x, y)
         /\ IsFlushed(y, move_clock)
         /\ x.queue = <<>> => y = x
<1>1. PICK n \in Nat : n = Len(x.queue)
  BY HostFields DEF Host, HostOK
<1>2. PICK f : IsFlush(f, x, n, move_clock) /\ queue_flush(x, move_clock) = f[n]
  BY <1>1, QueueFlushIs
<1> DEFINE Good(z, i) ==
             /\ Host(z, u, t, g, b, k) /\ Balance(z) = Balance(x) /\ Same(x, z)
             /\ IsFlushed(z, move_clock) \/ Len(z.queue) <= n - i
           S == {i \in 0..n : \A z \in f[i] : Good(z, i)}
<1>3. 0 \in S
  <2>1. f[0] = {x}
    BY <1>2 DEF IsFlush
  <2>2. Good(x, 0)
    BY <1>1 DEF Same
  <2> HIDE DEF Good
  <2> QED BY <2>1, <2>2
<1>4. ASSUME NEW i \in 0..(n - 1), i \in S
      PROVE  i + 1 \in S
  <2>1. i + 1 \in 0..n /\ i + 1 # 0 /\ (i + 1) - 1 = i /\ i \in Int
    OBVIOUS
  <2>2. f[i + 1] = FlushOne(f[i], move_clock)
    BY <1>2, <2>1 DEF IsFlush
  <2> SUFFICES ASSUME NEW z \in f[i + 1] PROVE Good(z, i + 1)
    BY <2>1
  <2>3. PICK a \in f[i] : z \in IF IsFlushed(a, move_clock) THEN {a} ELSE Compress(a)
    BY <2>2 DEF FlushOne
  <2>4. Good(a, i)
    BY <1>4
  <2>5. CASE IsFlushed(a, move_clock)
    BY <2>3, <2>4, <2>5
  <2>6. CASE ~IsFlushed(a, move_clock)
    <3>1. z \in Compress(a)
      BY <2>3, <2>6
    <3>2. a.queue \in Seq(Nat) /\ a.queue # <<>> /\ Len(a.queue) \in Nat
      BY <2>4, <2>6, HostFields DEF IsFlushed, Host, HostOK
    <3>3. Len(a.queue) > 0
      BY <3>2
    <3>4. /\ Host(z, u, t, g, b, k) /\ Balance(z) = Balance(a) /\ Same(a, z)
          /\ Len(z.queue) \in Nat /\ Len(z.queue) < Len(a.queue)
      BY <2>4, <3>1, <3>3, CompressHost
    <3>5. Len(z.queue) <= n - (i + 1)
      BY SMTT(30), <2>1, <2>4, <2>6, <3>2, <3>4
    <3>6. Same(x, z)
      BY <2>4, <3>4 DEF Same
    <3> QED BY <2>4, <3>4, <3>5, <3>6
  <2> QED BY <2>5, <2>6
<1> HIDE DEF S
<1>5. n \in S
  <2>1. \A i \in 0..n : i \in S
    BY <1>3, <1>4, UpTo
  <2> QED BY <2>1
<1>6. Good(y, n)
  BY <1>2, <1>5 DEF S
<1>7. IsFlushed(y, move_clock)
  <2>1. y.queue \in Seq(Nat) /\ Len(y.queue) \in Nat
    BY <1>6, HostFields DEF Host, HostOK
  <2>2. Len(y.queue) <= 0 => y.queue = <<>>
    BY <2>1
  <2> QED BY <1>6, <2>2 DEF IsFlushed
<1>8. x.queue = <<>> => y = x
  <2> SUFFICES ASSUME x.queue = <<>> PROVE y = x
    OBVIOUS
  <2>1. n = 0
    BY <1>1
  <2> QED BY <1>2, <2>1 DEF IsFlush
<1> QED BY <1>6, <1>7, <1>8

(* A flush up to UINT64_MAX leaves nothing. *)
LEMMA FlushAll ==
  ASSUME NEW x, NEW u \in View, NEW t \in Int, NEW g \in Nat, NEW b \in BOOLEAN,
         NEW k \in Int, Host(x, u, t, g, b, k), g < Forever,
         NEW y \in queue_flush(x, Forever)
  PROVE  /\ Host(y, u, t, g, b, k) /\ Balance(y) = Balance(x) /\ Same(x, y)
         /\ y.queue = <<>>
<1>1. /\ Host(y, u, t, g, b, k) /\ Balance(y) = Balance(x) /\ Same(x, y)
      /\ IsFlushed(y, Forever)
  BY QueueFlushHost
<1>2. y.last_step_clock \in Nat /\ y.last_step_clock <= g
  BY <1>1, HostFields DEF Host, HostOK, Ordered
<1>3. ~(y.last_step_clock >= Forever)
  BY <1>2, StepCompressAssumption
<1> QED BY <1>1, <1>3 DEF IsFlushed

(* set_next_step_dir. *)
LEMMA SetDirHost ==
  ASSUME NEW x, NEW u \in View, NEW t \in Int, NEW g \in Nat, NEW b \in BOOLEAN,
         NEW k \in Int, Host(x, u, t, g, b, k), g < Forever, NEW dir \in Int, dir = 0 \/ dir = 1,
         NEW y \in set_next_step_dir(x, dir)
  PROVE  /\ Host(y, u, t, g, b, k) /\ Balance(y) = Balance(x) /\ y.sdir = dir
         /\ y.next_step_clock = x.next_step_clock
         /\ y.next_step_dir = x.next_step_dir /\ y.invert_sdir = x.invert_sdir
<1>1. CASE x.sdir = dir
  BY <1>1 DEF set_next_step_dir
<1>2. CASE x.sdir # dir
  <2>1. PICK z \in queue_flush(x, Forever) :
          y = [z EXCEPT !.sdir = dir, !.msg_queue = Append(@, DirMessage(z, dir))]
    BY <1>2 DEF set_next_step_dir
  <2>2. /\ Host(z, u, t, g, b, k) /\ Balance(z) = Balance(x) /\ Same(x, z)
        /\ z.queue = <<>>
    BY FlushAll
  <2>3. z \in HostRecord /\ Ordered(z, g)
    BY <2>2 DEF Host, HostOK
  <2>4. z.last_step_clock \in Nat /\ z.invert_sdir \in {0, 1}
        /\ z.last_position \in Int
    BY <2>3, HostFields
  <2>5. PICK a \in {0, 1} : a = IF z.invert_sdir = 1 THEN 1 - dir ELSE dir
    OBVIOUS
  <2>6. PICK m : m = DirMessage(z, dir)
    OBVIOUS
  <2>7. m = [kind |-> "set_next_step_dir", arg |-> a, min_clock |-> 0,
             req_clock |-> z.last_step_clock]
    BY <2>5, <2>6 DEF DirMessage, Message
  <2>8. m \in Msg
    <3>1. GoodMessage(m)
      BY <2>7 DEF GoodMessage
    <3>2. m \in [kind : {"queue_step", "set_next_step_dir", "reset_step_clock"},
                 arg : Move \cup {0, 1}, min_clock : Nat, req_clock : Nat]
      BY <2>4, <2>7
    <3> QED BY <3>1, <3>2 DEF Msg
  <2>9. PICK w : Goes(z, u, w, b, k) /\ w.used + Waits(z) <= t
    BY <2>2 DEF Host
  <2> DEFINE w2 == Apply(w, CommandOf(m))
  <2>10. PICK q : q = Append(z.msg_queue, m)
    OBVIOUS
  <2>11. q \in Seq(Msg) /\ w2 \in View /\ Runs(Commands(q), u, w2)
    BY <2>3, <2>8, <2>9, <2>10, SentRuns DEF Goes
  <2>12. y = [z EXCEPT !.sdir = dir, !.msg_queue = q]
    BY <2>1, <2>6, <2>10
  <2>13. /\ y \in HostRecord /\ y.sdir = dir /\ y.msg_queue = q /\ y.queue = <<>>
         /\ y.next_step_clock = z.next_step_clock /\ y.next_step_dir = z.next_step_dir
         /\ y.invert_sdir = z.invert_sdir /\ y.last_step_clock = z.last_step_clock
         /\ y.last_position = z.last_position
    BY <2>2, <2>3, <2>11, <2>12 DEF HostRecord
  <2>14. /\ w \in View /\ w.resets = k /\ (b => z.last_position = HostPlace(z, w))
         /\ (b \/ k = 1 => ~w.stopped)
    BY <2>9 DEF Goes
  <2>15. /\ w2.place = w.place /\ w2.used = w.used /\ w2.resets = w.resets
         /\ w2.stopped = w.stopped /\ w2.dir = a
    <3>1. CommandOf(m).kind = "set_next_step_dir" /\ CommandOf(m).dir = a
      BY <2>7 DEF CommandOf
    <3>2. w.stopped \in BOOLEAN
      BY <2>14 DEF View
    <3> QED BY <3>1, <3>2 DEF Apply, Moves, Turned
  <2> HIDE DEF w2
  <2>16. HostDir(y) = a /\ HostPlace(y, w2) = HostPlace(z, w)
    BY <2>5, <2>13, <2>15 DEF HostDir, HostPlace
  <2>17. Goes(y, u, w2, b, k)
    BY <2>11, <2>13, <2>14, <2>15, <2>16 DEF Goes
  <2>18. Waits(y) = Waits(z)
    BY <2>2, <2>13 DEF Waits
  <2>19. Balance(y) = Balance(z)
    <3>1. Times(z.sdir, Len(z.queue)) = 0 /\ Times(y.sdir, Len(y.queue)) = 0
      <4>1. Len(z.queue) = 0 /\ Len(y.queue) = 0
        BY <2>2, <2>13
      <4>2. ASSUME NEW d PROVE Times(d, 0) = 0
        <5>1. \A n \in Int : n <= 0 /\ 0 <= n => -n = 0 /\ n = 0
          OBVIOUS
        <5>2. PICK n \in Int : n <= 0 /\ 0 <= n
          OBVIOUS
        <5>3. Times(d, n) = 0 /\ n = 0
          BY <5>1, <5>2 DEF Times
        <5> QED BY <5>3
      <4> QED BY <4>1, <4>2
    <3> QED BY <2>13, <3>1 DEF Balance
  <2>20. HostOK(y, g)
    BY <2>2, <2>3, <2>13 DEF HostOK, Ordered
  <2> QED BY <2>2, <2>9, <2>13, <2>15, <2>17, <2>18, <2>19, <2>20 DEF Host, Same
<1> QED BY <1>1, <1>2

(* A step time is queued. *)
Queued(x, clock) == [x EXCEPT !.queue = Append(@, clock)]

LEMMA QueuedHost ==
  ASSUME NEW x, NEW u \in View, NEW t \in Int, NEW g \in Nat, NEW b \in BOOLEAN,
         NEW k \in Int, Host(x, u, t - 1, g, b, k), x.next_step_clock = 0,
         x.sdir \in {0, 1}, NEW clock \in Nat, clock <= g,
         x.last_step_clock <= clock,
         \A i \in 1..Len(x.queue) : x.queue[i] <= clock,
         NEW y, y = Queued(x, clock)
  PROVE  /\ Host(y, u, t, g, b, k) /\ Same(x, y)
         /\ Balance(y) = Balance(x) + Times(x.sdir, 1)
<1>1. /\ x \in HostRecord /\ Ordered(x, g) /\ x.queue \in Seq(Nat)
      /\ Len(x.queue) \in Nat /\ x.last_step_clock \in Nat /\ x.last_position \in Int
  BY HostFields DEF Host, HostOK
<1>2. PICK q : q = Append(x.queue, clock)
  OBVIOUS
<1>3. /\ q \in Seq(Nat) /\ Len(q) = Len(x.queue) + 1 /\ q[Len(x.queue) + 1] = clock
      /\ \A i \in 1..Len(x.queue) : q[i] = x.queue[i]
  BY <1>1, <1>2, AppendProps
<1>4. y = [x EXCEPT !.queue = q]
  BY <1>2 DEF Queued
<1>5. /\ y \in HostRecord /\ y.queue = q /\ y.sdir = x.sdir
      /\ y.next_step_clock = 0 /\ y.next_step_dir = x.next_step_dir
      /\ y.invert_sdir = x.invert_sdir /\ y.last_step_clock = x.last_step_clock
      /\ y.last_position = x.last_position /\ y.msg_queue = x.msg_queue
  BY <1>1, <1>3, <1>4 DEF HostRecord
<1>6. Ordered(y, g)
  <2>1. /\ x.last_step_clock <= g
        /\ \A i \in 1..Len(x.queue) : /\ x.last_step_clock <= x.queue[i]
                                      /\ x.queue[i] <= g
        /\ \A i, j \in 1..Len(x.queue) : i <= j => x.queue[i] <= x.queue[j]
    BY <1>1 DEF Ordered
  <2>2. \A i \in 1..Len(q) : i \in 1..Len(x.queue) \/ i = Len(x.queue) + 1
    BY <1>1, <1>3
  <2>3. \A i \in 1..Len(q) : x.last_step_clock <= q[i] /\ q[i] <= g
    BY <1>3, <2>1, <2>2
  <2>4. \A i, j \in 1..Len(q) : i <= j => q[i] <= q[j]
    <3> SUFFICES ASSUME NEW i \in 1..Len(q), NEW j \in 1..Len(q), i <= j
                 PROVE  q[i] <= q[j]
      OBVIOUS
    <3>1. CASE j = Len(x.queue) + 1
      <4>1. q[i] <= clock
        <5>1. CASE i \in 1..Len(x.queue)
          BY <1>3, <5>1
        <5>2. CASE i = Len(x.queue) + 1
          BY <1>3, <5>2
        <5> QED BY <2>2, <5>1, <5>2
      <4> QED BY <1>3, <3>1, <4>1
    <3>2. CASE j \in 1..Len(x.queue)
      <4>1. i \in 1..Len(x.queue)
        BY <1>1, <1>3, <3>2
      <4> QED BY <1>3, <2>1, <3>2, <4>1
    <3> QED BY <2>2, <3>1, <3>2
  <2> QED BY <1>5, <2>1, <2>3, <2>4 DEF Ordered
<1>7. HostOK(y, g)
  BY <1>5, <1>6 DEF HostOK
<1>8. PICK w : Goes(x, u, w, b, k) /\ w.used + Waits(x) <= t - 1
  BY DEF Host
<1>9. Goes(y, u, w, b, k)
  <2>1. HostDir(y) = HostDir(x) /\ HostPlace(y, w) = HostPlace(x, w)
    BY <1>5 DEF HostDir, HostPlace
  <2> QED BY <1>5, <1>8, <2>1 DEF Goes
<1>10. w.used + Waits(y) <= t
  <2>1. Waits(y) = Waits(x) + 1 /\ Waits(x) \in Int
    BY <1>1, <1>3, <1>5 DEF Waits
  <2>2. w.used \in Int
    BY <1>8 DEF Goes, View
  <2> QED BY <1>8, <2>1, <2>2
<1>11. Balance(y) = Balance(x) + Times(x.sdir, 1)
  <2>1. Times(x.sdir, Len(q)) = Times(x.sdir, Len(x.queue)) + Times(x.sdir, 1)
        /\ Times(x.sdir, Len(x.queue)) \in Int /\ Times(x.sdir, 1) \in Int
    BY <1>1, <1>3 DEF Times
  <2>2. /\ Balance(x) = x.last_position + Times(x.sdir, Len(x.queue)) + 0
        /\ Balance(y) = x.last_position + Times(x.sdir, Len(q)) + 0
    BY <1>5 DEF Balance
  <2> QED BY <1>1, <2>1, <2>2
<1> QED BY <1>5, <1>7, <1>9, <1>10, <1>11 DEF Host, Same

LEMMA HostWeaken ==
  ASSUME NEW x, NEW u \in View, NEW t \in Int, NEW g \in Nat, NEW b \in BOOLEAN,
         NEW k \in Int, Host(x, u, t, g, b, k), NEW t2 \in Int, NEW g2 \in Nat,
         t <= t2, g <= g2
  PROVE  Host(x, u, t2, g2, b, k)
<1>1. /\ x \in HostRecord /\ Ordered(x, g) /\ x.last_step_clock \in Nat
      /\ x.next_step_clock \in Nat /\ \A i \in 1..Len(x.queue) : x.queue[i] \in Nat
  BY HostFields DEF Host, HostOK
<1>2. Ordered(x, g2)
  BY <1>1 DEF Ordered
<1>3. PICK w : Goes(x, u, w, b, k) /\ w.used + Waits(x) <= t
  BY DEF Host
<1>4. w.used + Waits(x) <= t2
  <2>1. w.used \in Int /\ Waits(x) \in Int
    BY <1>1, <1>3, HostFields DEF Goes, View
  <2> QED BY <1>3, <2>1
<1> QED BY <1>2, <1>3, <1>4 DEF Host, HostOK

(* The step that is not queued yet is taken out. *)
Dropped(x, dir) == [x EXCEPT !.next_step_clock = 0, !.next_step_dir = dir]

LEMMA DropHost ==
  ASSUME NEW x, NEW u \in View, NEW t \in Int, NEW g \in Nat, NEW b \in BOOLEAN,
         NEW k \in Int, Host(x, u, t, g, b, k), ~(x.next_step_clock = 0),
         NEW dir \in Int, dir = 0 \/ dir = 1, NEW y, y = Dropped(x, dir)
  PROVE  /\ Host(y, u, t - 1, x.next_step_clock, b, k)
         /\ y.queue = x.queue /\ y.sdir = x.sdir
         /\ y.invert_sdir = x.invert_sdir /\ y.next_step_clock = 0
         /\ y.next_step_dir = dir /\ y.last_step_clock = x.last_step_clock
         /\ Balance(y) = Balance(x) - Times(x.next_step_dir, 1)
<1>1. /\ x \in HostRecord /\ Ordered(x, g) /\ HostOK(x, g)
      /\ Len(x.queue) \in Nat /\ x.last_step_clock \in Nat /\ x.last_position \in Int
      /\ x.next_step_clock \in Nat /\ x.next_step_dir \in {0, 1}
  BY HostFields DEF Host, HostOK
<1>2. /\ y \in HostRecord /\ y.queue = x.queue /\ y.sdir = x.sdir
      /\ y.next_step_clock = 0 /\ y.next_step_dir = dir
      /\ y.invert_sdir = x.invert_sdir /\ y.last_step_clock = x.last_step_clock
      /\ y.last_position = x.last_position /\ y.msg_queue = x.msg_queue
  <2>1. 0 \in Nat
    OBVIOUS
  <2> QED BY <1>1, <2>1 DEF HostRecord, Dropped
<1>3. HostOK(y, x.next_step_clock)
  <2>1. Ordered(y, x.next_step_clock)
    BY <1>1, <1>2 DEF Ordered
  <2> QED BY <1>1, <1>2, <2>1 DEF HostOK
<1>4. PICK w : Goes(x, u, w, b, k) /\ w.used + Waits(x) <= t
  BY DEF Host
<1>5. Goes(y, u, w, b, k)
  <2>1. HostDir(y) = HostDir(x) /\ HostPlace(y, w) = HostPlace(x, w)
    BY <1>2 DEF HostDir, HostPlace
  <2> QED BY <1>2, <1>4, <2>1 DEF Goes
<1>6. w.used + Waits(y) <= t - 1
  <2>1. Waits(y) = Waits(x) - 1 /\ Waits(x) \in Int
    BY <1>1, <1>2 DEF Waits
  <2>2. w.used \in Int
    BY <1>4 DEF Goes, View
  <2> QED BY <1>4, <2>1, <2>2
<1>7. Balance(y) = Balance(x) - Times(x.next_step_dir, 1)
  <2>1. PICK e \in Int, f \in Int : e = Times(x.sdir, Len(x.queue))
                                    /\ f = Times(x.next_step_dir, 1)
    BY <1>1 DEF Times
  <2>2. Balance(x) = x.last_position + e + f /\ Balance(y) = x.last_position + e + 0
    BY <1>1, <1>2, <2>1 DEF Balance
  <2> QED BY <1>1, <2>1, <2>2
<1> QED BY <1>2, <1>3, <1>5, <1>6, <1>7 DEF Host

(* queue_append_far. *)
LEMMA AppendFarHost ==
  ASSUME NEW x, NEW u \in View, NEW t \in Int, NEW g \in Nat, NEW b \in BOOLEAN,
         NEW k \in Int, Host(x, u, t, g, b, k), x.next_step_clock # 0,
         x.sdir = x.next_step_dir, NEW y \in queue_append_far(x)
  PROVE  /\ Host(y, u, t, g, b, k) /\ Balance(y) = Balance(x)
         /\ y.next_step_clock = 0 /\ y.next_step_dir = x.next_step_dir
         /\ y.invert_sdir = x.invert_sdir
<1>1. /\ x \in HostRecord /\ Ordered(x, g) /\ x.next_step_clock \in Nat
      /\ x.next_step_dir \in {0, 1} /\ x.sdir \in {0, 1}
  BY HostFields DEF Host, HostOK
<1>2. PICK clock \in Nat : clock = x.next_step_clock
  BY <1>1
<1>3. clock <= g /\ clock # 0
  BY <1>1, <1>2 DEF Ordered
<1>4. PICK x0 : x0 = [x EXCEPT !.next_step_clock = 0]
  OBVIOUS
<1>5. x0 = Dropped(x, x.next_step_dir)
  BY <1>1, <1>4 DEF HostRecord, Dropped
<1>6. /\ Host(x0, u, t - 1, clock, b, k) /\ x0.sdir = x.sdir
      /\ x0.invert_sdir = x.invert_sdir /\ x0.next_step_clock = 0
      /\ x0.next_step_dir = x.next_step_dir
      /\ Balance(x0) = Balance(x) - Times(x.next_step_dir, 1)
  <2>1. PICK d \in Int : d = x.next_step_dir /\ (d = 0 \/ d = 1)
    BY <1>1
  <2>2. x0 = Dropped(x, d)
    BY <1>5, <2>1
  <2>3. /\ Host(x0, u, t - 1, x.next_step_clock, b, k) /\ x0.sdir = x.sdir
        /\ x0.invert_sdir = x.invert_sdir /\ x0.next_step_clock = 0
        /\ x0.next_step_dir = d
        /\ Balance(x0) = Balance(x) - Times(x.next_step_dir, 1)
    BY <2>1, <2>2, DropHost
  <2> QED BY <1>2, <2>1, <2>3
<1> DEFINE far(z) == clock >= z.last_step_clock + ClockDiffMax
           alone(z) == [first |-> clock, interval |-> clock - z.last_step_clock,
                        count |-> 1, add |-> 0]
           limit == clock - ClockDiffMax + 1
<1>7. PICK z \in queue_flush(x0, limit) :
        y = IF far(z) THEN add_move(z, clock, alone(z))
            ELSE [z EXCEPT !.queue = Append(@, clock)]
  BY <1>2, <1>4 DEF queue_append_far
<1>8. /\ Host(z, u, t - 1, clock, b, k) /\ Balance(z) = Balance(x0) /\ Same(x0, z)
      /\ IsFlushed(z, limit)
  BY <1>6, QueueFlushHost
<1>9. /\ z \in HostRecord /\ Ordered(z, clock) /\ z.last_step_clock \in Nat
      /\ z.last_step_clock <= clock /\ z.sdir = x.sdir /\ z.next_step_clock = 0
      /\ z.next_step_dir = x.next_step_dir /\ z.invert_sdir = x.invert_sdir
      /\ z.last_position \in Int /\ z.queue \in Seq(Nat)
  BY <1>6, <1>8, HostFields DEF Host, HostOK, Ordered, Same
<1>10. Balance(x) \in Int /\ Balance(z) = Balance(x) - Times(x.sdir, 1)
       /\ Times(x.sdir, 1) \in Int
  BY <1>1, <1>6, <1>8, HostFields, SMTT(30) DEF Balance, Times
<1>11. CASE far(z)
  <2>1. z.queue = <<>>
    <3>1. ~(z.last_step_clock >= limit)
      BY <1>9, <1>11, StepCompressAssumption
    <3> QED BY <1>8, <3>1 DEF IsFlushed
  <2>2. PICK m : m = alone(z)
    OBVIOUS
  <2>3. /\ m \in Move /\ m.interval = clock - z.last_step_clock /\ m.count = 1
        /\ m.add = 0 /\ m.interval \in Int /\ m.interval >= 0
    <3>1. clock - z.last_step_clock \in Int /\ clock - z.last_step_clock >= 0
      BY <1>9
    <3> QED BY <2>2, <3>1 DEF Move
  <2>4. Steady(m)
    <3>1. ASSUME NEW n \in 0..(1 - 1) PROVE m.interval + n * m.add >= 0
      <4>1. n = 0 /\ m.add = 0
        BY <2>3
      <4>2. n * m.add = 0
        BY <4>1
      <4> QED BY <2>3, <4>2
    <3> QED BY <2>3, <3>1 DEF Steady
  <2>5. clock = clock + StepOffset(m, m.count) - m.interval
    <3>1. StepOffset(m, 1) = m.interval
      BY <2>3, StepOffsets
    <3> QED BY <2>3, <3>1
  <2>6. y = add_move(z, clock, m)
    BY <1>7, <1>11, <2>2
  <2>7. /\ y \in HostRecord /\ y.queue = <<>> /\ y.next_step_clock = 0
        /\ y.next_step_dir = x.next_step_dir /\ y.sdir = x.sdir
        /\ y.invert_sdir = x.invert_sdir /\ y.last_step_clock = clock
        /\ y.last_position = z.last_position + Times(x.sdir, 1)
    BY <1>1, <1>9, <2>1, <2>3, <2>4, <2>5, <2>6, AddMoveIs
  <2>8. PICK w : Goes(z, u, w, b, k) /\ w.used + Waits(z) <= t - 1
    BY <1>8 DEF Host
  <2>9. PICK w2 : Goes(y, u, w2, b, k) /\ w2.used <= w.used + 1
    <3>1. \E w2 : Goes(add_move(z, clock, m), u, w2, b, k)
                  /\ w2.used <= w.used + m.count
      BY <1>1, <1>9, <2>3, <2>4, <2>5, <2>8, AddMoveGoes, SMTT(60)
    <3> QED BY <2>3, <2>6, <3>1
  <2>10. w2.used + Waits(y) <= t
    <3>1. w.used \in Int /\ w2.used \in Int
      BY <2>8, <2>9 DEF Goes, View
    <3>2. Waits(y) = 0 /\ Waits(z) = 0
      BY <1>9, <2>1, <2>7 DEF Waits
    <3> QED BY <2>8, <2>9, <3>1, <3>2
  <2>11. Ordered(y, g)
    BY <1>3, <2>7 DEF Ordered
  <2>12. HostOK(y, g)
    BY <1>1, <2>7, <2>11 DEF HostOK
  <2>13. Balance(y) = Balance(x)
    <3>1. Len(z.queue) = 0 /\ Len(y.queue) = 0
      BY <2>1, <2>7
    <3>2. PICK e \in Int : e = Times(x.sdir, 0)
      BY DEF Times
    <3>3. Balance(z) = z.last_position + e + 0
          /\ Balance(y) = (z.last_position + Times(x.sdir, 1)) + e + 0
      BY <1>9, <2>7, <3>1, <3>2 DEF Balance
    <3> QED BY <1>9, <1>10, <3>2, <3>3, SMTT(30)
  <2> QED BY <2>7, <2>9, <2>10, <2>12, <2>13 DEF Host
<1>12. CASE ~far(z)
  <2>1. y = Queued(z, clock)
    BY <1>7, <1>12 DEF Queued
  <2>2. \A i \in 1..Len(z.queue) : z.queue[i] <= clock
    BY <1>9 DEF Ordered
  <2>3. /\ Host(y, u, t, clock, b, k) /\ Same(z, y)
        /\ Balance(y) = Balance(z) + Times(z.sdir, 1)
    <3>1. z.sdir \in {0, 1} /\ clock <= clock
      BY <1>1, <1>9
    <3> QED BY <1>8, <1>9, <2>1, <2>2, <3>1, QueuedHost
  <2>4. Host(y, u, t, g, b, k)
    BY <1>3, <2>3, HostWeaken
  <2>5. Balance(y) = Balance(x)
    BY <1>9, <1>10, <2>3
  <2> QED BY <1>9, <2>3, <2>4, <2>5 DEF Same
<1> QED BY <1>11, <1>12

(* queue_append. *)
LEMMA AppendHost ==
  ASSUME NEW x, NEW u \in View, NEW t \in Int, NEW g \in Nat, NEW b \in BOOLEAN,
         NEW k \in Int, Host(x, u, t, g, b, k), g < Forever,
         x.next_step_clock # 0, NEW y \in queue_append(x)
  PROVE  /\ Host(y, u, t, g, b, k) /\ Balance(y) = Balance(x)
         /\ y.next_step_clock = 0 /\ y.invert_sdir = x.invert_sdir
<1>1. PICK d \in Int : d = x.next_step_dir /\ (d = 0 \/ d = 1)
  BY HostFields DEF Host, HostOK
<1>2. PICK z \in set_next_step_dir(x, d) :
        y \in IF z.next_step_clock >= z.last_step_clock + ClockDiffMax
              THEN queue_append_far(z)
              ELSE {[z EXCEPT !.queue = Append(@, z.next_step_clock),
                              !.next_step_clock = 0]}
  BY <1>1 DEF queue_append
<1>3. /\ Host(z, u, t, g, b, k) /\ Balance(z) = Balance(x) /\ z.sdir = d
      /\ z.next_step_clock = x.next_step_clock /\ z.next_step_dir = d
      /\ z.invert_sdir = x.invert_sdir
  BY <1>1, SetDirHost
<1>4. CASE z.next_step_clock >= z.last_step_clock + ClockDiffMax
  <2>1. y \in queue_append_far(z)
    BY <1>2, <1>4
  <2>2. z.next_step_clock # 0 /\ z.sdir = z.next_step_dir
    BY <1>3
  <2>3. /\ Host(y, u, t, g, b, k) /\ Balance(y) = Balance(z)
        /\ y.next_step_clock = 0 /\ y.invert_sdir = z.invert_sdir
    BY <1>3, <2>1, <2>2, AppendFarHost
  <2> QED BY <1>3, <2>3
<1>5. CASE ~(z.next_step_clock >= z.last_step_clock + ClockDiffMax)
  <2>1. y = [z EXCEPT !.queue = Append(@, z.next_step_clock), !.next_step_clock = 0]
    BY <1>2, <1>5
  <2>2. /\ z \in HostRecord /\ Ordered(z, g) /\ z.next_step_clock \in Nat
        /\ z.next_step_clock # 0 /\ z.last_position \in Int
    BY <1>3, HostFields DEF Host, HostOK
  <2>3. PICK clock \in Nat : clock = z.next_step_clock
    BY <2>2
  <2>4. PICK e : e = Dropped(z, d)
    OBVIOUS
  <2>5. /\ Host(e, u, t - 1, z.next_step_clock, b, k) /\ e.queue = z.queue
        /\ e.sdir = d /\ e.invert_sdir = z.invert_sdir /\ e.next_step_clock = 0
        /\ e.last_step_clock = z.last_step_clock
        /\ Balance(e) = Balance(z) - Times(z.next_step_dir, 1)
    BY <1>1, <1>3, <2>2, <2>4, DropHost
  <2>6. /\ clock <= g /\ e.last_step_clock <= clock
        /\ \A i \in 1..Len(e.queue) : e.queue[i] <= clock
    BY <2>2, <2>3, <2>5 DEF Ordered
  <2>7. y = Queued(e, clock)
    BY <1>3, <2>1, <2>2, <2>3, <2>4 DEF Queued, Dropped, HostRecord
  <2>8. /\ Host(y, u, t, clock, b, k) /\ Same(e, y)
        /\ Balance(y) = Balance(e) + Times(e.sdir, 1)
    <3>1. e.sdir \in {0, 1} /\ Host(e, u, t - 1, clock, b, k) /\ clock <= clock
      BY <1>1, <2>3, <2>5
    <3> QED BY <2>5, <2>6, <2>7, <3>1, QueuedHost
  <2>9. Host(y, u, t, g, b, k)
    BY <2>6, <2>8, HostWeaken
  <2>10. Balance(y) = Balance(x)
    <3>1. Balance(z) \in Int /\ Times(d, 1) \in Int
      <4>1. Times(z.sdir, Len(z.queue)) \in Int /\ Times(z.next_step_dir, 1) \in Int
            /\ Times(d, 1) \in Int
        BY <2>2, HostFields DEF Times
      <4> QED BY <2>2, <4>1 DEF Balance
    <3> QED BY <1>3, <2>5, <2>8, <3>1
  <2> QED BY <1>3, <2>5, <2>8, <2>9, <2>10 DEF Same
<1> QED BY <1>4, <1>5

LEMMA BalanceInt ==
  ASSUME NEW x \in HostRecord
  PROVE  /\ Balance(x) \in Int
         /\ \A d : \A n \in Int : Times(d, n) \in Int
<1>1. \A d : \A n \in Int : Times(d, n) \in Int
  BY DEF Times
<1>2. x.last_position \in Int /\ Len(x.queue) \in Int
  BY HostFields
<1>3. PICK e \in Int, f \in Int : e = Times(x.sdir, Len(x.queue))
                                  /\ f = Times(x.next_step_dir, 1)
  BY <1>1, <1>2
<1> QED BY <1>1, <1>2, <1>3 DEF Balance

(* A new step is held back. *)
Held(x, clock, dir) ==
  [x EXCEPT !.next_step_clock = clock, !.next_step_dir = dir]

LEMMA HeldHost ==
  ASSUME NEW x, NEW u \in View, NEW t \in Int, NEW g \in Nat, NEW b \in BOOLEAN,
         NEW k \in Int, Host(x, u, t, g, b, k), x.next_step_clock = 0,
         NEW clock \in Nat, clock > g, NEW dir \in Int, dir = 0 \/ dir = 1,
         NEW y, y = Held(x, clock, dir)
  PROVE  /\ Host(y, u, t + 1, clock, b, k) /\ y.invert_sdir = x.invert_sdir
         /\ Balance(y) = Balance(x) + Times(dir, 1)
<1>1. /\ x \in HostRecord /\ Ordered(x, g) /\ HostOK(x, g)
      /\ Len(x.queue) \in Nat /\ x.last_step_clock \in Nat /\ x.last_position \in Int
      /\ \A i \in 1..Len(x.queue) : x.queue[i] \in Nat
  BY HostFields, SMTT(30) DEF Host, HostOK
<1>2. /\ y \in HostRecord /\ y.queue = x.queue /\ y.sdir = x.sdir
      /\ y.next_step_clock = clock /\ y.next_step_dir = dir
      /\ y.invert_sdir = x.invert_sdir /\ y.last_step_clock = x.last_step_clock
      /\ y.last_position = x.last_position /\ y.msg_queue = x.msg_queue
  <2>1. dir \in {0, 1}
    OBVIOUS
  <2> QED BY <1>1, <2>1 DEF HostRecord, Held
<1>3. HostOK(y, clock)
  <2>1. /\ x.last_step_clock <= g
        /\ \A i \in 1..Len(x.queue) : /\ x.last_step_clock <= x.queue[i]
                                      /\ x.queue[i] <= g
        /\ \A i, j \in 1..Len(x.queue) : i <= j => x.queue[i] <= x.queue[j]
    BY <1>1 DEF Ordered
  <2>2. /\ x.last_step_clock <= clock
        /\ \A i \in 1..Len(x.queue) : x.queue[i] <= clock
    BY <1>1, <2>1
  <2>3. Ordered(y, clock)
    <3> DEFINE n == Len(x.queue)
    <3>1. /\ y.last_step_clock <= clock /\ Len(y.queue) = n
          /\ y.last_step_clock <= y.next_step_clock /\ y.next_step_clock <= clock
      BY <1>2, <2>2
    <3>2. \A i \in 1..n : /\ y.last_step_clock <= y.queue[i] /\ y.queue[i] <= clock
                          /\ y.queue[i] <= y.next_step_clock
      BY <1>2, <2>1, <2>2
    <3>3. \A i, j \in 1..n : i <= j => y.queue[i] <= y.queue[j]
      BY <1>2, <2>1
    <3> HIDE DEF n
    <3> QED BY <3>1, <3>2, <3>3, SMTT(30) DEF Ordered
  <2> QED BY <1>1, <1>2, <2>3 DEF HostOK
<1>4. PICK w : Goes(x, u, w, b, k) /\ w.used + Waits(x) <= t
  BY DEF Host
<1>5. Goes(y, u, w, b, k)
  <2>1. HostDir(y) = HostDir(x) /\ HostPlace(y, w) = HostPlace(x, w)
    BY <1>2 DEF HostDir, HostPlace
  <2> QED BY <1>2, <1>4, <2>1 DEF Goes
<1>6. w.used + Waits(y) <= t + 1
  <2>1. Waits(y) = Waits(x) + 1 /\ Waits(x) \in Int
    <3>1. clock # 0
      OBVIOUS
    <3>2. y.next_step_clock # 0 /\ Len(y.queue) = Len(x.queue)
      BY <1>2, <3>1
    <3> QED BY <1>1, <3>2 DEF Waits
  <2>2. w.used \in Int
    BY <1>4 DEF Goes, View
  <2> QED BY <1>4, <2>1, <2>2
<1>7. Balance(y) = Balance(x) + Times(dir, 1)
  <2>1. PICK e \in Int, f \in Int : e = Times(x.sdir, Len(x.queue))
                                    /\ f = Times(dir, 1)
    BY <1>1, BalanceInt
  <2>2. Balance(y) = x.last_position + e + f /\ Balance(x) = x.last_position + e + 0
    BY <1>1, <1>2, <2>1 DEF Balance
  <2> QED BY <1>1, <2>1, <2>2
<1> QED BY <1>2, <1>3, <1>5, <1>6, <1>7 DEF Host

(* stepcompress_append: one more step of the plan, at clock. *)
LEMMA AppendStepHost ==
  ASSUME NEW x, NEW u \in View, NEW t \in Int, NEW g \in Nat, NEW b \in BOOLEAN,
         NEW k \in Int, Host(x, u, t, g, b, k), g < Forever,
         NEW clock \in Nat, clock > g, NEW dir \in Int, dir = 0 \/ dir = 1,
         NEW y \in stepcompress_append(x, dir, clock)
  PROVE  /\ Host(y, u, t + 1, clock, b, k) /\ y.invert_sdir = x.invert_sdir
         /\ Balance(y) = Balance(x) + Times(dir, 1)
<1>1. /\ x \in HostRecord /\ Ordered(x, g) /\ x.next_step_clock \in Nat
      /\ x.next_step_dir \in {0, 1}
  BY HostFields DEF Host, HostOK
<1> DEFINE cancels == /\ x.next_step_clock # 0 /\ dir # x.next_step_dir
                      /\ clock - x.next_step_clock < SdsFilter
<1>2. CASE cancels
  <2>1. y = Dropped(x, dir)
    BY <1>2 DEF stepcompress_append, Dropped
  <2>2. PICK c \in Nat : c = x.next_step_clock
    BY <1>1
  <2>3. /\ Host(y, u, t - 1, x.next_step_clock, b, k)
        /\ y.invert_sdir = x.invert_sdir
        /\ Balance(y) = Balance(x) - Times(x.next_step_dir, 1)
    BY <1>2, <2>1, DropHost
  <2>4. Host(y, u, t + 1, clock, b, k)
    <3>1. c <= clock
      BY <1>1, <1>2, <2>2 DEF Ordered
    <3>2. PICK s \in Int, r \in Int : s = t - 1 /\ r = t + 1 /\ s <= r
      OBVIOUS
    <3>3. Host(y, u, s, c, b, k)
      BY <2>2, <2>3, <3>2
    <3>4. Host(y, u, r, clock, b, k)
      BY <3>1, <3>2, <3>3, HostWeaken
    <3> QED BY <3>2, <3>4
  <2>5. Times(dir, 1) = - Times(x.next_step_dir, 1)
    BY <1>1, <1>2 DEF Times
  <2>6. Balance(x) \in Int /\ Times(x.next_step_dir, 1) \in Int
    BY <1>1, BalanceInt
  <2> QED BY <2>3, <2>4, <2>5, <2>6
<1>3. CASE ~cancels
  <2>1. PICK e \in IF x.next_step_clock # 0 THEN queue_append(x) ELSE {x} :
          y = Held(e, clock, dir)
    BY <1>3 DEF stepcompress_append, Held
  <2>2. /\ Host(e, u, t, g, b, k) /\ Balance(e) = Balance(x)
        /\ e.next_step_clock = 0 /\ e.invert_sdir = x.invert_sdir
    <3>1. CASE x.next_step_clock # 0
      <4>1. e \in queue_append(x)
        BY <2>1, <3>1
      <4> QED BY <3>1, <4>1, AppendHost
    <3>2. CASE ~(x.next_step_clock # 0)
      BY <2>1, <3>2
    <3> QED BY <3>1, <3>2
  <2>3. /\ Host(y, u, t + 1, clock, b, k) /\ y.invert_sdir = e.invert_sdir
        /\ Balance(y) = Balance(e) + Times(dir, 1)
    BY <2>1, <2>2, HeldHost
  <2> QED BY <2>2, <2>3
<1> QED BY <1>2, <1>3

(* stepcompress_flush. *)
LEMMA FlushHost ==
  ASSUME NEW x, NEW u \in View, NEW t \in Int, NEW g \in Nat, NEW b \in BOOLEAN,
         NEW k \in Int, Host(x, u, t, g, b, k), g < Forever,
         NEW move_clock, NEW y \in stepcompress_flush(x, move_clock)
  PROVE  /\ Host(y, u, t, g, b, k) /\ Balance(y) = Balance(x)
         /\ y.invert_sdir = x.invert_sdir
         /\ move_clock = Forever => y.queue = <<>> /\ y.next_step_clock = 0
<1>1. /\ x \in HostRecord /\ Ordered(x, g) /\ x.next_step_clock \in Nat
  BY HostFields DEF Host, HostOK
<1>2. CASE x.next_step_clock # 0 /\ move_clock >= x.next_step_clock
  <2>1. PICK e \in queue_append(x) : y \in queue_flush(e, move_clock)
    BY <1>2 DEF stepcompress_flush
  <2>2. /\ Host(e, u, t, g, b, k) /\ Balance(e) = Balance(x)
        /\ e.next_step_clock = 0 /\ e.invert_sdir = x.invert_sdir
    BY <1>2, <2>1, AppendHost
  <2>3. /\ Host(y, u, t, g, b, k) /\ Balance(y) = Balance(e) /\ Same(e, y)
    BY <2>1, <2>2, QueueFlushHost
  <2>4. ASSUME move_clock = Forever PROVE y.queue = <<>>
    BY <2>1, <2>2, <2>4, FlushAll
  <2> QED BY <2>2, <2>3, <2>4 DEF Same
<1>3. CASE ~(x.next_step_clock # 0 /\ move_clock >= x.next_step_clock)
  <2>1. y \in queue_flush(x, move_clock)
    BY <1>3 DEF stepcompress_flush
  <2>2. /\ Host(y, u, t, g, b, k) /\ Balance(y) = Balance(x) /\ Same(x, y)
    BY <2>1, QueueFlushHost
  <2>3. ASSUME move_clock = Forever PROVE y.queue = <<>> /\ y.next_step_clock = 0
    <3>1. y.queue = <<>>
      <4>1. y \in queue_flush(x, Forever)
        BY <2>1, <2>3
      <4>2. Host(x, u, t, g, b, k) /\ g < Forever
        OBVIOUS
      <4>3. Host(y, u, t, g, b, k) /\ Balance(y) = Balance(x) /\ Same(x, y)
            /\ y.queue = <<>>
        BY <4>1, <4>2, FlushAll, SMTT(30)
      <4> QED BY <4>3
    <3>2. x.next_step_clock = 0
      <4>1. x.next_step_clock # 0 => x.next_step_clock <= g
        BY <1>1 DEF Ordered
      <4>2. Forever \in Nat
        BY StepCompressAssumption
      <4> QED BY <1>1, <1>3, <2>3, <4>1, <4>2
    <3> QED BY <2>2, <3>1, <3>2 DEF Same
  <2> QED BY <2>2, <2>3 DEF Same
<1> QED BY <1>2, <1>3

(* MCU_stepper.note_homing_end: what was planned is dropped on the way, and the
   command that makes the motor listen again is queued. *)
Resetting(x, u, t, g, b) ==
  Host(x, u, t, g, b, 0) /\ g < Forever /\ u.stopped = TRUE /\ u.resets = 0

ResetTo(x, z) ==
  \E y \in stepcompress_reset(x, 0) :
     z \in stepcompress_queue_msg(y, "reset_step_clock", 0)

WasReset(z, u, g) == Host(z, u, u.used, g, FALSE, 1)

LEMMA ResetHost ==
  ASSUME NEW x, NEW u \in View, NEW t \in Int, NEW g \in Nat, NEW b \in BOOLEAN,
         Resetting(x, u, t, g, b), NEW z, ResetTo(x, z)
  PROVE  WasReset(z, u, g)
<1>1. Host(x, u, t, g, b, 0) /\ g < Forever /\ u.stopped = TRUE /\ u.resets = 0
  BY DEF Resetting
<1>2. PICK y \in stepcompress_reset(x, 0) :
        z \in stepcompress_queue_msg(y, "reset_step_clock", 0)
  BY DEF ResetTo
<1>3. PICK f \in stepcompress_flush(x, Forever) :
        y = [f EXCEPT !.last_step_clock = 0, !.sdir = -1]
  BY <1>2 DEF stepcompress_reset
<1>4. /\ Host(f, u, t, g, b, 0) /\ f.queue = <<>> /\ f.next_step_clock = 0
      /\ f.invert_sdir = x.invert_sdir
  <2>1. PICK k \in Int : k = 0
    OBVIOUS
  <2>2. Host(x, u, t, g, b, k) /\ g < Forever
    BY <1>1, <2>1
  <2>3. /\ Host(f, u, t, g, b, k) /\ f.queue = <<>> /\ f.next_step_clock = 0
        /\ f.invert_sdir = x.invert_sdir
    BY <1>3, <2>2, FlushHost
  <2> QED BY <2>1, <2>3
<1>5. f \in HostRecord
  BY <1>4 DEF Host, HostOK
<1>6. /\ y \in HostRecord /\ y.queue = <<>> /\ y.next_step_clock = 0 /\ y.sdir = -1
      /\ y.last_step_clock = 0 /\ y.msg_queue = f.msg_queue
      /\ y.invert_sdir = x.invert_sdir
  <2>1. 0 \in Nat /\ -1 \in {-1, 0, 1}
    OBVIOUS
  <2> QED BY <1>3, <1>4, <1>5, <2>1 DEF HostRecord
<1>7. PICK w : Goes(f, u, w, b, 0) /\ w.used + Waits(f) <= t
  BY <1>4 DEF Host
<1>8. HostOK(y, g)
  <2>1. Ordered(y, g)
    BY <1>6 DEF Ordered
  <2> QED BY <1>6, <2>1 DEF HostOK
<1>9. Waits(f) = 0 /\ Waits(y) = 0
  BY <1>4, <1>6 DEF Waits
<1>10. Host(y, u, t, g, FALSE, 0)
  <2>1. Goes(y, u, w, FALSE, 0)
    BY <1>6, <1>7 DEF Goes
  <2> QED BY <1>7, <1>8, <1>9, <2>1 DEF Host
<1>11. PICK e \in stepcompress_flush(y, Forever) :
        z = [e EXCEPT !.msg_queue =
               Append(@, Message("reset_step_clock", 0, 0, e.last_step_clock))]
  BY <1>2 DEF stepcompress_queue_msg
<1>12. e = y
  <2>1. e \in queue_flush(y, Forever)
    BY <1>6, <1>11 DEF stepcompress_flush
  <2>2. y.queue = <<>> => e = y
    <3>1. FALSE \in BOOLEAN /\ 0 \in Int
      OBVIOUS
    <3> QED BY <1>10, <2>1, <3>1, QueueFlushHost
  <2> QED BY <1>6, <2>2
<1>13. PICK m : m = Message("reset_step_clock", 0, 0, 0)
  OBVIOUS
<1>14. m \in Msg
  <2>1. m = [kind |-> "reset_step_clock", arg |-> 0, min_clock |-> 0, req_clock |-> 0]
    BY <1>13 DEF Message
  <2>2. GoodMessage(m)
    BY <2>1 DEF GoodMessage
  <2>3. m \in [kind : {"queue_step", "set_next_step_dir", "reset_step_clock"},
               arg : Move \cup {0, 1}, min_clock : Nat, req_clock : Nat]
    BY <2>1
  <2> QED BY <2>2, <2>3 DEF Msg
<1>15. PICK q : q = Append(y.msg_queue, m)
  OBVIOUS
<1>16. z = [y EXCEPT !.msg_queue = q]
  BY <1>6, <1>11, <1>12, <1>13, <1>15
<1>17. PICK w2 : w2 = Apply(w, CommandOf(m))
  OBVIOUS
<1>18. q \in Seq(Msg) /\ w2 \in View /\ Runs(Commands(q), u, w2)
  BY <1>6, <1>7, <1>14, <1>15, <1>17, SentRuns DEF Goes
<1>19. /\ z \in HostRecord /\ z.queue = <<>> /\ z.next_step_clock = 0 /\ z.sdir = -1
       /\ z.last_step_clock = 0 /\ z.msg_queue = q
       /\ z.invert_sdir = x.invert_sdir
  BY <1>6, <1>16, <1>18 DEF HostRecord
<1>20. HostOK(z, g)
  <2>1. Ordered(z, g)
    BY <1>19 DEF Ordered
  <2> QED BY <1>19, <2>1 DEF HostOK
<1>21. w.used = u.used /\ w.resets = 0
  <2>1. /\ f.msg_queue \in Seq(Msg)
    BY <1>5, HostFields
  <2>2. PICK c : c = Commands(f.msg_queue)
    OBVIOUS
  <2>3. c \in Seq(Command) /\ \A i \in 1..Len(c) : c[i].kind # "load"
    BY <2>1, <2>2, CommandsType
  <2>4. Runs(c, u, w) /\ w.resets = 0
    BY <1>7, <2>2 DEF Goes
  <2> QED BY <1>1, <2>3, <2>4, RunsProps
<1>22. CommandOf(m).kind = "reset_step_clock"
  BY <1>13 DEF CommandOf, Message
<1>23. w2.used = w.used /\ w2.resets = w.resets + 1 /\ w2.stopped = FALSE
  BY <1>17, <1>22 DEF Apply, Moves
<1>24. Goes(z, u, w2, FALSE, 1)
  BY <1>18, <1>19, <1>21, <1>23 DEF Goes
<1>25. Waits(z) = 0 /\ w2.used \in Int /\ w2.used + 0 = w2.used
  BY <1>18, <1>19 DEF Waits, View
<1>26. w2.used + Waits(z) <= u.used
  BY <1>21, <1>23, <1>25
<1>27. Host(z, u, u.used, g, FALSE, 1)
  BY Zenon, <1>20, <1>24, <1>26 DEF Host
<1> QED BY <1>27 DEF WasReset

(* stepcompress_set_last_position: with nothing under way that takes a step,
   the host knows the motor's place again. *)
LEMMA KnownHost ==
  ASSUME NEW x, NEW u \in View, NEW g \in Nat, NEW v \in View, NEW c \in Seq(Command),
         Runs(c, v, u), Host(x, u, v.used, g, FALSE, 1), g < Forever,
         NEW clock \in Nat, NEW t \in Int, v.used <= t,
         NEW y \in stepcompress_set_last_position(x, clock, HostPlace(x, v))
  PROVE  Host(y, u, t, g, TRUE, 1) /\ y.invert_sdir = x.invert_sdir
<1> DEFINE p == HostPlace(x, v)
<1>1. PICK e \in stepcompress_flush(x, Forever) :
        y = [e EXCEPT !.last_position = p,
                      !.history = <<Marker(clock, p)>> \o @]
  BY DEF stepcompress_set_last_position
<1>2. v.used \in Int /\ v.place \in Int
  BY DEF View
<1>3. /\ Host(e, u, v.used, g, FALSE, 1) /\ e.queue = <<>> /\ e.next_step_clock = 0
      /\ e.invert_sdir = x.invert_sdir
  <2>1. PICK s \in Int : s = v.used
    BY <1>2
  <2>2. PICK k \in Int : k = 1
    OBVIOUS
  <2>3. PICK b \in BOOLEAN : b = FALSE
    OBVIOUS
  <2>4. Host(x, u, s, g, b, k)
    BY <2>1, <2>2, <2>3, Zenon
  <2>5. /\ Host(e, u, s, g, b, k) /\ e.queue = <<>> /\ e.next_step_clock = 0
        /\ e.invert_sdir = x.invert_sdir
    BY <1>1, <2>4, FlushHost
  <2> QED BY <2>1, <2>2, <2>3, <2>5, Zenon
<1>4. PICK w : Goes(e, u, w, FALSE, 1) /\ w.used + Waits(e) <= v.used
  BY <1>3 DEF Host
<1>5. e \in HostRecord /\ e.history \in Seq(HistoryEntry) /\ e.msg_queue \in Seq(Msg)
  BY <1>3, HostFields DEF Host, HostOK
<1>6. p \in Int
  BY <1>2 DEF HostPlace
<1>7. w.place = v.place
  <2>1. PICK d : d = Commands(e.msg_queue)
    OBVIOUS
  <2>2. d \in Seq(Command) /\ Runs(d, u, w)
    BY <1>4, <1>5, <2>1, CommandsType DEF Goes
  <2>3. w \in View /\ u.used <= w.used /\ (u.used = w.used => u.place = w.place)
    BY <2>2, RunsProps
  <2>4. v.used <= u.used /\ (v.used = u.used => v.place = u.place)
    BY RunsProps
  <2>5. Waits(e) = 0
    BY <1>3 DEF Waits
  <2>6. u.used \in Int /\ w.used \in Int
    BY <2>3 DEF View
  <2>7. w.used = u.used /\ u.used = v.used
    BY <1>2, <1>4, <2>3, <2>4, <2>5, <2>6
  <2> QED BY <2>3, <2>4, <2>7
<1>8. PICK h : h = <<Marker(clock, p)>> \o e.history
  OBVIOUS
<1>9. h \in Seq(HistoryEntry)
  <2>1. Marker(clock, p) \in HistoryEntry
    BY <1>6 DEF Marker, HistoryEntry
  <2>2. <<Marker(clock, p)>> \in Seq(HistoryEntry)
    BY <2>1
  <2> QED BY <1>5, <1>8, <2>2
<1>10. y = [e EXCEPT !.last_position = p, !.history = h]
  BY <1>1, <1>8
<1> HIDE DEF p
<1>11. /\ y \in HostRecord /\ y.queue = <<>> /\ y.next_step_clock = 0
       /\ y.sdir = e.sdir /\ y.invert_sdir = x.invert_sdir
       /\ y.last_step_clock = e.last_step_clock /\ y.msg_queue = e.msg_queue
       /\ y.last_position = p
  BY <1>3, <1>5, <1>6, <1>9, <1>10 DEF HostRecord
<1>12. HostOK(y, g)
  <2>1. e.last_step_clock <= g
    BY <1>3 DEF Host, HostOK, Ordered
  <2>2. Ordered(y, g)
    BY <1>11, <2>1 DEF Ordered
  <2> QED BY <1>11, <2>2 DEF HostOK
<1>13. Goes(y, u, w, TRUE, 1)
  <2>1. HostPlace(y, w) = p
    BY <1>7, <1>11 DEF HostPlace, p
  <2>2. HostDir(y) = HostDir(e)
    BY <1>3, <1>11 DEF HostDir
  <2> QED BY <1>4, <1>11, <2>1, <2>2 DEF Goes
<1>14. w.used + Waits(y) <= t
  <2>1. Waits(y) = 0 /\ Waits(e) = 0
    BY <1>3, <1>11 DEF Waits
  <2>2. w.used \in Int
    BY <1>4 DEF Goes, View
  <2> QED BY <1>2, <1>4, <2>1, <2>2
<1> QED BY <1>11, <1>12, <1>13, <1>14 DEF Host


LEMMA UpToOne ==
  ASSUME NEW n \in Nat
  PROVE  /\ IsFiniteSet(1..n) /\ IsFiniteSet(1..(n + 1))
         /\ (1..(n + 1)) \ {n + 1} = 1..n /\ n + 1 \in 1..(n + 1)
         /\ 1..n \in SUBSET (1..(n + 1))
<1>1. \A i \in Nat : IsFiniteSet(1..i)
  BY FS_Interval
<1>2. n + 1 \in Nat
  OBVIOUS
<1>3. IsFiniteSet(1..n) /\ IsFiniteSet(1..(n + 1))
  BY <1>1, <1>2
<1>4. (1..(n + 1)) \ {n + 1} = 1..n /\ n + 1 \in 1..(n + 1)
      /\ 1..n \in SUBSET (1..(n + 1))
  OBVIOUS
<1> QED BY <1>3, <1>4

(* One more step adds its gap, *)
LEMMA GapsStep ==
  ASSUME NEW n \in Nat, NEW p, NEW d, \A k \in 1..(n + 1) : p[d + k].gap \in Int
  PROVE  /\ GapsTo(p, d, n + 1) = GapsTo(p, d, n) + p[d + (n + 1)].gap
         /\ GapsTo(p, d, n) \in Int /\ GapsTo(p, d, n + 1) \in Int
<1> DEFINE w == [k \in 1..n |-> p[d + k].gap]
           v == [k \in 1..(n + 1) |-> p[d + k].gap]
           D == 1..n
           E == 1..(n + 1)
<1>1. /\ IsFiniteSet(D) /\ IsFiniteSet(E) /\ E \ {n + 1} = D /\ n + 1 \in E
      /\ D \in SUBSET E
  BY UpToOne
<1>2. PICK f : IsSum(f, w, D) /\ GapsTo(p, d, n) = f[D]
  <2>1. \A k \in 1..n : p[d + k].gap \in Int
    OBVIOUS
  <2> QED BY <1>1, <2>1, GapsAreSum
<1>3. PICK h : IsSum(h, v, E) /\ GapsTo(p, d, n + 1) = h[E]
  <2>1. n + 1 \in Nat
    OBVIOUS
  <2> QED BY <1>1, <2>1, GapsAreSum
<1>4. /\ w \in [D -> Int] /\ v \in [E -> Int] /\ v[n + 1] = p[d + (n + 1)].gap
      /\ \A x \in D : w[x] = v[x]
  BY <1>1
<1> HIDE DEF w, v, D, E
<1>5. h[E] = v[n + 1] + h[D]
  <2>1. E \in SUBSET E
    OBVIOUS
  <2>2. h[E] = v[n + 1] + h[E \ {n + 1}]
    BY <1>1, <1>3, <1>4, <2>1, SumSplit
  <2> QED BY <1>1, <2>2
<1>6. f[D] = h[D]
  <2>1. D \in SUBSET D
    OBVIOUS
  <2> QED BY <1>1, <1>2, <1>3, <1>4, <2>1, SumSame
<1>7. f[D] \in Int /\ h[E] \in Int
  <2>1. D \in SUBSET D /\ E \in SUBSET E
    OBVIOUS
  <2> QED BY <1>1, <1>2, <1>3, <1>4, <2>1, SumInt
<1>8. v[n + 1] \in Int
  BY <1>1, <1>4
<1> QED BY <1>2, <1>3, <1>4, <1>5, <1>6, <1>7, <1>8

LEMMA GapsNone ==
  ASSUME NEW p, NEW d
  PROVE  GapsTo(p, d, 0) = 0
<1> DEFINE D == 1..0
           w == [k \in 1..0 |-> p[d + k].gap]
<1>1. D = {} /\ IsFiniteSet(D)
  BY FS_EmptySet
<1>2. PICK f : IsSum(f, w, D) /\ GapsTo(p, d, 0) = f[D]
  BY <1>1, GapsAreSum
<1> HIDE DEF w
<1>3. \A x \in D : w[x] = 0
  BY <1>1
<1> HIDE DEF D
<1> QED BY <1>1, <1>2, <1>3, SumZero
(* and one way or the other. *)
LEMMA WaysStep ==
  ASSUME NEW n \in Nat, NEW p, \A k \in 1..(n + 1) : Way(p[k].dir) \in Int
  PROVE  /\ WaysTo(p, n + 1) = WaysTo(p, n) + Way(p[n + 1].dir)
         /\ WaysTo(p, n) \in Int /\ WaysTo(p, n + 1) \in Int
<1> DEFINE w == [k \in 1..n |-> Way(p[k].dir)]
           v == [k \in 1..(n + 1) |-> Way(p[k].dir)]
           D == 1..n
           E == 1..(n + 1)
<1>1. /\ IsFiniteSet(D) /\ IsFiniteSet(E) /\ E \ {n + 1} = D /\ n + 1 \in E
      /\ D \in SUBSET E
  BY UpToOne
<1>2. PICK f : IsSum(f, w, D) /\ WaysTo(p, n) = f[D]
  <2>1. \A k \in 1..n : Way(p[k].dir) \in Int
    OBVIOUS
  <2> QED BY <1>1, <2>1, WaysAreSum
<1>3. PICK h : IsSum(h, v, E) /\ WaysTo(p, n + 1) = h[E]
  <2>1. n + 1 \in Nat
    OBVIOUS
  <2> QED BY <1>1, <2>1, WaysAreSum
<1>4. /\ w \in [D -> Int] /\ v \in [E -> Int] /\ v[n + 1] = Way(p[n + 1].dir)
      /\ \A x \in D : w[x] = v[x]
  BY <1>1
<1> HIDE DEF w, v, D, E
<1>5. h[E] = v[n + 1] + h[D]
  <2>1. E \in SUBSET E
    OBVIOUS
  <2>2. h[E] = v[n + 1] + h[E \ {n + 1}]
    BY <1>1, <1>3, <1>4, <2>1, SumSplit
  <2> QED BY <1>1, <2>2
<1>6. f[D] = h[D]
  <2>1. D \in SUBSET D
    OBVIOUS
  <2> QED BY <1>1, <1>2, <1>3, <1>4, <2>1, SumSame
<1>7. f[D] \in Int /\ h[E] \in Int
  <2>1. D \in SUBSET D /\ E \in SUBSET E
    OBVIOUS
  <2> QED BY <1>1, <1>2, <1>3, <1>4, <2>1, SumInt
<1>8. v[n + 1] \in Int
  BY <1>1, <1>4
<1> QED BY <1>2, <1>3, <1>4, <1>5, <1>6, <1>7, <1>8

LEMMA WaysNone ==
  ASSUME NEW p
  PROVE  WaysTo(p, 0) = 0
<1> DEFINE D == 1..0
           w == [k \in 1..0 |-> Way(p[k].dir)]
<1>1. D = {} /\ IsFiniteSet(D)
  BY FS_EmptySet
<1>2. PICK f : IsSum(f, w, D) /\ WaysTo(p, 0) = f[D]
  BY <1>1, WaysAreSum
<1> HIDE DEF w
<1>3. \A x \in D : w[x] = 0
  BY <1>1
<1> HIDE DEF D
<1> QED BY <1>1, <1>2, <1>3, SumZero


LEMMA MaxOfThree ==
  ASSUME NEW a \in Nat, NEW b \in Nat, NEW c \in Nat
  PROVE  /\ Max({a, b, c}) \in Nat /\ a <= Max({a, b, c})
         /\ b <= Max({a, b, c}) /\ c <= Max({a, b, c})
<1>1. \E x \in {a, b, c} : \A y \in {a, b, c} : x >= y
  OBVIOUS
<1>2. Max({a, b, c}) \in {a, b, c} /\ \A y \in {a, b, c} : Max({a, b, c}) >= y
  BY <1>1 DEF Max
<1> QED BY <1>2

(* The steps that are generated are after everything that was, one after the
   other. *)
LEMMA StepClocks ==
  ASSUME NEW o, NEW n \in Nat, generated[o] \in Nat, flushed \in Nat, now \in Nat,
         \A k \in 1..n : scenario.plan[o][steps[o] + k].gap \in Nat \ {0}
  PROVE  /\ \A k \in 0..n : /\ StepClock(o, k) \in Nat
                            /\ generated[o] + k <= StepClock(o, k)
                            /\ StepClock(o, k) <= StepClock(o, n)
         /\ \A k \in 0..(n - 1) : StepClock(o, k) < StepClock(o, k + 1)
<1> DEFINE p == scenario.plan[o]
           d == steps[o]
           base == Max({generated[o], flushed, now})
           c(k) == StepClock(o, k)
<1>1. base \in Nat /\ generated[o] <= base
  BY MaxOfThree
<1>2. ASSUME NEW k PROVE c(k) = base + GapsTo(p, d, k)
  BY DEF StepClock, GapsTo
<1> HIDE DEF base, c, p
<1>3. ASSUME NEW k \in 0..(n - 1)
      PROVE  /\ GapsTo(p, d, k + 1) = GapsTo(p, d, k) + p[d + (k + 1)].gap
             /\ p[d + (k + 1)].gap \in Nat \ {0}
             /\ GapsTo(p, d, k) \in Int /\ GapsTo(p, d, k + 1) \in Int
  <2>1. k \in Nat /\ k + 1 \in 1..n /\ \A i \in 1..(k + 1) : i \in 1..n
    OBVIOUS
  <2>2. \A i \in 1..n : p[d + i].gap \in Nat \ {0}
    BY DEF p
  <2>3. \A i \in 1..(k + 1) : p[d + i].gap \in Int
    BY <2>1, <2>2
  <2> HIDE DEF d
  <2>4. /\ GapsTo(p, d, k + 1) = GapsTo(p, d, k) + p[d + (k + 1)].gap
        /\ GapsTo(p, d, k) \in Int /\ GapsTo(p, d, k + 1) \in Int
    BY <2>1, <2>3, GapsStep
  <2> QED BY <2>1, <2>2, <2>4
<1> DEFINE S == {i \in 0..n : /\ c(i) \in Nat /\ generated[o] + i <= c(i)
                              /\ \A j \in 0..i : c(j) <= c(i)}
<1>4. 0 \in S
  <2>1. c(0) = base + 0
    BY <1>2, GapsNone
  <2>2. \A j \in 0..0 : j = 0
    OBVIOUS
  <2>3. c(0) \in Nat /\ generated[o] + 0 <= c(0)
    BY <1>1, <2>1
  <2>4. \A j \in 0..0 : c(j) <= c(0)
    BY <2>2, <2>3
  <2>5. 0 \in 0..n
    OBVIOUS
  <2> QED BY <2>3, <2>4, <2>5
<1>5. ASSUME NEW i \in 0..(n - 1), i \in S
      PROVE  i + 1 \in S /\ c(i) < c(i + 1)
  <2>1. i + 1 \in 0..n /\ i \in Nat
    OBVIOUS
  <2>2. PICK e \in Nat \ {0} : e = p[d + (i + 1)].gap
    BY <1>3
  <2>3. PICK a \in Int : a = GapsTo(p, d, i)
    BY <1>3
  <2>4. c(i) = base + a /\ c(i + 1) = base + (a + e)
    BY <1>2, <1>3, <2>2, <2>3
  <2>5. c(i) \in Nat /\ generated[o] + i <= c(i) /\ \A j \in 0..i : c(j) <= c(i)
    BY <1>5
  <2>6. c(i + 1) = c(i) + e
    BY <1>1, <2>4
  <2>7. c(i + 1) \in Nat /\ generated[o] + (i + 1) <= c(i + 1) /\ c(i) < c(i + 1)
    BY <2>1, <2>5, <2>6
  <2>8. \A j \in 0..i : c(j) <= c(i + 1)
    <3> SUFFICES ASSUME NEW j \in 0..i PROVE c(j) <= c(i + 1)
      OBVIOUS
    <3>1. j \in 0..n /\ c(j) <= c(i)
      BY <2>1, <2>5
    <3>2. c(j) = base + GapsTo(p, d, j) /\ GapsTo(p, d, j) \in Int
      <4>1. j \in 0..(n - 1)
        BY <2>1
      <4> QED BY <1>2, <1>3, <4>1
    <3> QED BY <1>1, <2>5, <2>7, <3>1, <3>2
  <2>9. \A j \in 0..(i + 1) : j \in 0..i \/ j = i + 1
    BY <2>1
  <2>10. \A j \in 0..(i + 1) : c(j) <= c(i + 1)
    BY <2>7, <2>8, <2>9
  <2> QED BY <2>1, <2>7, <2>10
<1> HIDE DEF S
<1>6. \A i \in 0..n : i \in S
  <2>1. \A i \in 0..(n - 1) : i \in S => i + 1 \in S
    BY <1>5
  <2> QED BY <1>4, <2>1, UpTo
<1>7. n \in S
  BY <1>6
<1>8. \A i \in 0..n : c(i) \in Nat /\ generated[o] + i <= c(i) /\ c(i) <= c(n)
  BY <1>6, <1>7 DEF S
<1>9. \A i \in 0..(n - 1) : c(i) < c(i + 1)
  <2>1. \A i \in 0..(n - 1) : i \in 0..n
    OBVIOUS
  <2> QED BY <1>5, <1>6, <2>1
<1> QED BY <1>8, <1>9 DEF c

(* The steps are appended one after the other. *)
GenerateOne(X, o, k) ==
  UNION {stepcompress_append(x, scenario.plan[o][steps[o] + k].dir, StepClock(o, k)) :
           x \in X}
IsGenerate(f, o, n) ==
  f = [k \in 0..n |-> IF k = 0 THEN {sc[o]} ELSE GenerateOne(f[k - 1], o, k)]

LEMMA GenerateExists ==
  ASSUME NEW o, NEW n \in Nat
  PROVE  \E f : IsGenerate(f, o, n)
<1> DEFINE E(X, i) == GenerateOne(X, o, i)
           x == sc[o]
           Up(f, i) == /\ f = [j \in 0..i |-> f[j]] /\ f[0] = {x}
                       /\ \A j \in 1..i : f[j] = E(f[j - 1], j)
           S == {i \in 0..n : \E f : Up(f, i)}
<1> HIDE DEF E
<1>1. 0 \in S
  <2> DEFINE f == [j \in 0..0 |-> {x}]
  <2>1. f = [j \in 0..0 |-> f[j]] /\ f[0] = {x} /\ 1..0 = {}
    OBVIOUS
  <2> HIDE DEF f
  <2>2. Up(f, 0)
    BY <2>1
  <2> HIDE DEF Up
  <2> QED BY <2>2
<1>2. ASSUME NEW i \in 0..(n - 1), i \in S
      PROVE  i + 1 \in S
  <2>1. PICK f : Up(f, i)
    BY <1>2
  <2>2. i \in Nat /\ i + 1 \in 0..n /\ i \in 0..i
    OBVIOUS
  <2> DEFINE g == [j \in 0..(i + 1) |-> IF j = i + 1 THEN E(f[i], i + 1) ELSE f[j]]
  <2>3. /\ g = [j \in 0..(i + 1) |-> g[j]] /\ g[i + 1] = E(f[i], i + 1)
        /\ \A j \in 0..i : g[j] = f[j]
    BY <2>2
  <2> HIDE DEF g
  <2>4. \A j \in 1..(i + 1) : g[j] = E(g[j - 1], j)
    <3> SUFFICES ASSUME NEW j \in 1..(i + 1) PROVE g[j] = E(g[j - 1], j)
      OBVIOUS
    <3>1. CASE j = i + 1
      <4>1. j - 1 = i
        BY <2>2, <3>1
      <4> QED BY <2>2, <2>3, <3>1, <4>1
    <3>2. CASE j # i + 1
      <4>1. j \in 1..i /\ j - 1 \in 0..i /\ j \in 0..i
        BY <2>2, <3>2
      <4> QED BY <2>1, <2>3, <4>1
    <3> QED BY <3>1, <3>2
  <2>5. 0 \in 0..i
    BY <2>2
  <2>6. Up(g, i + 1)
    BY <2>1, <2>3, <2>4, <2>5
  <2> HIDE DEF Up
  <2> QED BY <2>2, <2>6
<1> HIDE DEF S
<1>3. n \in S
  <2>1. \A i \in 0..n : i \in S
    BY <1>1, <1>2, UpTo
  <2> QED BY <2>1
<1>4. PICK f : Up(f, n)
  BY <1>3 DEF S
<1>5. f = [k \in 0..n |-> IF k = 0 THEN {x} ELSE E(f[k - 1], k)]
  <2> DEFINE g == [k \in 0..n |-> IF k = 0 THEN {x} ELSE E(f[k - 1], k)]
  <2>1. \A k \in 0..n : f[k] = g[k]
    <3> SUFFICES ASSUME NEW k \in 0..n PROVE f[k] = g[k]
      OBVIOUS
    <3>1. k = 0 \/ k \in 1..n
      OBVIOUS
    <3> QED BY <1>4, <3>1
  <2>2. g = [k \in 0..n |-> g[k]] /\ f = [k \in 0..n |-> f[k]]
    BY <1>4
  <2> HIDE DEF g
  <2> QED BY <2>1, <2>2 DEF g
<1> QED BY <1>5 DEF IsGenerate, E

LEMMA GenerateIs ==
  ASSUME NEW o, NEW n \in Nat
  PROVE  \E f : IsGenerate(f, o, n) /\ Generate(o, n) = f[n]
<1> DEFINE B(f) == [k \in 0..n |->
                      IF k = 0 THEN {sc[o]}
                      ELSE UNION {stepcompress_append(x,
                                      scenario.plan[o][steps[o] + k].dir,
                                      StepClock(o, k)) : x \in f[k - 1]}]
<1>1. ASSUME NEW f PROVE IsGenerate(f, o, n) <=> f = B(f)
  BY Zenon DEF IsGenerate, GenerateOne
<1>2. \E f : f = B(f)
  <2>1. PICK f : IsGenerate(f, o, n)
    BY GenerateExists
  <2> HIDE DEF B
  <2> QED BY <1>1, <2>1
<1>3. \E f : f = B(f) /\ Generate(o, n) = f[n]
  BY Zenon, <1>2 DEF Generate
<1> HIDE DEF B
<1> QED BY <1>1, <1>3

(* The first n steps of a plan are steps. *)
Planned(p, n) == \A i \in 1..n : p[i].gap \in Nat \ {0} /\ p[i].dir \in {0, 1}

(* itersolve_generate_steps. *)
GeneratedClock(o, n) == IF n = 0 THEN generated[o] ELSE StepClock(o, n)
MayGenerate(o, n, u, t, b, k) ==
  /\ Host(sc[o], u, t, generated[o], b, k)
  /\ generated[o] \in Nat /\ flushed \in Nat /\ now \in Nat /\ steps[o] \in Nat
  /\ generated[o] < Forever /\ (n > 0 => StepClock(o, n) < Forever)
  /\ Planned(scenario.plan[o], steps[o] + n)

LEMMA GenerateHost ==
  ASSUME NEW o, NEW n \in Nat, NEW u \in View, NEW t \in Int,
         NEW b \in BOOLEAN, NEW k \in Int, MayGenerate(o, n, u, t, b, k),
         NEW y \in Generate(o, n)
  PROVE  /\ Host(y, u, t + n, GeneratedClock(o, n), b, k)
         /\ GeneratedClock(o, n) \in Nat /\ generated[o] <= GeneratedClock(o, n)
         /\ y.invert_sdir = sc[o].invert_sdir
         /\ Balance(y) - WaysTo(scenario.plan[o], steps[o] + n)
              = Balance(sc[o]) - WaysTo(scenario.plan[o], steps[o])
<1> DEFINE p == scenario.plan[o]
           d == steps[o]
           g == generated[o]
           c(i) == IF i = 0 THEN g ELSE StepClock(o, i)
           z == sc[o]
           Good(x, i) == /\ Host(x, u, t + i, c(i), b, k)
                         /\ x.invert_sdir = z.invert_sdir
                         /\ Balance(x) - WaysTo(p, d + i) = Balance(z) - WaysTo(p, d)
<1>14. /\ Host(z, u, t, g, b, k)
       /\ g \in Nat /\ flushed \in Nat /\ now \in Nat /\ d \in Nat
       /\ g < Forever /\ (n > 0 => StepClock(o, n) < Forever)
       /\ Planned(p, d + n)
  BY DEF MayGenerate
<1>1. PICK f : IsGenerate(f, o, n) /\ Generate(o, n) = f[n]
  BY GenerateIs
<1>13. \A i \in 1..n : p[d + i].gap \in Nat \ {0} /\ p[d + i].dir \in {0, 1}
  <2>1. \A i \in 1..n : d + i \in 1..(d + n)
    BY <1>14
  <2> QED BY <1>14, <2>1 DEF Planned
<1>2. /\ \A i \in 0..n : /\ StepClock(o, i) \in Nat
                         /\ generated[o] + i <= StepClock(o, i)
                         /\ StepClock(o, i) <= StepClock(o, n)
      /\ \A i \in 0..(n - 1) : StepClock(o, i) < StepClock(o, i + 1)
  BY <1>13, <1>14, StepClocks
<1>3. \A i \in 0..n : c(i) \in Nat
  BY <1>2, <1>14
<1>4. \A i \in 0..(n - 1) : c(i) < c(i + 1) /\ c(i + 1) = StepClock(o, i + 1)
                            /\ c(i) < Forever
  <2> SUFFICES ASSUME NEW i \in 0..(n - 1)
               PROVE  c(i) < c(i + 1) /\ c(i + 1) = StepClock(o, i + 1) /\ c(i) < Forever
    OBVIOUS
  <2>1. i + 1 # 0 /\ i + 1 \in 0..n /\ i \in 0..n /\ n > 0
    OBVIOUS
  <2>2. c(i + 1) = StepClock(o, i + 1)
    BY <2>1
  <2>3. /\ StepClock(o, i) \in Nat /\ StepClock(o, i + 1) \in Nat
        /\ StepClock(o, i) < StepClock(o, i + 1)
        /\ g + i <= StepClock(o, i) /\ StepClock(o, i) <= StepClock(o, n)
        /\ StepClock(o, n) \in Nat
    <3>1. n \in 0..n
      OBVIOUS
    <3> QED BY <1>2, <2>1, <3>1
  <2>4. Forever \in Nat
    BY StepCompressAssumption
  <2>5. CASE i = 0
    BY <1>14, <2>2, <2>3, <2>5
  <2>6. CASE i # 0
    BY <1>14, <2>1, <2>2, <2>3, <2>4, <2>6
  <2> QED BY <2>5, <2>6
<1>5. \A i \in 1..(d + n) : Way(p[i].dir) = Times(p[i].dir, 1) /\ Way(p[i].dir) \in Int
  BY DEF Way, Times
<1>6. \A i \in 1..n : p[d + i].dir = 0 \/ p[d + i].dir = 1
  BY <1>13
<1>7. Balance(z) \in Int
  BY <1>14, BalanceInt DEF Host, HostOK
<1>15. d \in Nat /\ Host(z, u, t, g, b, k)
  BY <1>14
<1>16. g <= c(n) /\ c(n) \in Nat
  <2>1. n \in 0..n
    OBVIOUS
  <2>2. StepClock(o, n) \in Nat /\ g + n <= StepClock(o, n)
    BY <1>2, <2>1
  <2> QED BY <1>14, <2>2
<1> HIDE DEF c, d, z, g
<1> DEFINE S == {i \in 0..n : \A x \in f[i] : Good(x, i)}
<1>8. 0 \in S
  <2>1. f[0] = {z}
    BY <1>1 DEF IsGenerate, z
  <2>2. Good(z, 0)
    <3>1. c(0) = g /\ t + 0 = t /\ d + 0 = d
      BY <1>15 DEF c
    <3> QED BY <1>15, <3>1
  <2> HIDE DEF Good
  <2> QED BY <2>1, <2>2
<1>9. ASSUME NEW i \in 0..(n - 1), i \in S
      PROVE  i + 1 \in S
  <2>1. /\ i + 1 \in 0..n /\ i + 1 # 0 /\ (i + 1) - 1 = i /\ i \in Nat
        /\ i \in 0..n /\ i + 1 \in 1..n
    OBVIOUS
  <2>2. PICK clock \in Nat, old \in Nat :
          clock = c(i + 1) /\ old = c(i) /\ clock = StepClock(o, i + 1)
          /\ old < clock /\ old < Forever
    BY <1>3, <1>4, <2>1
  <2>3. PICK dir \in Int : dir = p[d + (i + 1)].dir /\ (dir = 0 \/ dir = 1)
    BY <1>6, <2>1
  <2>4. f[i + 1] = GenerateOne(f[i], o, i + 1)
    BY <1>1, <2>1 DEF IsGenerate
  <2> SUFFICES ASSUME NEW x \in f[i + 1] PROVE Good(x, i + 1)
    BY <2>1
  <2>5. PICK a \in f[i] : x \in stepcompress_append(a, dir, clock)
    <3>1. f[i + 1] = UNION {stepcompress_append(e, dir, clock) : e \in f[i]}
      BY <2>2, <2>3, <2>4 DEF GenerateOne, d
    <3> QED BY <3>1
  <2>6. Good(a, i)
    BY <1>9
  <2>7. PICK s \in Int : s = t + i
    BY <2>1
  <2>8. Host(a, u, s, old, b, k)
    BY <2>2, <2>6, <2>7
  <2>9. /\ Host(x, u, s + 1, clock, b, k) /\ x.invert_sdir = a.invert_sdir
        /\ Balance(x) = Balance(a) + Times(dir, 1)
    <3>1. clock > old /\ old < Forever /\ (dir = 0 \/ dir = 1)
      BY <2>2, <2>3
    <3>2. Host(x, u, s + 1, clock, b, k)
      BY <2>5, <2>8, <3>1, AppendStepHost
    <3>3. x.invert_sdir = a.invert_sdir /\ Balance(x) = Balance(a) + Times(dir, 1)
      BY <2>5, <2>8, <3>1, AppendStepHost
    <3> QED BY <3>2, <3>3
  <2>10. Host(x, u, t + (i + 1), c(i + 1), b, k)
    <3>1. t + (i + 1) = s + 1
      BY <2>1, <2>7
    <3> QED BY <2>2, <2>9, <3>1
  <2>11. Balance(x) - WaysTo(p, d + (i + 1)) = Balance(z) - WaysTo(p, d)
    <3>1. PICK l \in Nat : l = d + i
      BY <1>15, <2>1
    <3>2. \A j \in 1..(l + 1) : j \in 1..(d + n)
      BY <1>15, <2>1, <3>1
    <3>3. \A j \in 1..(l + 1) : Way(p[j].dir) \in Int
      BY <1>5, <3>2
    <3> HIDE DEF p
    <3>4. WaysTo(p, l + 1) = WaysTo(p, l) + Way(p[l + 1].dir)
          /\ WaysTo(p, l) \in Int /\ WaysTo(p, l + 1) \in Int
      BY <3>3, WaysStep
    <3>5. l + 1 = d + (i + 1)
      BY <1>15, <2>1, <3>1
    <3>6. Way(p[l + 1].dir) = Times(dir, 1) /\ Times(dir, 1) \in Int
      <4>1. l + 1 \in 1..(l + 1)
        BY <3>1
      <4> QED BY <1>5, <2>3, <3>2, <3>5, <4>1
    <3>7. Balance(a) \in Int /\ Balance(a) - WaysTo(p, l) = Balance(z) - WaysTo(p, d)
      <4>1. Balance(a) \in Int
        BY <2>8, BalanceInt DEF Host, HostOK
      <4> QED BY <2>6, <3>1, <4>1
    <3>8. PICK e \in Int, h \in Int, j \in Int :
            e = WaysTo(p, l) /\ h = Balance(a) /\ j = Times(dir, 1)
      BY <3>4, <3>6, <3>7
    <3>9. Balance(x) = h + j /\ WaysTo(p, l + 1) = e + j /\ Balance(a) - WaysTo(p, l) = h - e
      BY <2>9, <3>4, <3>6, <3>8
    <3>10. Balance(x) - WaysTo(p, l + 1) = h - e
      BY <3>9
    <3> QED BY <3>5, <3>7, <3>9, <3>10
  <2> QED BY <2>6, <2>9, <2>10, <2>11
<1> HIDE DEF S, Good
<1>10. n \in S
  <2>1. \A i \in 0..n : i \in S
    BY <1>8, <1>9, UpTo
  <2> QED BY <2>1
<1>11. Good(y, n)
  BY <1>1, <1>10 DEF S
<1>12. c(n) = GeneratedClock(o, n)
  BY DEF c, g, GeneratedClock
<1> QED BY <1>11, <1>12, <1>16 DEF Good, g, z, d, p

-----------------------------------------------------------------------------
(* steppersync *)

(* The commands on the wire are well formed, and for motors of D. *)
WireOK(q, D) ==
  \E X : q \in Seq(X) /\ \A i \in 1..Len(q) : GoodMessage(q[i]) /\ q[i].oid \in D

LEMMA GoodCommand ==
  ASSUME NEW m, GoodMessage(m)
  PROVE  /\ CommandOf(m) \in Command /\ CommandOf(m).kind = m.kind
         /\ CommandOf(m).kind # "load" /\ CommandOf(m).turn = FALSE
         /\ m.kind = "queue_step" => CommandOf(m).count = m.arg.count
                                     /\ CommandOf(m).dir = 0
         /\ m.kind = "set_next_step_dir" => CommandOf(m).dir = m.arg
<1>1. m.kind = "queue_step" => m.arg.count \in Nat /\ m.arg.count > 0
  BY DEF GoodMessage, Move
<1>2. /\ CommandOf(m).kind = m.kind /\ CommandOf(m).turn = FALSE
      /\ m.kind = "queue_step" => CommandOf(m).count = m.arg.count
                                  /\ CommandOf(m).dir = 0
      /\ m.kind = "set_next_step_dir" => CommandOf(m).dir = m.arg
  BY DEF CommandOf
<1>3. CommandOf(m).dir \in {0, 1}
  BY DEF CommandOf, GoodMessage
<1>4. CommandOf(m).count \in Nat /\ (m.kind = "queue_step" => CommandOf(m).count > 0)
  BY <1>1 DEF CommandOf
<1>5. CommandOf(m).kind # "load"
  BY <1>2 DEF GoodMessage
<1>6. CommandOf(m) \in Command
  BY <1>2, <1>3, <1>4, <1>5 DEF Command, CommandOf, GoodMessage
<1> QED BY <1>2, <1>5, <1>6

LEMMA NoneCommand ==
  /\ None \in Command /\ None.kind = "none"
  /\ \A u \in View : Apply(u, None) = u
<1>1. None \in Command /\ None.kind = "none"
  BY DEF None, Command
<1>2. ASSUME NEW u \in View PROVE Apply(u, None) = u
  <2>1. /\ Turned(u, None) = u.dir /\ Moves(u, None) = FALSE
    BY <1>1 DEF Turned, Moves
  <2>2. u.stopped \in BOOLEAN
    BY DEF View
  <2>3. (u.stopped /\ None.kind # "reset_step_clock") = u.stopped
    BY <1>1, <2>2
  <2>4. Apply(u, None) = [place |-> u.place, dir |-> u.dir, stopped |-> u.stopped,
                          used |-> u.used, resets |-> u.resets]
    BY <1>1, <2>1, <2>3 DEF Apply
  <2> QED BY <2>4 DEF View
<1> QED BY <1>1, <1>2

LEMMA SeenType ==
  ASSUME NEW D, NEW q, WireOK(q, D), NEW o
  PROVE  /\ Seen(q, o) \in Seq(Command) /\ Len(Seen(q, o)) = Len(q) /\ Len(q) \in Nat
         /\ \A i \in 1..Len(q) :
              /\ Seen(q, o)[i] = IF q[i].oid = o THEN CommandOf(q[i]) ELSE None
              /\ Seen(q, o)[i].kind # "load"
<1>1. PICK X : /\ q \in Seq(X)
               /\ \A i \in 1..Len(q) : GoodMessage(q[i]) /\ q[i].oid \in D
  BY DEF WireOK
<1>2. Len(q) \in Nat
  BY <1>1
<1>3. \A i \in 1..Len(q) :
        Seen(q, o)[i] = IF q[i].oid = o THEN CommandOf(q[i]) ELSE None
  BY DEF Seen
<1>4. \A i \in 1..Len(q) : Seen(q, o)[i] \in Command /\ Seen(q, o)[i].kind # "load"
  <2> SUFFICES ASSUME NEW i \in 1..Len(q)
               PROVE  Seen(q, o)[i] \in Command /\ Seen(q, o)[i].kind # "load"
    OBVIOUS
  <2>1. CommandOf(q[i]) \in Command /\ CommandOf(q[i]).kind # "load"
    BY <1>1, GoodCommand
  <2>2. None \in Command /\ None.kind # "load"
    BY NoneCommand
  <2> QED BY <1>3, <2>1, <2>2
<1>5. Seen(q, o) \in [1..Len(q) -> Command]
  <2>1. Seen(q, o) = [i \in 1..Len(q) |-> Seen(q, o)[i]]
    BY DEF Seen
  <2> QED BY <1>4, <2>1
<1>6. Seen(q, o) \in Seq(Command) /\ Len(Seen(q, o)) = Len(q)
  <2>1. PICK f, n : f = Seen(q, o) /\ n = Len(q)
    OBVIOUS
  <2>2. n \in Nat /\ f \in [1..n -> Command]
    BY <1>2, <1>5, <2>1
  <2>3. f \in Seq(Command) /\ Len(f) = n
    BY <2>2
  <2> QED BY <2>1, <2>3
<1> QED BY <1>2, <1>3, <1>4, <1>6

(* One more command on the wire, *)
LEMMA WireAppend ==
  ASSUME NEW D, NEW q, WireOK(q, D), NEW m, GoodMessage(m), m.oid \in D
  PROVE  /\ WireOK(Append(q, m), D) /\ Len(Append(q, m)) = Len(q) + 1
         /\ Append(q, m)[Len(q) + 1] = m
         /\ \A i \in 1..Len(q) : Append(q, m)[i] = q[i]
<1>1. PICK X : /\ q \in Seq(X)
               /\ \A i \in 1..Len(q) : GoodMessage(q[i]) /\ q[i].oid \in D
  BY DEF WireOK
<1> DEFINE Y == X \cup {m}
           r == Append(q, m)
<1>2. X \subseteq Y /\ m \in Y
  OBVIOUS
<1> HIDE DEF Y
<1>3. q \in Seq(Y)
  BY <1>1, <1>2, SeqMonotonic
<1>4. /\ r \in Seq(Y) /\ Len(r) = Len(q) + 1 /\ Len(q) \in Nat
      /\ r[Len(q) + 1] = m /\ \A i \in 1..Len(q) : r[i] = q[i]
  BY <1>2, <1>3, AppendProps
<1> HIDE DEF r
<1>5. ASSUME NEW i \in 1..Len(r) PROVE GoodMessage(r[i]) /\ r[i].oid \in D
  <2>1. CASE i = Len(q) + 1
    BY <1>4, <2>1
  <2>2. CASE i # Len(q) + 1
    <3>1. i \in 1..Len(q)
      BY <1>4, <2>2
    <3> QED BY <1>1, <1>4, <3>1
  <2> QED BY <2>1, <2>2
<1>6. WireOK(r, D)
  BY <1>4, <1>5 DEF WireOK
<1> QED BY <1>4, <1>6 DEF r

(* and what a motor sees of it. *)
LEMMA SeenAppend ==
  ASSUME NEW D, NEW q, WireOK(q, D), NEW m, GoodMessage(m), m.oid \in D, NEW o,
         NEW v \in View, NEW u, Runs(Seen(q, o), v, u)
  PROVE  /\ u \in View
         /\ m.oid = o => Runs(Seen(Append(q, m), o), v, Apply(u, CommandOf(m)))
         /\ m.oid # o => Runs(Seen(Append(q, m), o), v, u)
<1>1. PICK r : r = Append(q, m)
  OBVIOUS
<1>2. /\ WireOK(r, D) /\ Len(r) = Len(q) + 1 /\ r[Len(q) + 1] = m
      /\ \A i \in 1..Len(q) : r[i] = q[i]
  BY <1>1, WireAppend
<1>3. PICK c, e : c = Seen(q, o) /\ e = Seen(r, o)
  OBVIOUS
<1>4. /\ c \in Seq(Command) /\ Len(c) = Len(q) /\ Len(q) \in Nat
      /\ \A i \in 1..Len(q) : c[i] = IF q[i].oid = o THEN CommandOf(q[i]) ELSE None
  BY <1>3, SeenType
<1>5. /\ e \in Seq(Command) /\ Len(e) = Len(r)
      /\ \A i \in 1..Len(r) : e[i] = IF r[i].oid = o THEN CommandOf(r[i]) ELSE None
  BY <1>2, <1>3, SeenType
<1>6. Len(e) = Len(c) + 1 /\ \A i \in 1..Len(c) : e[i] = c[i]
  BY <1>2, <1>4, <1>5
<1>7. e[Len(e)] = IF m.oid = o THEN CommandOf(m) ELSE None
  BY <1>2, <1>4, <1>5
<1>8. u \in View /\ Runs(e, v, Apply(u, e[Len(e)]))
  <2>1. Runs(c, v, u)
    BY <1>3
  <2> QED BY <1>4, <1>5, <1>6, <2>1, RunsAppend
<1>9. m.oid # o => Apply(u, e[Len(e)]) = u
  BY <1>7, <1>8, NoneCommand
<1> QED BY <1>1, <1>3, <1>7, <1>8, <1>9

(* The merge goes on until nothing may be sent any more. *)
MergeNext(st, move_clock) == IF MergeDone(st, move_clock) THEN st ELSE MergeOne(st)
MergeStart(scs, mc) == [sc |-> scs, move_clocks |-> mc, msgs |-> <<>>]
IsMerge(f, scs, mc, n, move_clock) ==
  f = [k \in 0..n |-> IF k = 0 THEN MergeStart(scs, mc)
                      ELSE MergeNext(f[k - 1], move_clock)]

LEMMA MergeExists ==
  ASSUME NEW scs, NEW mc, NEW n \in Nat, NEW move_clock
  PROVE  \E f : IsMerge(f, scs, mc, n, move_clock)
<1> DEFINE E(X) == MergeNext(X, move_clock)
           x == MergeStart(scs, mc)
           Up(f, i) == /\ f = [j \in 0..i |-> f[j]] /\ f[0] = x
                       /\ \A j \in 1..i : f[j] = E(f[j - 1])
           S == {i \in 0..n : \E f : Up(f, i)}
<1> HIDE DEF E, x
<1>1. 0 \in S
  <2> DEFINE f == [j \in 0..0 |-> x]
  <2>1. f = [j \in 0..0 |-> f[j]] /\ f[0] = x /\ 1..0 = {}
    OBVIOUS
  <2> HIDE DEF f
  <2>2. Up(f, 0)
    BY <2>1
  <2> HIDE DEF Up
  <2> QED BY <2>2
<1>2. ASSUME NEW i \in 0..(n - 1), i \in S
      PROVE  i + 1 \in S
  <2>1. PICK f : Up(f, i)
    BY <1>2
  <2>2. i \in Nat /\ i + 1 \in 0..n /\ i \in 0..i
    OBVIOUS
  <2> DEFINE g == [j \in 0..(i + 1) |-> IF j = i + 1 THEN E(f[i]) ELSE f[j]]
  <2>3. /\ g = [j \in 0..(i + 1) |-> g[j]] /\ g[i + 1] = E(f[i])
        /\ \A j \in 0..i : g[j] = f[j]
    BY <2>2
  <2> HIDE DEF g
  <2>4. \A j \in 1..(i + 1) : g[j] = E(g[j - 1])
    <3> SUFFICES ASSUME NEW j \in 1..(i + 1) PROVE g[j] = E(g[j - 1])
      OBVIOUS
    <3>1. CASE j = i + 1
      <4>1. j - 1 = i
        BY <2>2, <3>1
      <4> QED BY <2>2, <2>3, <3>1, <4>1
    <3>2. CASE j # i + 1
      <4>1. j \in 1..i /\ j - 1 \in 0..i /\ j \in 0..i
        BY <2>2, <3>2
      <4> QED BY <2>1, <2>3, <4>1
    <3> QED BY <3>1, <3>2
  <2>5. 0 \in 0..i
    BY <2>2
  <2>6. Up(g, i + 1)
    BY <2>1, <2>3, <2>4, <2>5
  <2> HIDE DEF Up
  <2> QED BY <2>2, <2>6
<1> HIDE DEF S
<1>3. n \in S
  <2>1. \A i \in 0..n : i \in S
    BY <1>1, <1>2, UpTo
  <2> QED BY <2>1
<1>4. PICK f : Up(f, n)
  BY <1>3 DEF S
<1>5. f = [k \in 0..n |-> IF k = 0 THEN x ELSE E(f[k - 1])]
  <2> DEFINE g == [k \in 0..n |-> IF k = 0 THEN x ELSE E(f[k - 1])]
  <2>1. \A k \in 0..n : f[k] = g[k]
    <3> SUFFICES ASSUME NEW k \in 0..n PROVE f[k] = g[k]
      OBVIOUS
    <3>1. k = 0 \/ k \in 1..n
      OBVIOUS
    <3> QED BY <1>4, <3>1
  <2>2. g = [k \in 0..n |-> g[k]] /\ f = [k \in 0..n |-> f[k]]
    BY <1>4
  <2> HIDE DEF g
  <2> QED BY <2>1, <2>2 DEF g
<1> QED BY <1>5 DEF IsMerge, E, x

LEMMA MergeIs ==
  ASSUME NEW scs, NEW mc, NEW move_clock, NEW n \in Nat,
         n = CommandsIn(scs, DOMAIN scs)
  PROVE  \E f : IsMerge(f, scs, mc, n, move_clock) /\ Merge(scs, mc, move_clock) = f[n]
<1> DEFINE N == MapThenSumSet(LAMBDA o : Len(scs[o].msg_queue), DOMAIN scs)
           B(f) == [k \in 0..N |->
                      IF k = 0 THEN [sc |-> scs, move_clocks |-> mc, msgs |-> <<>>]
                      ELSE IF MergeDone(f[k - 1], move_clock) THEN f[k - 1]
                      ELSE MergeOne(f[k - 1])]
<1>1. n = N
  BY DEF CommandsIn
<1>2. ASSUME NEW f PROVE IsMerge(f, scs, mc, N, move_clock) <=> f = B(f)
  BY Zenon DEF IsMerge, MergeNext, MergeStart
<1>3. \E f : f = B(f)
  <2>1. PICK f : IsMerge(f, scs, mc, n, move_clock)
    BY MergeExists
  <2> HIDE DEF B, N
  <2> QED BY <1>1, <1>2, <2>1
<1>4. \E f : f = B(f) /\ Merge(scs, mc, move_clock) = f[N]
  BY Zenon, <1>3 DEF Merge
<1> HIDE DEF B, N
<1> QED BY <1>1, <1>2, <1>4


(* The motor with the earliest command is one that has a command. *)
LEMMA NextIs ==
  ASSUME NEW D \in SUBSET Nat, NEW st, st.sc \in [D -> HostRecord], Waiting(st) # {}
  PROVE  /\ NextStepper(st) \in D
         /\ st.sc[NextStepper(st)].msg_queue # <<>>
<1> DEFINE S == {o \in Waiting(st) : \A p \in Waiting(st) : ReqClock(st, o) <= ReqClock(st, p)}
           T == {ReqClock(st, o) : o \in Waiting(st)}
<1>1. \A o \in Waiting(st) : o \in D /\ st.sc[o].msg_queue # <<>> /\ ReqClock(st, o) \in Nat
  <2> SUFFICES ASSUME NEW o \in Waiting(st)
               PROVE  o \in D /\ st.sc[o].msg_queue # <<>> /\ ReqClock(st, o) \in Nat
    OBVIOUS
  <2>1. o \in D /\ st.sc[o].msg_queue # <<>>
    BY DEF Waiting
  <2>2. st.sc[o] \in HostRecord
    BY <2>1
  <2>3. st.sc[o].msg_queue \in Seq(Msg)
    BY <2>2, HostFields
  <2>4. Head(st.sc[o].msg_queue) \in Msg
    BY <2>1, <2>3, TailProps
  <2> QED BY <2>1, <2>4 DEF ReqClock, Msg
<1>2. T \in SUBSET Nat /\ T # {}
  BY <1>1
<1>3. PICK r \in T : \A y \in T : r <= y
  BY <1>2, LeastNat
<1>4. S # {} /\ S \in SUBSET Nat
  <2>1. PICK o \in Waiting(st) : r = ReqClock(st, o)
    OBVIOUS
  <2>2. o \in S
    BY <1>3, <2>1
  <2> QED BY <1>1, <2>2
<1>5. \E x \in S : \A y \in S : x <= y
  BY <1>4, LeastNat
<1>6. NextStepper(st) \in S
  <2> HIDE DEF S
  <2>1. Min(S) \in S
    BY <1>5 DEF Min
  <2> QED BY <2>1 DEF NextStepper, S
<1> QED BY <1>1, <1>6

(* The first command of a motor goes out. *)
Sent1(x) == [x EXCEPT !.msg_queue = Tail(@)]

LEMMA SentHost ==
  ASSUME NEW x, x \in HostRecord, x.msg_queue # <<>>
  PROVE  /\ Sent1(x) \in HostRecord /\ Sent1(x).invert_sdir = x.invert_sdir
         /\ GoodMessage(Head(x.msg_queue))
         /\ Balance(Sent1(x)) = Balance(x)
         /\ \A u \in View, t \in Int, g \in Nat, b \in BOOLEAN, k \in Int :
              Host(x, u, t, g, b, k) =>
                /\ Apply(u, CommandOf(Head(x.msg_queue))) \in View
                /\ Host(Sent1(x), Apply(u, CommandOf(Head(x.msg_queue))), t, g, b, k)
<1> DEFINE y == Sent1(x)
           m == Head(x.msg_queue)
<1>1. x.msg_queue \in Seq(Msg)
  BY HostFields
<1>2. PICK q : q = Tail(x.msg_queue)
  OBVIOUS
<1>3. /\ m \in Msg /\ q \in Seq(Msg) /\ m = x.msg_queue[1]
      /\ Len(x.msg_queue) = Len(q) + 1 /\ Len(q) \in Nat
      /\ \A i \in 1..Len(q) : q[i] = x.msg_queue[i + 1]
  <2>1. /\ Len(x.msg_queue) \in Nat /\ Len(x.msg_queue) >= 1 /\ m = x.msg_queue[1]
        /\ m \in Msg /\ q \in Seq(Msg) /\ Len(q) = Len(x.msg_queue) - 1
        /\ \A i \in 1..Len(q) : q[i] = x.msg_queue[i + 1]
    BY <1>1, <1>2, TailProps
  <2> QED BY <2>1
<1>4. y = [x EXCEPT !.msg_queue = q]
  BY <1>2 DEF Sent1
<1> HIDE DEF y
<1>5. /\ y \in HostRecord /\ y.queue = x.queue
      /\ y.next_step_clock = x.next_step_clock /\ y.next_step_dir = x.next_step_dir
      /\ y.sdir = x.sdir /\ y.invert_sdir = x.invert_sdir
      /\ y.last_step_clock = x.last_step_clock
      /\ y.last_position = x.last_position /\ y.msg_queue = q
  BY <1>3, <1>4 DEF HostRecord
<1>6. GoodMessage(m)
  BY <1>3 DEF Msg
<1>7. Balance(y) = Balance(x) /\ Waits(y) = Waits(x)
  BY <1>5 DEF Balance, Waits
<1>8. \A g : HostOK(x, g) => HostOK(y, g)
  BY <1>5 DEF HostOK, Ordered
<1>9. ASSUME NEW u \in View, NEW t \in Int, NEW g \in Nat, NEW b \in BOOLEAN,
             NEW k \in Int, Host(x, u, t, g, b, k)
      PROVE  Apply(u, CommandOf(m)) \in View /\ Host(y, Apply(u, CommandOf(m)), t, g, b, k)
  <2>1. PICK w : Goes(x, u, w, b, k) /\ w.used + Waits(x) <= t
    BY <1>9 DEF Host
  <2>2. PICK c, e : c = Commands(x.msg_queue) /\ e = Commands(q)
    OBVIOUS
  <2>3. /\ c \in Seq(Command) /\ Len(c) = Len(q) + 1
        /\ \A i \in 1..Len(x.msg_queue) : c[i] = CommandOf(x.msg_queue[i])
    BY <1>1, <1>3, <2>2, CommandsType
  <2>4. /\ e \in Seq(Command) /\ Len(e) = Len(q)
        /\ \A i \in 1..Len(q) : e[i] = CommandOf(q[i])
    BY <1>3, <2>2, CommandsType
  <2>5. \A i \in 1..Len(e) : e[i] = c[i + 1]
    <3>1. \A i \in 1..Len(q) : i + 1 \in 1..Len(x.msg_queue)
      BY <1>3
    <3> QED BY <1>3, <2>3, <2>4, <3>1
  <2>6. c[1] = CommandOf(m)
    <3>1. 1 \in 1..Len(x.msg_queue)
      BY <1>3
    <3> QED BY <1>3, <2>3, <3>1
  <2>7. Runs(c, u, w)
    BY <2>1, <2>2 DEF Goes
  <2>8. Apply(u, CommandOf(m)) \in View /\ Runs(e, Apply(u, CommandOf(m)), w)
    BY <2>3, <2>4, <2>5, <2>6, <2>7, RunsTail
  <2>9. Goes(y, Apply(u, CommandOf(m)), w, b, k)
    <3>1. HostDir(y) = HostDir(x) /\ HostPlace(y, w) = HostPlace(x, w)
      BY <1>5 DEF HostDir, HostPlace
    <3> QED BY <1>5, <2>1, <2>2, <2>8, <3>1 DEF Goes
  <2>10. HostOK(y, g)
    BY <1>8, <1>9 DEF Host
  <2> QED BY <1>7, <2>1, <2>8, <2>9, <2>10 DEF Host
<1> QED BY <1>5, <1>6, <1>7, <1>9 DEF y

(* The host's records and the commands, those of q and those merged, while
   commands are merged; *)
MergeOK(st, D, q) ==
  /\ st.sc \in [D -> HostRecord]
  /\ \E X : q \in Seq(X) /\ st.msgs \in Seq(X)
  /\ WireOK(q \o st.msgs, D)

(* what is on the wire r for motor o, and what the host has for it, go from v on. *)
Carries(x, r, o, v, t, g, b, k) ==
  \E u \in View : Runs(Seen(r, o), v, u) /\ Host(x, u, t, g, b, k)

(* One command is merged: m. *)
Merges(st, z, p, m) ==
  /\ st.sc[p].msg_queue # <<>>
  /\ GoodMessage(m) /\ m.oid = p
  /\ CommandOf(m) = CommandOf(Head(st.sc[p].msg_queue))
  /\ z.sc = [st.sc EXCEPT ![p] = Sent1(st.sc[p])]
  /\ z.msgs = Append(st.msgs, m)

LEMMA MergeOneIs ==
  ASSUME NEW D \in SUBSET Nat, NEW st, st.sc \in [D -> HostRecord], Waiting(st) # {}
  PROVE  \E p \in D : \E m : Merges(st, MergeOne(st), p, m)
<1>1. PICK p \in D : p = NextStepper(st) /\ st.sc[p].msg_queue # <<>>
  BY NextIs
<1>2. PICK qm : qm = Head(st.sc[p].msg_queue)
  OBVIOUS
<1>3. st.sc[p] \in HostRecord /\ GoodMessage(qm)
  <2>1. st.sc[p] \in HostRecord
    OBVIOUS
  <2> QED BY <1>1, <1>2, <2>1, SentHost
<1> DEFINE m == [kind |-> qm.kind, arg |-> qm.arg, oid |-> p,
                 min_clock |-> st.move_clocks[1]]
           z == MergeOne(st)
<1>4. /\ z.sc = [st.sc EXCEPT ![p].msg_queue = Tail(@)]
      /\ z.msgs = Append(st.msgs, m)
  BY <1>1, <1>2 DEF MergeOne
<1>5. z.sc = [st.sc EXCEPT ![p] = Sent1(st.sc[p])]
  BY <1>4 DEF Sent1
<1>6. m.kind = qm.kind /\ m.arg = qm.arg /\ m.oid = p
  OBVIOUS
<1> HIDE DEF z
<1>7. PICK n : n = m
  OBVIOUS
<1>8. n.kind = qm.kind /\ n.arg = qm.arg /\ n.oid = p /\ z.msgs = Append(st.msgs, n)
  BY <1>4, <1>6, <1>7
<1> HIDE DEF m
<1>9. GoodMessage(n) /\ CommandOf(n) = CommandOf(qm)
  BY <1>3, <1>8 DEF GoodMessage, CommandOf
<1>10. Merges(st, z, p, n)
  BY <1>1, <1>2, <1>5, <1>8, <1>9 DEF Merges
<1> QED BY <1>10 DEF z

Merged(D, q, st, z, p, m) ==
  /\ q \o z.msgs = Append(q \o st.msgs, m)
  /\ z.sc[p] = Sent1(st.sc[p])
  /\ \A o \in D : o # p => z.sc[o] = st.sc[o]

LEMMA MergesOK ==
  ASSUME NEW D, NEW q, NEW st, MergeOK(st, D, q), NEW z, NEW p \in D, NEW m,
         Merges(st, z, p, m)
  PROVE  MergeOK(z, D, q) /\ Merged(D, q, st, z, p, m)
<1>1. PICK X : q \in Seq(X) /\ st.msgs \in Seq(X)
  BY DEF MergeOK
<1> DEFINE Y == X \cup {m}
<1>2. X \subseteq Y /\ m \in Y
  OBVIOUS
<1> HIDE DEF Y
<1>3. PICK s : s = st.msgs
  OBVIOUS
<1>4. q \in Seq(Y) /\ s \in Seq(Y)
  BY <1>1, <1>2, <1>3, SeqMonotonic
<1>5. z.msgs = Append(s, m) /\ Append(s, m) \in Seq(Y)
  BY <1>2, <1>3, <1>4, AppendProps DEF Merges
<1>6. q \o Append(s, m) = Append(q \o s, m)
  <2>1. <<m>> \in Seq(Y)
    BY <1>2
  <2>2. q \o s \in Seq(Y)
    BY <1>4, ConcatProperties
  <2>3. Append(s, m) = s \o <<m>> /\ Append(q \o s, m) = (q \o s) \o <<m>>
    BY <1>2, <1>4, <2>2
  <2>4. (q \o s) \o <<m>> = q \o (s \o <<m>>)
    BY <1>4, <2>1, ConcatAssociative
  <2> QED BY <2>3, <2>4
<1>7. /\ st.sc \in [D -> HostRecord] /\ st.sc[p] \in HostRecord
      /\ Sent1(st.sc[p]) \in HostRecord
  <2>1. st.sc \in [D -> HostRecord] /\ st.sc[p].msg_queue # <<>>
    BY DEF MergeOK, Merges
  <2> QED BY <2>1, SentHost
<1>8. z.sc = [st.sc EXCEPT ![p] = Sent1(st.sc[p])]
  BY DEF Merges
<1>9. /\ z.sc \in [D -> HostRecord] /\ z.sc[p] = Sent1(st.sc[p])
      /\ \A o \in D : o # p => z.sc[o] = st.sc[o]
  BY <1>7, <1>8
<1>10. WireOK(q \o z.msgs, D)
  <2>1. WireOK(q \o s, D) /\ GoodMessage(m) /\ m.oid \in D
    BY <1>3 DEF MergeOK, Merges
  <2>2. WireOK(Append(q \o s, m), D)
    BY <2>1, WireAppend
  <2> QED BY <1>5, <1>6, <2>2
<1>11. MergeOK(z, D, q)
  BY <1>4, <1>5, <1>9, <1>10 DEF MergeOK
<1>12. Merged(D, q, st, z, p, m)
  BY <1>3, <1>5, <1>6, <1>9 DEF Merged
<1> QED BY <1>11, <1>12

(* So for the motor o when q and what was merged are on the wire. *)
Brings(st, q, o, v, t, g, b, k) ==
  Carries(st.sc[o], q \o st.msgs, o, v, t, g, b, k)

LEMMA MergesCarries ==
  ASSUME NEW D, NEW q, NEW st, MergeOK(st, D, q), NEW z, NEW p \in D, NEW m,
         Merges(st, z, p, m), NEW o \in D, NEW v \in View, NEW t \in Int,
         NEW g \in Nat, NEW b \in BOOLEAN, NEW k \in Int,
         Brings(st, q, o, v, t, g, b, k)
  PROVE  Brings(z, q, o, v, t, g, b, k)
<1>1. PICK r, y, x : r = q \o st.msgs /\ y = z.sc[o] /\ x = st.sc[o]
  OBVIOUS
<1>2. /\ q \o z.msgs = Append(r, m) /\ WireOK(r, D) /\ GoodMessage(m) /\ m.oid = p
      /\ CommandOf(m) = CommandOf(Head(st.sc[p].msg_queue))
      /\ st.sc[p].msg_queue # <<>> /\ x \in HostRecord
      /\ (o = p => y = Sent1(x)) /\ (o # p => y = x)
  <2>1. /\ q \o z.msgs = Append(q \o st.msgs, m) /\ z.sc[p] = Sent1(st.sc[p])
        /\ \A d \in D : d # p => z.sc[d] = st.sc[d]
    <3>1. Merged(D, q, st, z, p, m)
      BY MergesOK
    <3> QED BY <3>1 DEF Merged
  <2>2. WireOK(q \o st.msgs, D) /\ st.sc \in [D -> HostRecord]
    BY DEF MergeOK
  <2>3. /\ GoodMessage(m) /\ m.oid = p /\ st.sc[p].msg_queue # <<>>
        /\ CommandOf(m) = CommandOf(Head(st.sc[p].msg_queue))
    BY DEF Merges
  <2>4. x \in HostRecord
    BY <1>1, <2>2
  <2> QED BY <1>1, <2>1, <2>2, <2>3, <2>4
<1>3. PICK u \in View : Runs(Seen(r, o), v, u) /\ Host(x, u, t, g, b, k)
  BY <1>1 DEF Brings, Carries
<1>4. CASE o = p
  <2>1. Runs(Seen(Append(r, m), o), v, Apply(u, CommandOf(m)))
    BY <1>2, <1>3, <1>4, SeenAppend
  <2>2. x.msg_queue # <<>> /\ CommandOf(m) = CommandOf(Head(x.msg_queue)) /\ y = Sent1(x)
    BY <1>1, <1>2, <1>4
  <2>3. /\ Apply(u, CommandOf(m)) \in View
        /\ Host(y, Apply(u, CommandOf(m)), t, g, b, k)
        /\ y.invert_sdir = x.invert_sdir /\ Balance(y) = Balance(x)
    BY <1>2, <1>3, <2>2, SentHost
  <2>4. Carries(y, q \o z.msgs, o, v, t, g, b, k)
    BY <1>2, <2>1, <2>3 DEF Carries
  <2> QED BY <1>1, <2>4 DEF Brings
<1>5. CASE o # p
  <2>1. Runs(Seen(Append(r, m), o), v, u) /\ y = x
    BY <1>2, <1>3, <1>5, SeenAppend
  <2>2. Carries(y, q \o z.msgs, o, v, t, g, b, k)
    BY <1>2, <1>3, <2>1 DEF Carries
  <2> QED BY <1>1, <2>2 DEF Brings
<1> QED BY <1>4, <1>5

(* What the merge, and a flush, does to the host's records scs of the motors
   of D, with the commands q on the wire before it: st. *)
Sends(D, q, scs, st) ==
  /\ MergeOK(st, D, q)
  /\ \A o \in D :
       /\ st.sc[o].invert_sdir = scs[o].invert_sdir
       /\ Balance(st.sc[o]) = Balance(scs[o])
       /\ \A v \in View, t \in Int, g \in Nat, b \in BOOLEAN, k \in Int :
            g < Forever /\ Carries(scs[o], q, o, v, t, g, b, k)
              => Carries(st.sc[o], q \o st.msgs, o, v, t, g, b, k)

LEMMA SendsStart ==
  ASSUME NEW D, NEW q, WireOK(q, D), NEW scs \in [D -> HostRecord], NEW mc
  PROVE  Sends(D, q, scs, MergeStart(scs, mc))
<1> DEFINE st == MergeStart(scs, mc)
<1>1. PICK X : q \in Seq(X)
  BY DEF WireOK
<1>2. st.sc = scs /\ st.msgs = <<>>
  BY DEF MergeStart
<1> HIDE DEF st
<1>3. st.msgs \in Seq(X) /\ q \o st.msgs = q
  <2>1. <<>> \in Seq(X) /\ q \o <<>> = q
    BY <1>1, ConcatEmptySeq
  <2> QED BY <1>2, <2>1
<1>4. MergeOK(st, D, q)
  BY <1>1, <1>2, <1>3 DEF MergeOK
<1>5. Sends(D, q, scs, st)
  BY <1>2, <1>3, <1>4 DEF Sends
<1> QED BY <1>5 DEF st

LEMMA SendsOne ==
  ASSUME NEW D \in SUBSET Nat, NEW q, NEW scs, NEW st, Sends(D, q, scs, st),
         NEW move_clock
  PROVE  Sends(D, q, scs, MergeNext(st, move_clock))
<1>1. CASE MergeDone(st, move_clock)
  BY <1>1 DEF MergeNext
<1>2. CASE ~MergeDone(st, move_clock)
  <2>1. Waiting(st) # {}
    BY <1>2 DEF MergeDone
  <2>2. MergeOK(st, D, q) /\ st.sc \in [D -> HostRecord]
    BY DEF Sends, MergeOK
  <2>3. PICK p \in D : \E m : Merges(st, MergeOne(st), p, m)
    BY <2>1, <2>2, MergeOneIs
  <2>4. PICK z : z = MergeOne(st)
    OBVIOUS
  <2>5. PICK m : Merges(st, z, p, m)
    BY <2>3, <2>4
  <2>6. MergeOK(z, D, q) /\ Merged(D, q, st, z, p, m)
    BY <2>2, <2>5, MergesOK
  <2>7. ASSUME NEW o \in D
        PROVE  /\ z.sc[o].invert_sdir = scs[o].invert_sdir
               /\ Balance(z.sc[o]) = Balance(scs[o])
               /\ \A v \in View, t \in Int, g \in Nat, b \in BOOLEAN, k \in Int :
                    g < Forever /\ Carries(scs[o], q, o, v, t, g, b, k)
                      => Carries(z.sc[o], q \o z.msgs, o, v, t, g, b, k)
    <3>1. /\ st.sc[o].invert_sdir = scs[o].invert_sdir
          /\ Balance(st.sc[o]) = Balance(scs[o])
          /\ \A v \in View, t \in Int, g \in Nat, b \in BOOLEAN, k \in Int :
               g < Forever /\ Carries(scs[o], q, o, v, t, g, b, k)
                 => Carries(st.sc[o], q \o st.msgs, o, v, t, g, b, k)
      BY DEF Sends
    <3>2. z.sc[o].invert_sdir = st.sc[o].invert_sdir /\ Balance(z.sc[o]) = Balance(st.sc[o])
      <4>1. z.sc[p] = Sent1(st.sc[p]) /\ (o # p => z.sc[o] = st.sc[o])
        BY <2>6 DEF Merged
      <4>2. st.sc[p] \in HostRecord /\ st.sc[p].msg_queue # <<>>
        BY <2>2, <2>5 DEF Merges
      <4>3. /\ Sent1(st.sc[p]).invert_sdir = st.sc[p].invert_sdir
            /\ Balance(Sent1(st.sc[p])) = Balance(st.sc[p])
        BY <4>2, SentHost
      <4> QED BY <4>1, <4>3
    <3>3. ASSUME NEW v \in View, NEW t \in Int, NEW g \in Nat, NEW b \in BOOLEAN,
                 NEW k \in Int, g < Forever, Carries(scs[o], q, o, v, t, g, b, k)
          PROVE  Carries(z.sc[o], q \o z.msgs, o, v, t, g, b, k)
      <4>1. Carries(st.sc[o], q \o st.msgs, o, v, t, g, b, k)
        BY <3>1, <3>3
      <4>2. Brings(st, q, o, v, t, g, b, k)
        BY <4>1 DEF Brings
      <4>3. Brings(z, q, o, v, t, g, b, k)
        BY <2>2, <2>5, <4>2, MergesCarries
      <4> QED BY <4>3 DEF Brings
    <3> QED BY <3>1, <3>2, <3>3
  <2>8. Sends(D, q, scs, z)
    BY <2>6, <2>7 DEF Sends
  <2> QED BY <1>2, <2>4, <2>8 DEF MergeNext
<1> QED BY <1>1, <1>2

LEMMA MergeSends ==
  ASSUME NEW D \in SUBSET Nat, IsFiniteSet(D), NEW q, WireOK(q, D),
         NEW scs \in [D -> HostRecord], NEW mc, NEW move_clock
  PROVE  Sends(D, q, scs, Merge(scs, mc, move_clock))
<1>1. PICK n : n = CommandsIn(scs, D)
  OBVIOUS
<1>2. n \in Nat
  <2>1. PICK it : /\ IsSum(it, [o \in D |-> Len(scs[o].msg_queue)], D)
                  /\ CommandsIn(scs, D) = it[D]
    BY CommandsAreSum
  <2>2. PICK w : w = [o \in D |-> Len(scs[o].msg_queue)]
    OBVIOUS
  <2>3. \A o \in D : Len(scs[o].msg_queue) \in Nat
    <3> SUFFICES ASSUME NEW o \in D PROVE Len(scs[o].msg_queue) \in Nat
      OBVIOUS
    <3>1. scs[o] \in HostRecord
      OBVIOUS
    <3>2. scs[o].msg_queue \in Seq(Msg)
      BY <3>1, HostFields
    <3> QED BY <3>2
  <2>4. w \in [D -> Nat]
    BY <2>2, <2>3
  <2>5. it[D] \in Nat
    BY <2>1, <2>2, <2>4, SumNat
  <2> QED BY <1>1, <2>1, <2>5
<1>3. D = DOMAIN scs
  OBVIOUS
<1>4. PICK f : /\ IsMerge(f, scs, mc, n, move_clock)
               /\ Merge(scs, mc, move_clock) = f[n]
  <2>1. n = CommandsIn(scs, DOMAIN scs)
    BY <1>1, <1>3
  <2> QED BY <1>2, <2>1, MergeIs
<1> DEFINE S == {i \in 0..n : Sends(D, q, scs, f[i])}
<1>5. 0 \in S
  <2>1. 0 \in 0..n /\ f[0] = MergeStart(scs, mc)
    BY <1>2, <1>4 DEF IsMerge
  <2>2. Sends(D, q, scs, MergeStart(scs, mc))
    BY SendsStart
  <2> QED BY <2>1, <2>2
<1>6. ASSUME NEW i \in 0..(n - 1), i \in S PROVE i + 1 \in S
  <2>1. i + 1 \in 0..n /\ i + 1 # 0 /\ (i + 1) - 1 = i
    BY <1>2
  <2>2. f[i + 1] = MergeNext(f[i], move_clock)
    <3>1. f[i + 1] = MergeNext(f[(i + 1) - 1], move_clock)
      BY <1>4, <2>1 DEF IsMerge
    <3> QED BY <2>1, <3>1
  <2>3. Sends(D, q, scs, f[i])
    BY <1>6
  <2>4. Sends(D, q, scs, MergeNext(f[i], move_clock))
    BY <2>3, SendsOne
  <2> QED BY <2>1, <2>2, <2>4
<1> HIDE DEF S
<1>7. n \in S
  <2>1. \A i \in 0..n : i \in S
    BY <1>2, <1>5, <1>6, UpTo
  <2>2. n \in 0..n
    BY <1>2
  <2> QED BY <2>1, <2>2
<1> QED BY <1>4, <1>7 DEF S

(* A record a flush can be made of. *)
Flushable(x) ==
  \E u \in View, t \in Int, g \in Nat, b \in BOOLEAN, k \in Int :
     g < Forever /\ Host(x, u, t, g, b, k)

LEMMA FlushSends ==
  ASSUME NEW D \in SUBSET Nat, IsFiniteSet(D), NEW q, WireOK(q, D),
         NEW scs, DOMAIN scs = D, \A o \in D : Flushable(scs[o]),
         NEW mc, NEW move_clock,
         NEW st \in steppersync_flush(scs, mc, move_clock)
  PROVE  Sends(D, q, scs, st)
<1> DEFINE F == [o \in D |-> stepcompress_flush(scs[o], move_clock)]
<1>1. PICK x \in EachOf(F) : st = Merge(x, mc, move_clock)
  BY DEF steppersync_flush
<1>2. DOMAIN x = D /\ x = [o \in D |-> x[o]]
      /\ \A o \in D : x[o] \in stepcompress_flush(scs[o], move_clock)
  BY DEF EachOf
<1> HIDE DEF F
<1>3. ASSUME NEW o \in D
      PROVE  /\ x[o] \in HostRecord /\ x[o].invert_sdir = scs[o].invert_sdir
             /\ Balance(x[o]) = Balance(scs[o])
             /\ \A v \in View, t \in Int, g \in Nat, b \in BOOLEAN, k \in Int :
                  g < Forever /\ Carries(scs[o], q, o, v, t, g, b, k)
                    => Carries(x[o], q, o, v, t, g, b, k)
  <2>1. PICK y, z : y = scs[o] /\ z = x[o]
    OBVIOUS
  <2>2. z \in stepcompress_flush(y, move_clock) /\ Flushable(y)
    BY <1>2, <2>1
  <2>3. /\ z \in HostRecord /\ z.invert_sdir = y.invert_sdir
        /\ Balance(z) = Balance(y)
    <3>1. PICK u \in View, t \in Int, g \in Nat, b \in BOOLEAN, k \in Int :
             g < Forever /\ Host(y, u, t, g, b, k)
      BY <2>2 DEF Flushable
    <3>2. /\ Host(z, u, t, g, b, k) /\ Balance(z) = Balance(y)
          /\ z.invert_sdir = y.invert_sdir
      BY <2>2, <3>1, FlushHost
    <3> QED BY <3>2 DEF Host, HostOK
  <2>4. ASSUME NEW v \in View, NEW t \in Int, NEW g \in Nat, NEW b \in BOOLEAN,
               NEW k \in Int, g < Forever, Carries(y, q, o, v, t, g, b, k)
        PROVE  Carries(z, q, o, v, t, g, b, k)
    <3>1. PICK u \in View : Runs(Seen(q, o), v, u) /\ Host(y, u, t, g, b, k)
      BY <2>4 DEF Carries
    <3>2. Host(z, u, t, g, b, k)
      BY <2>2, <2>4, <3>1, FlushHost
    <3> QED BY <3>1, <3>2 DEF Carries
  <2> QED BY <2>1, <2>3, <2>4
<1>4. x \in [D -> HostRecord]
  BY <1>2, <1>3
<1>5. Sends(D, q, x, st)
  BY <1>1, <1>4, MergeSends
<1>6. ASSUME NEW o \in D
      PROVE  /\ st.sc[o].invert_sdir = scs[o].invert_sdir
             /\ Balance(st.sc[o]) = Balance(scs[o])
             /\ \A v \in View, t \in Int, g \in Nat, b \in BOOLEAN, k \in Int :
                  g < Forever /\ Carries(scs[o], q, o, v, t, g, b, k)
                    => Carries(st.sc[o], q \o st.msgs, o, v, t, g, b, k)
  <2>1. /\ st.sc[o].invert_sdir = x[o].invert_sdir
        /\ Balance(st.sc[o]) = Balance(x[o])
        /\ \A v \in View, t \in Int, g \in Nat, b \in BOOLEAN, k \in Int :
             g < Forever /\ Carries(x[o], q, o, v, t, g, b, k)
               => Carries(st.sc[o], q \o st.msgs, o, v, t, g, b, k)
    BY <1>5 DEF Sends
  <2> QED BY <1>3, <2>1
<1>7. MergeOK(st, D, q)
  BY <1>5 DEF Sends
<1> QED BY <1>6, <1>7 DEF Sends

-----------------------------------------------------------------------------
(* The inductive invariant *)

(* What holds of a motor whatever happened: s, x, n and g are its stepper, its
   record on the host, the steps and the clock generated; p is its plan. *)
MotorOK(s, x, n, g, p, stp) ==
  /\ StepperOK(s) /\ InRange(s)
  /\ HostOK(x, g) /\ g \in Nat /\ g <= Horizon
  /\ n \in Nat /\ n <= Len(p)
  /\ stp = 0 => Balance(x) = WaysTo(p, n)

(* How many reset_step_clock have been sent, and how many steps the host may
   still believe in, v being what the micro-controller knows. *)
Cleared(stp, ph) == IF stp = 0 \/ ph = "homing" THEN 0 ELSE 1
Believed(n, ph, v) == IF ph = "querying" THEN v.used ELSE n
Known(stp, ph) == stp = 0 \/ ph = "done"

(* What holds as long as nothing was shut down: the stepper will end at v, and
   the commands r on the wire and the host's record lead on from there. *)
Tracks(s, x, r, o, n, g, stp, ph, v) ==
  /\ Predicts(s, v)
  /\ Carries(x, r, o, v, Believed(n, ph, v), g, Known(stp, ph), Cleared(stp, ph))
  /\ v.used <= n
  /\ stp # 0 /\ v.resets = 0 => v.stopped = TRUE
  /\ stp # 0 /\ ph # "done" => s.count = 0

LEMMA ModeType ==
  ASSUME NEW stp, NEW ph, NEW n \in Int, NEW v \in View
  PROVE  /\ Cleared(stp, ph) \in Int /\ Known(stp, ph) \in BOOLEAN
         /\ Believed(n, ph, v) \in Int
         /\ v.used <= n => v.used <= Believed(n, ph, v) /\ Believed(n, ph, v) <= n
<1>1. v.used \in Nat
  BY DEF View
<1> QED BY <1>1 DEF Cleared, Known, Believed

(* What motor o sees of the wire, c, begins with the command m if that is for
   it, and goes on with e. *)
Begins(c, e, m, o) ==
  /\ c \in Seq(Command) /\ e \in Seq(Command) /\ Len(c) = Len(e) + 1
  /\ \A i \in 1..Len(e) : e[i] = c[i + 1]
  /\ m.oid = o => c[1] = CommandOf(m)
  /\ m.oid # o => c[1] = None

LEMMA WireTail ==
  ASSUME NEW D, NEW q, WireOK(q, D), q # <<>>, NEW o
  PROVE  /\ WireOK(Tail(q), D) /\ GoodMessage(Head(q)) /\ Head(q).oid \in D
         /\ Begins(Seen(q, o), Seen(Tail(q), o), Head(q), o)
<1>1. PICK X : /\ q \in Seq(X)
               /\ \A i \in 1..Len(q) : GoodMessage(q[i]) /\ q[i].oid \in D
  BY DEF WireOK
<1>2. PICK r, m : r = Tail(q) /\ m = Head(q)
  OBVIOUS
<1>3. /\ Len(q) \in Nat /\ Len(q) >= 1 /\ m = q[1]
      /\ r \in Seq(X) /\ Len(r) = Len(q) - 1
      /\ \A i \in 1..Len(r) : r[i] = q[i + 1]
  BY <1>1, <1>2, TailProps
<1>4. \A i \in 1..Len(r) : i + 1 \in 1..Len(q) /\ r[i] = q[i + 1]
  BY <1>3
<1>5. WireOK(r, D)
  <2>1. \A i \in 1..Len(r) : GoodMessage(r[i]) /\ r[i].oid \in D
    BY <1>1, <1>4
  <2> QED BY <1>3, <2>1 DEF WireOK
<1>6. 1 \in 1..Len(q) /\ GoodMessage(m) /\ m.oid \in D
  BY <1>1, <1>3
<1>7. PICK c, e : c = Seen(q, o) /\ e = Seen(r, o)
  OBVIOUS
<1>8. /\ c \in Seq(Command) /\ Len(c) = Len(q)
      /\ \A i \in 1..Len(q) : c[i] = IF q[i].oid = o THEN CommandOf(q[i]) ELSE None
  BY <1>7, SeenType
<1>9. /\ e \in Seq(Command) /\ Len(e) = Len(r)
      /\ \A i \in 1..Len(r) : e[i] = IF r[i].oid = o THEN CommandOf(r[i]) ELSE None
  BY <1>5, <1>7, SeenType
<1>10. \A i \in 1..Len(e) : e[i] = c[i + 1]
  BY <1>4, <1>8, <1>9
<1>11. Len(c) = Len(e) + 1
  BY <1>3, <1>8, <1>9
<1>12. c[1] = IF m.oid = o THEN CommandOf(m) ELSE None
  BY <1>3, <1>6, <1>8
<1>13. Begins(c, e, m, o)
  BY <1>8, <1>9, <1>10, <1>11, <1>12 DEF Begins
<1> QED BY <1>2, <1>5, <1>6, <1>7, <1>13

(* A command for another motor arrives; *)
LEMMA OtherArrives ==
  ASSUME NEW D, NEW q, WireOK(q, D), q # <<>>, NEW o, Head(q).oid # o,
         NEW s, NEW x, NEW n, NEW g, NEW stp, NEW ph, NEW v,
         Tracks(s, x, q, o, n, g, stp, ph, v)
  PROVE  Tracks(s, x, Tail(q), o, n, g, stp, ph, v)
<1>1. PICK t, b, k : t = Believed(n, ph, v) /\ b = Known(stp, ph) /\ k = Cleared(stp, ph)
  OBVIOUS
<1>2. v \in View
  BY DEF Tracks, Predicts
<1>3. PICK u \in View : Runs(Seen(q, o), v, u) /\ Host(x, u, t, g, b, k)
  BY <1>1 DEF Tracks, Carries
<1>4. PICK c, e : c = Seen(q, o) /\ e = Seen(Tail(q), o)
  OBVIOUS
<1>5. /\ c \in Seq(Command) /\ e \in Seq(Command)
      /\ Len(c) = Len(e) + 1 /\ \A i \in 1..Len(e) : e[i] = c[i + 1]
      /\ c[1] = None
  <2>1. Begins(Seen(q, o), Seen(Tail(q), o), Head(q), o)
    BY WireTail
  <2> QED BY <1>4, <2>1 DEF Begins
<1>6. Runs(e, Apply(v, c[1]), u)
  <2>1. Runs(c, v, u)
    BY <1>3, <1>4
  <2> QED BY <1>2, <1>5, <2>1, RunsTail
<1>7. Runs(e, v, u)
  BY <1>2, <1>5, <1>6, NoneCommand
<1>8. Carries(x, Tail(q), o, v, t, g, b, k)
  BY <1>3, <1>4, <1>7 DEF Carries
<1> QED BY <1>1, <1>8 DEF Tracks

(* and one for this motor, after which its stepper is r. *)
Accepts(q, o, x, n, g, stp, ph, v) ==
  /\ (stp # 0 /\ ph # "done" /\ Head(q).kind = "queue_step") => v.stopped = TRUE
  /\ \A r : Predicts(r, Apply(v, CommandOf(Head(q))))
            /\ (stp # 0 /\ ph # "done" => r.count = 0)
       => Tracks(r, x, Tail(q), o, n, g, stp, ph, Apply(v, CommandOf(Head(q))))

PhaseOK(ph) == ph \in {"homing", "querying", "done"}

LEMMA OwnArrives ==
  ASSUME NEW D, NEW q, WireOK(q, D), q # <<>>, NEW o, Head(q).oid = o,
         NEW s, NEW x, NEW n \in Nat, NEW g, NEW stp, NEW ph, NEW v,
         PhaseOK(ph), Tracks(s, x, q, o, n, g, stp, ph, v)
  PROVE  Accepts(q, o, x, n, g, stp, ph, v)
<1>1. PICK t, b, k : t = Believed(n, ph, v) /\ b = Known(stp, ph) /\ k = Cleared(stp, ph)
  OBVIOUS
<1>2. v \in View /\ v.used <= n /\ v.used \in Nat /\ v.resets \in Nat
      /\ v.stopped \in BOOLEAN
  BY DEF Tracks, Predicts, View
<1>3. t \in Int /\ k \in Int /\ b \in BOOLEAN /\ t <= n
  BY <1>1, <1>2, ModeType
<1>4. PICK u \in View : Runs(Seen(q, o), v, u) /\ Host(x, u, t, g, b, k)
  BY <1>1 DEF Tracks, Carries
<1>5. PICK w : Goes(x, u, w, b, k) /\ w.used + Waits(x) <= t
  BY <1>4 DEF Host
<1>6. PICK c, e, m, a : /\ c = Seen(q, o) /\ e = Seen(Tail(q), o) /\ m = Head(q)
                        /\ a = Apply(v, CommandOf(m))
  OBVIOUS
<1>7. /\ c \in Seq(Command) /\ e \in Seq(Command)
      /\ Len(c) = Len(e) + 1 /\ \A i \in 1..Len(e) : e[i] = c[i + 1]
      /\ c[1] = CommandOf(m) /\ GoodMessage(m)
  <2>1. Begins(Seen(q, o), Seen(Tail(q), o), Head(q), o) /\ GoodMessage(Head(q))
    BY WireTail
  <2> QED BY <1>6, <2>1 DEF Begins
<1>8. a \in View /\ Runs(e, a, u)
  <2>1. Runs(c, v, u)
    BY <1>4, <1>6
  <2> QED BY <1>2, <1>6, <1>7, <2>1, RunsTail
<1>9. a.used <= u.used /\ a.used \in Nat /\ u.used \in Nat
  <2>1. a.used <= u.used
    BY <1>7, <1>8, RunsProps
  <2> QED BY <1>8, <2>1 DEF View
<1>10. /\ u.used <= w.used /\ w.used \in Nat /\ Waits(x) \in Nat
       /\ u.resets <= w.resets /\ w.resets \in Nat
  <2>1. x \in HostRecord
    BY <1>4 DEF Host, HostOK
  <2>2. x.msg_queue \in Seq(Msg) /\ Waits(x) \in Nat
    BY <2>1, HostFields
  <2>3. PICK d : d = Commands(x.msg_queue)
    OBVIOUS
  <2>4. d \in Seq(Command) /\ Runs(d, u, w)
    BY <1>5, <2>2, <2>3, CommandsType DEF Goes
  <2>5. u.used <= w.used /\ u.resets <= w.resets
    BY <2>4, RunsProps
  <2> QED BY <1>5, <2>2, <2>5 DEF Goes, View
<1>11. a.used <= t
  BY <1>3, <1>5, <1>9, <1>10
<1>12. CommandOf(m) \in Command /\ CommandOf(m).kind = m.kind
       /\ (m.kind = "queue_step" => CommandOf(m).count \in Nat /\ CommandOf(m).count > 0)
  <2>1. CommandOf(m) \in Command /\ CommandOf(m).kind = m.kind
    BY <1>7, GoodCommand
  <2> QED BY <2>1 DEF Command
<1>13. /\ v.used <= a.used
       /\ m.kind # "reset_step_clock" => a.resets = v.resets /\ a.stopped = v.stopped
       /\ m.kind = "reset_step_clock" => a.resets = v.resets + 1
  BY <1>2, <1>6, <1>12, ApplyType
<1>14. v.resets <= a.resets /\ a.resets <= u.resets /\ u.resets <= w.resets
       /\ w.resets = k /\ v.resets \in Nat /\ a.resets \in Nat /\ u.resets \in Nat
  <2>1. a.resets <= u.resets
    BY <1>7, <1>8, RunsProps
  <2>2. a.resets \in Nat /\ u.resets \in Nat
    BY <1>8 DEF View
  <2> QED BY <1>2, <1>5, <1>10, <1>13, <2>1, <2>2 DEF Goes
<1>15. ASSUME stp # 0, ph # "done", m.kind = "queue_step" PROVE v.stopped = TRUE
  <2>1. CASE ph = "querying"
    <3>1. a.used <= v.used
      BY <1>1, <1>11, <2>1 DEF Believed
    <3>2. SUFFICES ASSUME v.stopped = FALSE PROVE FALSE
      BY <1>2
    <3>3. a.used = v.used + CommandOf(m).count
      BY <1>6, <1>12, <1>15, <3>2 DEF Apply, Moves
    <3> QED BY <1>2, <1>12, <1>15, <3>1, <3>3
  <2>2. CASE ph # "querying"
    <3>1. k = 0
      BY <1>1, <1>15, <2>2 DEF Cleared, PhaseOK
    <3>2. v.resets = 0
      BY <1>2, <1>10, <1>14, <3>1
    <3> QED BY <1>15, <3>2 DEF Tracks
  <2> QED BY <2>1, <2>2
<1>16. ASSUME NEW r, Predicts(r, a), stp # 0 /\ ph # "done" => r.count = 0
       PROVE  Tracks(r, x, Tail(q), o, n, g, stp, ph, a)
  <2>1. Carries(x, Tail(q), o, a, t, g, b, k)
    BY <1>4, <1>6, <1>8 DEF Carries
  <2>2. a.used <= n /\ t = Believed(n, ph, a)
    <3>1. CASE ph = "querying"
      <4>1. t = v.used
        BY <1>1, <3>1 DEF Believed
      <4> QED BY <1>2, <1>9, <1>11, <1>13, <3>1, <4>1 DEF Believed
    <3>2. CASE ph # "querying"
      <4>1. t = n
        BY <1>1, <3>2 DEF Believed
      <4> QED BY <1>11, <3>2, <4>1 DEF Believed
    <3> QED BY <3>1, <3>2
  <2>3. stp # 0 /\ a.resets = 0 => a.stopped = TRUE
    <3> SUFFICES ASSUME stp # 0, a.resets = 0 PROVE a.stopped = TRUE
      OBVIOUS
    <3>1. m.kind # "reset_step_clock"
      BY <1>2, <1>13
    <3>2. v.resets = 0 /\ a.stopped = v.stopped
      BY <1>13, <3>1
    <3> QED BY <3>2 DEF Tracks
  <2>4. Carries(x, Tail(q), o, a, Believed(n, ph, a), g, Known(stp, ph), Cleared(stp, ph))
    BY <1>1, <2>1, <2>2
  <2> QED BY <1>16, <2>2, <2>3, <2>4 DEF Tracks
<1> QED BY <1>6, <1>15, <1>16 DEF Accepts

-----------------------------------------------------------------------------
(* The pool of nodes *)

(* The nodes queued are those of one motor and those of the others. *)
Splits(D, st, o, w, f, r) ==
  /\ w = [p \in D |-> Len(st[p].mq)] /\ IsSum(f, w, D)
  /\ r \in Int /\ r = f[D \ {o}] /\ QueuedIn(st, D) \in Nat
  /\ QueuedIn(st, D) = Len(st[o].mq) + r

LEMMA QueuedSplit ==
  ASSUME NEW D, IsFiniteSet(D), NEW st, NEW o \in D,
         \A p \in D : Len(st[p].mq) \in Nat
  PROVE  \E w, f, r : Splits(D, st, o, w, f, r)
<1>1. PICK w : w = [p \in D |-> Len(st[p].mq)]
  OBVIOUS
<1>2. w \in [D -> Nat] /\ w \in [D -> Int] /\ w[o] = Len(st[o].mq)
  BY <1>1
<1>3. PICK f : IsSum(f, w, D) /\ QueuedIn(st, D) = f[D]
  BY <1>1, QueuedIsSum
<1>4. f[D] \in Nat
  BY <1>2, <1>3, SumNat
<1>5. f[D] = w[o] + f[D \ {o}]
  <2>1. D \in SUBSET D
    OBVIOUS
  <2> QED BY <1>2, <1>3, <2>1, SumSplit
<1>6. f[D \ {o}] \in Int
  <2>1. PICK s \in SUBSET D : s = D \ {o}
    OBVIOUS
  <2>2. f[s] \in Int
    BY <1>2, <1>3, SumInt
  <2> QED BY <2>1, <2>2
<1>7. Splits(D, st, o, w, f, f[D \ {o}])
  BY <1>1, <1>2, <1>3, <1>4, <1>5, <1>6 DEF Splits
<1> QED BY <1>7

(* One motor's queue changes. *)
LEMMA QueuedBecomes ==
  ASSUME NEW D, IsFiniteSet(D), NEW st, NEW st2, NEW o \in D,
         \A p \in D : Len(st[p].mq) \in Nat, \A p \in D : Len(st2[p].mq) \in Nat,
         \A p \in D : p # o => st2[p] = st[p]
  PROVE  /\ QueuedIn(st, D) \in Nat /\ QueuedIn(st2, D) \in Nat
         /\ QueuedIn(st2, D) + Len(st[o].mq) = QueuedIn(st, D) + Len(st2[o].mq)
<1>1. PICK w, f, a : Splits(D, st, o, w, f, a)
  BY QueuedSplit
<1>2. PICK v, g, b : Splits(D, st2, o, v, g, b)
  BY QueuedSplit
<1>3. /\ w = [p \in D |-> Len(st[p].mq)] /\ v = [p \in D |-> Len(st2[p].mq)]
      /\ IsSum(f, w, D) /\ IsSum(g, v, D)
  BY <1>1, <1>2 DEF Splits
<1>4. f[D \ {o}] = g[D \ {o}]
  <2>1. PICK s : s = D \ {o}
    OBVIOUS
  <2>2. s \in SUBSET D /\ IsFiniteSet(s)
    BY <2>1, FS_Subset
  <2>3. \A p \in s : w[p] = v[p]
    BY <1>3, <2>1
  <2>4. f[s] = g[s]
    <3>1. IsSum(f, w, D) /\ IsSum(g, v, D)
      BY <1>3
    <3> QED BY <2>2, <2>3, <3>1, SumSame
  <2> QED BY <2>1, <2>4
<1>5. a = b
  BY <1>1, <1>2, <1>4 DEF Splits
<1>6. PICK m, n \in Nat : m = Len(st[o].mq) /\ n = Len(st2[o].mq)
  OBVIOUS
<1>7. PICK i, j \in Nat : i = QueuedIn(st, D) /\ j = QueuedIn(st2, D)
  BY <1>1, <1>2 DEF Splits
<1>8. a \in Int /\ i = m + a /\ j = n + a
  BY <1>1, <1>2, <1>5, <1>6, <1>7 DEF Splits
<1>9. j + m = i + n
  BY <1>8
<1> QED BY <1>6, <1>7, <1>9

LEMMA QueuedNone ==
  ASSUME NEW D, IsFiniteSet(D), NEW st, \A p \in D : st[p].mq = <<>>
  PROVE  QueuedIn(st, D) = 0
<1>1. PICK w : w = [p \in D |-> Len(st[p].mq)]
  OBVIOUS
<1>2. PICK f : IsSum(f, w, D) /\ QueuedIn(st, D) = f[D]
  BY <1>1, QueuedIsSum
<1>3. \A p \in D : w[p] = 0
  BY <1>1
<1> QED BY <1>2, <1>3, SumZero

LEMMA QueuedNat ==
  ASSUME NEW D, IsFiniteSet(D), NEW st, \A p \in D : Len(st[p].mq) \in Nat
  PROVE  QueuedIn(st, D) \in Nat
<1>1. PICK w : w = [p \in D |-> Len(st[p].mq)]
  OBVIOUS
<1>2. PICK f : IsSum(f, w, D) /\ QueuedIn(st, D) = f[D]
  BY <1>1, QueuedIsSum
<1>3. w \in [D -> Nat]
  BY <1>1
<1> QED BY <1>2, <1>3, SumNat

-----------------------------------------------------------------------------
(* Commands and events, once more *)

Executes(o, m) ==
  \/ m.kind = "queue_step" /\ QueueStep(o, m.arg, now)
  \/ m.kind = "set_next_step_dir" /\ SetNextStepDir(o, m.arg)
  \/ m.kind = "reset_step_clock" /\ ResetStepClock(o, m.arg)

LEMMA ExecutesObeys ==
  ASSUME NEW o, StepperOK(stepper[o]), NEW v, Predicts(stepper[o], v),
         stepper = [p \in DOMAIN stepper |-> stepper[p]],
         free \in Nat, now \in Nat, NEW m, GoodMessage(m), Executes(o, m)
  PROVE  Obeys(o, CommandOf(m), v)
<1>1. PICK c : c = CommandOf(m)
  OBVIOUS
<1>2. /\ c \in Command /\ c.kind = m.kind /\ c.turn = FALSE
      /\ m.kind = "queue_step" => c.count = m.arg.count /\ c.dir = 0
      /\ m.kind = "set_next_step_dir" => c.dir = m.arg
  BY <1>1, GoodCommand
<1>3. free \in Int
  OBVIOUS
<1>4. CASE m.kind = "queue_step" /\ QueueStep(o, m.arg, now)
  <2>1. m.arg \in Move /\ Steady(m.arg)
    BY <1>4 DEF GoodMessage
  <2> QED BY <1>1, <1>2, <1>3, <1>4, <2>1, QueueStepObeys
<1>5. CASE m.kind = "set_next_step_dir" /\ SetNextStepDir(o, m.arg)
  <2>1. m.arg \in {0, 1}
    BY <1>5 DEF GoodMessage
  <2> QED BY <1>1, <1>2, <1>3, <1>5, <2>1, SetNextStepDirObeys
<1>6. CASE m.kind = "reset_step_clock" /\ ResetStepClock(o, m.arg)
  <2>1. ResetStepClock(o, 0)
    BY <1>6 DEF GoodMessage
  <2> QED BY <1>1, <1>2, <1>3, <1>6, <2>1, ResetStepClockObeys
<1> QED BY <1>4, <1>5, <1>6 DEF Executes

(* No command takes a node that is not there, and none makes a stopped motor
   move. *)
LEMMA ExecutesFree ==
  ASSUME NEW o, free \in Nat, NEW m, Executes(o, m)
  PROVE  free' \in Nat
<1>1. MoveCount \in Nat
  BY StepperAssumption
<1>2. CASE m.kind = "queue_step" /\ QueueStep(o, m.arg, now)
  <2>1. CASE free = 0
    BY <1>1, <1>2, <2>1 DEF QueueStep, StepperShutdown
  <2>2. CASE free # 0
    <3>1. free' = MoveCount \/ free' = free - 1 \/ free' = free
      BY <1>2, <2>2 DEF QueueStep, AddTimer, StepperShutdown, stepperVars
    <3> QED BY <1>1, <2>2, <3>1
  <2> QED BY <2>1, <2>2
<1>3. CASE m.kind = "set_next_step_dir" /\ SetNextStepDir(o, m.arg)
  BY <1>3 DEF SetNextStepDir
<1>4. CASE m.kind = "reset_step_clock" /\ ResetStepClock(o, m.arg)
  BY <1>1, <1>4 DEF ResetStepClock, StepperShutdown
<1> QED BY <1>2, <1>3, <1>4 DEF Executes

LEMMA ExecutesQuiet ==
  ASSUME NEW o \in DOMAIN stepper, stepper[o] \in StepperType,
         stepper = [p \in DOMAIN stepper |-> stepper[p]],
         NEW m, Executes(o, m), stepper[o].count = 0,
         m.kind = "queue_step" => stepper[o].need_reset
  PROVE  Shuts \/ stepper'[o].count = 0
<1>1. CASE m.kind = "queue_step" /\ QueueStep(o, m.arg, now)
  <2>1. stepper[o].need_reset
    BY <1>1
  <2>2. CASE free = 0
    BY <1>1, <2>2 DEF QueueStep, Shuts
  <2>3. CASE free # 0
    <3>1. stepper' = stepper
      BY <1>1, <2>1, <2>3 DEF QueueStep, stepperVars
    <3> QED BY <3>1
  <2> QED BY <2>2, <2>3
<1>2. CASE m.kind = "set_next_step_dir" /\ SetNextStepDir(o, m.arg)
  <2>1. stepper'[o] = [stepper[o] EXCEPT !.next_dir = m.arg]
    BY <1>2 DEF SetNextStepDir
  <2> QED BY <2>1 DEF StepperType
<1>3. CASE m.kind = "reset_step_clock" /\ ResetStepClock(o, m.arg)
  <2>1. stepper'[o] = [stepper[o] EXCEPT !.next_step_time = m.arg,
                                         !.waketime = m.arg, !.need_reset = FALSE]
    BY <1>3 DEF ResetStepClock
  <2> QED BY <2>1 DEF StepperType
<1> QED BY <1>1, <1>2, <1>3 DEF Executes

LEMMA EventFree ==
  ASSUME NEW o, free \in Nat, NEW curtime, StepperEvent(o, curtime)
  PROVE  free' \in Nat
<1>1. MoveCount \in Nat
  BY StepperAssumption
<1>2. \A s : LoadFreed(s) \in {0, 1}
  BY DEF LoadFreed
<1>3. CASE StepperEventEdge(o)
  <2>1. free' = free \/ \E s : free' = free + LoadFreed(s)
    BY <1>3 DEF StepperEventEdge
  <2> QED BY <1>2, <2>1
<1>4. CASE StepperEventFull(o, curtime)
  <2>1. free' = free \/ free' = MoveCount \/ \E s : free' = free + LoadFreed(s)
    BY <1>4 DEF StepperEventFull, StepperShutdown
  <2> QED BY <1>1, <1>2, <2>1
<1>5. CASE RescheduledInPast(o, curtime)
  BY <1>1, <1>5 DEF RescheduledInPast, StepperShutdown
<1> QED BY <1>3, <1>4, <1>5 DEF StepperEvent

-----------------------------------------------------------------------------
(* The invariant of the specification *)

Motors == DOMAIN scenario.plan

Good(o) ==
  MotorOK(stepper[o], sc[o], steps[o], generated[o], scenario.plan[o], stop)

On(o) ==
  \E v : Tracks(stepper[o], sc[o], wire, o, steps[o], generated[o], stop, phase, v)

Clocks ==
  /\ scenario \in Scenarios
  /\ now \in 1..Horizon /\ flushed \in 0..Horizon /\ stop \in 0..Horizon
  /\ phase \in {"homing", "querying", "done"}
  /\ phase = "querying" => stop # 0
  /\ fault \in Reasons \cup {"none"}

Shapes ==
  /\ stepper = [o \in Motors |-> stepper[o]]
  /\ DOMAIN sc = Motors
  /\ WireOK(wire, Motors)

PoolOK == free \in Nat /\ free + QueuedIn(stepper, Motors) = MoveCount

SyncInv ==
  /\ Clocks
  /\ Shapes
  /\ PoolOK
  /\ \A o \in Motors : Good(o)
  /\ fault = "none" => \A o \in Motors : On(o)

LEMMA MotorsFinite ==
  ASSUME NEW s \in Scenarios
  PROVE  /\ IsFiniteSet(DOMAIN s.plan) /\ DOMAIN s.plan \in SUBSET Nat
         /\ \A o \in DOMAIN s.plan :
              /\ s.plan[o] \in Seq([gap : Nat \ {0}, dir : {0, 1}])
              /\ Len(s.plan[o]) \in Nat /\ Len(s.plan[o]) < Bias
              /\ Bias + Len(s.plan[o]) < TopBit
              /\ \A i \in 1..Len(s.plan[o]) : /\ s.plan[o][i].gap \in Nat \ {0}
                                              /\ s.plan[o][i].dir \in {0, 1}
<1>1. /\ s.plan \in Seq(Seq([gap : Nat \ {0}, dir : {0, 1}]))
      /\ \A o \in DOMAIN s.plan : Len(s.plan[o]) < Bias /\ Bias + Len(s.plan[o]) < TopBit
  BY ScenariosAssumption
<1>2. PICK p : p = s.plan
  OBVIOUS
<1>3. Len(p) \in Nat /\ DOMAIN p = 1..Len(p)
  BY <1>1, <1>2
<1>4. IsFiniteSet(1..Len(p)) /\ 1..Len(p) \in SUBSET Nat
  BY <1>3, UpToOne
<1>5. ASSUME NEW o \in DOMAIN p
      PROVE  /\ p[o] \in Seq([gap : Nat \ {0}, dir : {0, 1}]) /\ Len(p[o]) \in Nat
             /\ \A i \in 1..Len(p[o]) : p[o][i].gap \in Nat \ {0} /\ p[o][i].dir \in {0, 1}
  <2>1. PICK q : q = p[o]
    OBVIOUS
  <2>2. q \in Seq([gap : Nat \ {0}, dir : {0, 1}])
    BY <1>1, <1>2, <2>1
  <2>3. Len(q) \in Nat /\ \A i \in 1..Len(q) : q[i] \in [gap : Nat \ {0}, dir : {0, 1}]
    <3>1. PICK S : S = [gap : Nat \ {0}, dir : {0, 1}]
      OBVIOUS
    <3>2. q \in Seq(S)
      BY <2>2, <3>1
    <3>3. Len(q) \in Nat /\ \A i \in 1..Len(q) : q[i] \in S
      BY <3>2
    <3> QED BY <3>1, <3>3
  <2>4. \A i \in 1..Len(q) : q[i].gap \in Nat \ {0} /\ q[i].dir \in {0, 1}
    BY <2>3
  <2> QED BY <2>1, <2>2, <2>3, <2>4
<1> QED BY <1>1, <1>2, <1>3, <1>4, <1>5

-----------------------------------------------------------------------------
(* Power-up *)

LEMMA NewStepperOK ==
  ASSUME NEW single \in BOOLEAN, NEW s, s = NewStepper(single), NEW v,
         v = [place |-> 0, dir |-> 0, stopped |-> FALSE, used |-> 0, resets |-> 0]
  PROVE  StepperOK(s) /\ s.motor = 0 /\ s.mq = <<>> /\ Predicts(s, v)
<1>1. Bias \in Nat /\ -Bias \in Int
  BY BiasInt
<1>2. Word(-Bias) \in 0..(2^W - 1) /\ Word(-Bias) \in Int
  BY <1>1, WordType
<1>3. <<>> \in Seq(QueuedMove) /\ Len(<<>>) = 0
  OBVIOUS
<1>4. s \in StepperType
  BY <1>2, <1>3 DEF NewStepper, StepperType
<1>5. /\ s.count = 0 /\ s.mq = <<>> /\ s.need_reset = FALSE /\ s.step_pin = 0
      /\ s.active = FALSE /\ s.waketime = 0 /\ s.position = Word(-Bias)
      /\ s.motor = 0 /\ s.dir_pin = 0 /\ s.last_dir = 0 /\ s.next_dir = 0
      /\ s.single = single
  BY DEF NewStepper
<1>6. Left(s) = 0
  BY <1>5 DEF Left
<1>7. PositionOK(s)
  <2>1. Signed(s) = -Bias
    BY <1>1, <1>5 DEF Signed
  <2>2. s.position - Left(s) = Word(-Bias)
    BY <1>2, <1>5, <1>6
  <2>3. Word(Word(-Bias)) = Word(-Bias)
    <3>1. PICK z \in Int : z = 0
      OBVIOUS
    <3>2. Word(Word(-Bias) + z) = Word(-Bias + z)
      BY <1>1, WordPlus
    <3> QED BY <1>1, <1>2, <3>1, <3>2
  <2> QED BY <2>1, <2>2, <2>3 DEF PositionOK
<1>8. Sound(s)
  <2>1. ~s.single => s.step_pin = s.count % 2
    BY <1>5
  <2>2. \A n \in 0..(s.count - 2) : s.interval + n * s.add >= 0
    BY <1>5
  <2> QED BY <1>4, <1>5, <1>7, <2>1, <2>2 DEF Sound
<1>9. StepperOK(s)
  BY <1>5, <1>8 DEF StepperOK
<1>10. v \in View /\ v.place = 0 /\ v.dir = 0 /\ v.stopped = FALSE /\ v.used = 0
  BY DEF View
<1>11. Faces(s, 0, v)
  <2>1. Moved(s.motor, s.dir_pin, 0) = 0
    BY <1>5 DEF Moved
  <2>2. Abs(s.motor) + 0 = 0
    BY <1>5 DEF Abs
  <2>3. Len(Loads(s.mq)) = 0
    <3>1. s.mq \in Seq(QueuedMove) /\ Len(s.mq) = 0
      BY <1>3, <1>5
    <3> QED BY <3>1, LoadsType
  <2>4. Runs(Loads(s.mq), v, v)
    BY <1>10, <2>3, RunsNothing
  <2> QED BY <1>5, <1>10, <2>1, <2>2, <2>4 DEF Faces
<1>12. Predicts(s, v)
  <2>1. v.dir = s.next_dir /\ v.dir = s.last_dir /\ v.used <= v.used
    BY <1>5, <1>10
  <2>2. v.stopped = s.need_reset
    BY <1>5, <1>10
  <2>3. Faces(s, Left(s), v)
    BY <1>6, <1>11
  <2> QED BY <1>10, <2>1, <2>2, <2>3 DEF Predicts
<1> QED BY <1>5, <1>9, <1>12

LEMMA MinusZero ==
  \E z \in Int : z = 0 /\ -z = z /\ z + z = z
<1>1. PICK z \in Int : z = 0
  OBVIOUS
<1>2. \A i \in Int : -i \in Int /\ (-i) + i = 0
  OBVIOUS
<1>3. PICK y \in Int : y = -z
  BY <1>2
<1>4. y + z = 0
  BY <1>2, <1>3
<1>5. y = z
  BY <1>1, <1>4
<1> QED BY <1>1, <1>3, <1>5

LEMMA NewHost ==
  ASSUME NEW invert \in {0, 1}, NEW x, x = NewStepCompress(invert), NEW v,
         v = [place |-> 0, dir |-> 0, stopped |-> FALSE, used |-> 0, resets |-> 0]
  PROVE  /\ Host(x, v, 0, 1, TRUE, 0)
         /\ Balance(x) = 0
<1>1. <<>> \in Seq(Nat) /\ <<>> \in Seq(Msg) /\ <<>> \in Seq(HistoryEntry) /\ Len(<<>>) = 0
  OBVIOUS
<1>2. x \in HostRecord
  BY <1>1 DEF NewStepCompress, HostRecord
<1>3. /\ x.queue = <<>> /\ x.next_step_clock = 0 /\ x.sdir = -1
      /\ x.last_step_clock = 0 /\ x.last_position = 0 /\ x.msg_queue = <<>>
      /\ Len(x.queue) = 0
  BY <1>1 DEF NewStepCompress
<1>4. HostOK(x, 1)
  BY <1>2, <1>3 DEF HostOK, Ordered
<1>5. Waits(x) = 0 /\ Balance(x) = 0
  <2>1. PICK z \in Int : z = 0 /\ -z = z /\ z + z = z
    BY MinusZero
  <2>2. -z = z /\ z + z = z
    BY <2>1
  <2>3. Times(x.sdir, Len(x.queue)) = z
    BY <1>3, <2>1, <2>2 DEF Times
  <2>4. Balance(x) = z + z + z
    BY <1>3, <2>1, <2>3 DEF Balance
  <2>5. Waits(x) = 0
    BY <1>3 DEF Waits
  <2> QED BY <2>1, <2>2, <2>4, <2>5
<1>6. /\ v \in View /\ v.place = 0 /\ v.stopped = FALSE /\ v.resets = 0 /\ v.used = 0
  BY DEF View
<1>7. Runs(Commands(x.msg_queue), v, v)
  <2>1. Len(Commands(x.msg_queue)) = 0
    BY <1>1, <1>3, CommandsType
  <2> QED BY <1>6, <2>1, RunsNothing
<1>8. HostPlace(x, v) = 0
  <2>1. PICK z \in Int : z = 0 /\ -z = z
    BY MinusZero
  <2>2. -z = z
    BY <2>1
  <2> QED BY <1>6, <2>1, <2>2 DEF HostPlace
<1>9. x.sdir \notin {0, 1}
  BY <1>3
<1>10. Goes(x, v, v, TRUE, 0)
  BY <1>3, <1>6, <1>7, <1>8, <1>9 DEF Goes
<1>11. v.used + Waits(x) <= 0
  BY <1>5, <1>6
<1> QED BY <1>4, <1>5, <1>10, <1>11 DEF Host

LEMMA WireEmpty ==
  ASSUME NEW D, NEW o
  PROVE  WireOK(<<>>, D) /\ Len(Seen(<<>>, o)) = 0
<1>1. <<>> \in Seq({}) /\ Len(<<>>) = 0
  OBVIOUS
<1>2. WireOK(<<>>, D)
  BY <1>1 DEF WireOK
<1>3. Len(Seen(<<>>, o)) = 0
  BY <1>1, <1>2, SeenType
<1> QED BY <1>2, <1>3

LEMMA InitInv ==
  ASSUME Init
  PROVE  SyncInv
<1>1. scenario \in Scenarios
  BY DEF Init
<1>2. PICK D : D = DOMAIN scenario.plan
  OBVIOUS
<1>3. /\ IsFiniteSet(D) /\ D \in SUBSET Nat
      /\ \A o \in D : Len(scenario.plan[o]) \in Nat
      /\ Motors = D
  BY <1>1, <1>2, MotorsFinite DEF Motors
<1>4. /\ scenario.single \in BOOLEAN /\ scenario.invert \in {0, 1}
      /\ Horizon \in Nat /\ Horizon >= 1
  BY <1>1, ScenariosAssumption
<1>5. /\ stepper = [o \in D |-> NewStepper(scenario.single)]
      /\ free = MoveCount /\ fault = "none"
      /\ sc = [o \in D |-> NewStepCompress(scenario.invert)]
      /\ wire = <<>> /\ now = 1 /\ flushed = 0 /\ stop = 0
      /\ generated = [o \in D |-> 1] /\ steps = [o \in D |-> 0]
      /\ phase \in {"homing", "done"}
  BY <1>2 DEF Init, StepperInit
<1>6. Clocks
  BY <1>1, <1>4, <1>5 DEF Clocks
<1>7. PICK v : v = [place |-> 0, dir |-> 0, stopped |-> FALSE, used |-> 0, resets |-> 0]
  OBVIOUS
<1>8. PICK s, x : s = NewStepper(scenario.single) /\ x = NewStepCompress(scenario.invert)
  OBVIOUS
<1>9. StepperOK(s) /\ s.motor = 0 /\ s.mq = <<>> /\ Predicts(s, v)
  BY <1>4, <1>7, <1>8, NewStepperOK
<1>10. Host(x, v, 0, 1, TRUE, 0) /\ Balance(x) = 0
  BY <1>4, <1>7, <1>8, NewHost
<1>11. Shapes
  <2>1. WireOK(wire, Motors)
    BY <1>5, WireEmpty
  <2> QED BY <1>3, <1>5, <2>1 DEF Shapes
<1>12. PoolOK
  <2>1. QueuedIn(stepper, D) = 0
    <3>1. \A o \in D : stepper[o].mq = <<>>
      BY <1>5, <1>8, <1>9
    <3> QED BY <1>3, <3>1, QueuedNone
  <2>2. MoveCount \in Nat
    BY StepperAssumption
  <2> QED BY <1>3, <1>5, <2>1, <2>2 DEF PoolOK
<1>13. ASSUME NEW o \in Motors PROVE Good(o) /\ On(o)
  <2>1. /\ stepper[o] = s /\ sc[o] = x /\ generated[o] = 1 /\ steps[o] = 0
        /\ o \in D
    BY <1>3, <1>5, <1>8
  <2>2. PICK p : p = scenario.plan[o]
    OBVIOUS
  <2>3. Len(p) \in Nat /\ Len(p) < Bias /\ Bias + Len(p) < TopBit
    BY <1>1, <1>2, <2>1, <2>2, MotorsFinite
  <2>4. Bias \in Nat /\ TopBit \in Nat
    BY BiasInt, Sizes
  <2>5. InRange(s)
    BY <1>9, <2>3, <2>4 DEF InRange
  <2>6. HostOK(x, 1)
    BY <1>10 DEF Host
  <2>7. MotorOK(s, x, 0, 1, p, 0)
    BY <1>4, <1>9, <1>10, <2>3, <2>5, <2>6, WaysNone DEF MotorOK
  <2>8. Carries(x, wire, o, v, 0, 1, TRUE, 0)
    <3>1. v \in View
      BY <1>9 DEF Predicts
    <3>2. Runs(Seen(wire, o), v, v)
      BY <1>5, <3>1, WireEmpty, RunsNothing
    <3> QED BY <1>10, <3>1, <3>2 DEF Carries
  <2>9. /\ Believed(0, phase, v) = 0 /\ Cleared(0, phase) = 0
        /\ Known(0, phase) = TRUE /\ v.used <= 0
    BY <1>5, <1>7 DEF Believed, Cleared, Known
  <2>10. Tracks(s, x, wire, o, 0, 1, 0, phase, v)
    BY <1>9, <2>8, <2>9 DEF Tracks
  <2> QED BY <1>5, <2>1, <2>2, <2>7, <2>10 DEF Good, On
<1> QED BY <1>6, <1>11, <1>12, <1>13 DEF SyncInv

LEMMA WaysInt ==
  ASSUME NEW n \in Nat, NEW p, Planned(p, n)
  PROVE  WaysTo(p, n) \in Int
<1>1. CASE n = 0
  BY <1>1, WaysNone
<1>2. CASE n # 0
  <2>1. PICK m \in Nat : m + 1 = n
    <3>1. n - 1 \in Nat /\ (n - 1) + 1 = n
      BY <1>2
    <3> QED BY <3>1
  <2>2. \A k \in 1..(m + 1) : Way(p[k].dir) \in Int
    BY <2>1 DEF Planned, Way
  <2>3. WaysTo(p, m + 1) \in Int
    BY <2>2, WaysStep
  <2> QED BY <2>1, <2>3
<1> QED BY <1>1, <1>2

(* What the invariant says of one motor. *)
LEMMA GoodFacts ==
  ASSUME SyncInv, fault = "none", NEW o \in Motors
  PROVE  /\ StepperOK(stepper[o]) /\ InRange(stepper[o])
         /\ generated[o] \in Nat /\ generated[o] <= Horizon /\ generated[o] < Forever
         /\ steps[o] \in Nat
         /\ stop = 0 => Balance(sc[o]) = WaysTo(scenario.plan[o], steps[o])
         /\ \E v : Tracks(stepper[o], sc[o], wire, o, steps[o], generated[o],
                          stop, phase, v)
<1>1. Good(o) /\ On(o)
  BY DEF SyncInv
<1>2. Horizon \in Nat /\ Horizon < Forever /\ Forever \in Nat
  BY ScenariosAssumption, StepCompressAssumption
<1>3. generated[o] \in Nat /\ generated[o] <= Horizon
  BY <1>1 DEF Good, MotorOK
<1>4. generated[o] < Forever
  BY <1>2, <1>3
<1> QED BY <1>1, <1>3, <1>4 DEF Good, MotorOK, On

LEMMA TrackFacts ==
  ASSUME NEW s, NEW x, NEW r, NEW o, NEW n \in Nat, NEW g \in Nat, NEW stp, NEW ph, NEW v,
         Tracks(s, x, r, o, n, g, stp, ph, v)
  PROVE  \E u \in View, t \in Int, b \in BOOLEAN, k \in Int :
            /\ v \in View /\ v.used <= n /\ v.used \in Nat
            /\ t = Believed(n, ph, v) /\ b = Known(stp, ph) /\ k = Cleared(stp, ph)
            /\ v.used <= t /\ t <= n
            /\ Runs(Seen(r, o), v, u) /\ Host(x, u, t, g, b, k)
            /\ Carries(x, r, o, v, t, g, b, k)
<1>1. v \in View /\ v.used <= n /\ v.used \in Nat
  BY DEF Tracks, Predicts, View
<1>2. n \in Int
  OBVIOUS
<1>3. PICK t \in Int, b \in BOOLEAN, k \in Int :
        t = Believed(n, ph, v) /\ b = Known(stp, ph) /\ k = Cleared(stp, ph)
  BY <1>1, <1>2, ModeType
<1>4. v.used <= t /\ t <= n
  BY <1>1, <1>2, <1>3, ModeType
<1>5. Carries(x, r, o, v, t, g, b, k)
  BY <1>3 DEF Tracks
<1>6. PICK u \in View : Runs(Seen(r, o), v, u) /\ Host(x, u, t, g, b, k)
  BY <1>5 DEF Carries
<1> QED BY <1>1, <1>3, <1>4, <1>5, <1>6

(* itersolve_generate_steps of one motor. *)
LEMMA GenerateTracks ==
  ASSUME SyncInv, fault = "none", NEW o \in Motors, NEW n \in Nat,
         steps[o] + n <= Len(scenario.plan[o]), n > 0 => phase # "querying",
         GeneratedClock(o, n) <= Horizon, NEW y \in Generate(o, n),
         NEW v, Tracks(stepper[o], sc[o], wire, o, steps[o], generated[o], stop, phase, v)
  PROVE  /\ GeneratedClock(o, n) \in Nat /\ GeneratedClock(o, n) < Forever
         /\ Flushable(y)
         /\ stop = 0 => Balance(y) = WaysTo(scenario.plan[o], steps[o] + n)
         /\ Carries(y, wire, o, v, Believed(steps[o] + n, phase, v),
                    GeneratedClock(o, n), Known(stop, phase), Cleared(stop, phase))
<1>1. /\ generated[o] \in Nat /\ generated[o] < Forever /\ steps[o] \in Nat
      /\ stop = 0 => Balance(sc[o]) = WaysTo(scenario.plan[o], steps[o])
  BY GoodFacts
<1>2. PICK u \in View, t \in Int, b \in BOOLEAN, k \in Int :
        /\ v \in View /\ t = Believed(steps[o], phase, v)
        /\ b = Known(stop, phase) /\ k = Cleared(stop, phase)
        /\ Runs(Seen(wire, o), v, u) /\ Host(sc[o], u, t, generated[o], b, k)
  BY <1>1, TrackFacts
<1>3. PICK m, g : m = steps[o] + n /\ g = GeneratedClock(o, n)
  OBVIOUS
<1>4. m \in Nat /\ steps[o] <= m
  BY <1>1, <1>3
<1>5. Planned(scenario.plan[o], m) /\ Planned(scenario.plan[o], steps[o])
  <2>1. scenario \in Scenarios /\ o \in DOMAIN scenario.plan
    BY DEF SyncInv, Clocks, Motors
  <2>2. /\ Len(scenario.plan[o]) \in Nat
        /\ \A i \in 1..Len(scenario.plan[o]) : /\ scenario.plan[o][i].gap \in Nat \ {0}
                                               /\ scenario.plan[o][i].dir \in {0, 1}
    BY <2>1, MotorsFinite
  <2>3. m <= Len(scenario.plan[o])
    BY <1>3
  <2> QED BY <1>1, <1>4, <2>2, <2>3, SMTT(30) DEF Planned
<1>6. Horizon \in Nat /\ Horizon < Forever /\ Forever \in Nat
  BY ScenariosAssumption, StepCompressAssumption
<1>7. now \in Nat /\ flushed \in Nat
  BY <1>6 DEF SyncInv, Clocks
<1>8. n > 0 => StepClock(o, n) <= Horizon
  BY DEF GeneratedClock
<1>9. n > 0 => StepClock(o, n) < Forever
  <2>1. \A k2 \in 0..n : StepClock(o, k2) \in Nat
    <3>1. \A i \in 1..n : scenario.plan[o][steps[o] + i].gap \in Nat \ {0}
      <4>1. \A i \in 1..n : steps[o] + i \in 1..m
        BY <1>1, <1>3
      <4> QED BY <1>5, <4>1 DEF Planned
    <3> QED BY <1>1, <1>7, <3>1, StepClocks
  <2>2. StepClock(o, n) \in Nat
    BY <2>1
  <2> QED BY <1>6, <1>8, <2>2
<1>10. MayGenerate(o, n, u, t, b, k)
  <2>1. Planned(scenario.plan[o], steps[o] + n)
    BY <1>3, <1>5
  <2> QED BY <1>1, <1>2, <1>7, <1>9, <2>1 DEF MayGenerate
<1>11. /\ Host(y, u, t + n, g, b, k) /\ g \in Nat
       /\ Balance(y) - WaysTo(scenario.plan[o], m)
              = Balance(sc[o]) - WaysTo(scenario.plan[o], steps[o])
  <2>1. /\ Host(y, u, t + n, GeneratedClock(o, n), b, k)
        /\ GeneratedClock(o, n) \in Nat
        /\ Balance(y) - WaysTo(scenario.plan[o], steps[o] + n)
              = Balance(sc[o]) - WaysTo(scenario.plan[o], steps[o])
    BY <1>10, GenerateHost
  <2> QED BY <1>3, <2>1
<1>12. g < Forever
  BY <1>3, <1>6, <1>11
<1>13. stop = 0 => Balance(y) = WaysTo(scenario.plan[o], m)
  <2>1. y \in HostRecord /\ sc[o] \in HostRecord
    BY <1>2, <1>11 DEF Host, HostOK
  <2>2. PICK a \in Int : a = Balance(y)
    BY <2>1, BalanceInt
  <2>3. PICK c, d \in Int : /\ c = WaysTo(scenario.plan[o], m)
                            /\ d = WaysTo(scenario.plan[o], steps[o])
    BY <1>1, <1>4, <1>5, WaysInt
  <2>4. stop = 0 => a - c = d - d
    BY <1>1, <1>11, <2>2, <2>3
  <2>5. stop = 0 => a = c
    BY <2>2, <2>3, <2>4
  <2> QED BY <2>2, <2>3, <2>5
<1>14. t + n \in Int /\ t + n = Believed(m, phase, v)
  <2>1. v.used \in Nat
    BY <1>2 DEF View
  <2>2. CASE phase = "querying"
    <3>1. n = 0 /\ t = v.used
      BY <1>2, <2>2 DEF Believed
    <3> QED BY <2>1, <2>2, <3>1 DEF Believed
  <2>3. CASE phase # "querying"
    <3>1. t = steps[o]
      BY <1>2, <2>3 DEF Believed
    <3> QED BY <1>1, <1>3, <2>3, <3>1 DEF Believed
  <2> QED BY <2>2, <2>3
<1>15. Flushable(y)
  BY <1>11, <1>12, <1>14 DEF Flushable
<1>16. Carries(y, wire, o, v, t + n, g, b, k)
  BY <1>2, <1>11 DEF Carries
<1> QED BY <1>2, <1>3, <1>11, <1>12, <1>13, <1>14, <1>15, <1>16

(* toolhead.py, stepcompress.c: steps are generated and flushed. *)
LEMMA AdvanceKeeps ==
  ASSUME SyncInv, AdvanceFlushTime
  PROVE  SyncInv'
<1>1. fault = "none" /\ scenario \in Scenarios /\ DOMAIN stepper = Motors
  BY DEF AdvanceFlushTime, SyncInv, Clocks, Shapes
<1>2. PICK D : D = Motors
  OBVIOUS
<1>3. IsFiniteSet(D) /\ D \in SUBSET Nat /\ Oids = D /\ DOMAIN sc = D /\ WireOK(wire, D)
  <2>1. IsFiniteSet(D) /\ D \in SUBSET Nat
    BY <1>1, <1>2, MotorsFinite DEF Motors
  <2> QED BY <1>1, <1>2, <2>1 DEF Oids, SyncInv, Shapes
<1>4. PICK n \in [Oids -> 0..Max({Len(scenario.plan[o]) : o \in Oids})] :
        /\ \A o \in Oids : /\ steps[o] + n[o] <= Len(scenario.plan[o])
                           /\ n[o] > 0 => phase # "querying"
        /\ generated' = [o \in Oids |-> IF n[o] = 0 THEN generated[o]
                                        ELSE StepClock(o, n[o])]
        /\ \A o \in Oids : generated'[o] <= Horizon
        /\ steps' = [o \in Oids |-> steps[o] + n[o]]
        /\ \E flush_time \in UNION {{generated'[o] - 1, generated'[o]} : o \in Oids} :
              /\ flush_time \in flushed..Horizon
              /\ flushed' = flush_time
              /\ \E x \in EachOf([o \in Oids |-> Generate(o, n[o])]) :
                 \E st \in steppersync_flush(x, move_clocks, flush_time) :
                    /\ st.sc # sc
                    /\ sc' = st.sc
                    /\ move_clocks' = st.move_clocks
                    /\ wire' = wire \o st.msgs
  BY DEF AdvanceFlushTime
<1>5. PICK F : F = [o \in Oids |-> Generate(o, n[o])]
  OBVIOUS
<1>6. PICK flush_time, x, st :
        /\ flush_time \in flushed..Horizon /\ flushed' = flush_time
        /\ x \in EachOf(F) /\ st \in steppersync_flush(x, move_clocks, flush_time)
        /\ sc' = st.sc /\ wire' = wire \o st.msgs
  BY <1>4, <1>5
<1>7. DOMAIN x = D /\ \A o \in D : x[o] \in Generate(o, n[o])
  BY <1>3, <1>5, <1>6 DEF EachOf
<1>8. \A o \in D : n[o] \in Nat
  <2>1. PICK top : top = Max({Len(scenario.plan[o]) : o \in Oids})
    OBVIOUS
  <2>2. n \in [Oids -> 0..top]
    BY <1>4, <2>1
  <2>3. \A o \in D : n[o] \in 0..top
    BY <1>3, <2>2
  <2> QED BY <2>3
<1>9. ASSUME NEW o \in D
      PROVE  /\ generated'[o] = GeneratedClock(o, n[o]) /\ generated'[o] \in Nat
             /\ generated'[o] <= Horizon /\ generated'[o] < Forever
             /\ steps'[o] = steps[o] + n[o] /\ steps[o] \in Nat /\ steps'[o] \in Nat
             /\ steps[o] <= steps'[o] /\ steps'[o] <= Len(scenario.plan[o])
             /\ Flushable(x[o])
             /\ stop = 0 => Balance(x[o]) = WaysTo(scenario.plan[o], steps'[o])
             /\ \A v : Tracks(stepper[o], sc[o], wire, o, steps[o], generated[o],
                              stop, phase, v)
                  => Carries(x[o], wire, o, v, Believed(steps'[o], phase, v),
                             generated'[o], Known(stop, phase), Cleared(stop, phase))
  <2>1. /\ generated'[o] = GeneratedClock(o, n[o]) /\ generated'[o] <= Horizon
        /\ steps'[o] = steps[o] + n[o] /\ steps[o] + n[o] <= Len(scenario.plan[o])
        /\ n[o] > 0 => phase # "querying"
    <3>1. o \in Oids
      BY <1>3
    <3> QED BY <1>4, <3>1 DEF GeneratedClock
  <2>2. n[o] \in Nat /\ o \in Motors
    BY <1>2, <1>8
  <2>3. PICK k \in Nat : k = n[o]
    BY <2>2
  <2>4. /\ steps[o] + k <= Len(scenario.plan[o]) /\ (k > 0 => phase # "querying")
        /\ GeneratedClock(o, k) <= Horizon /\ x[o] \in Generate(o, k)
    BY <1>7, <2>1, <2>3
  <2>5. PICK y : y = x[o]
    OBVIOUS
  <2>6. ASSUME NEW v, Tracks(stepper[o], sc[o], wire, o, steps[o], generated[o],
                             stop, phase, v)
        PROVE  /\ GeneratedClock(o, k) \in Nat /\ GeneratedClock(o, k) < Forever
               /\ Flushable(y)
               /\ stop = 0 => Balance(y) = WaysTo(scenario.plan[o], steps[o] + k)
               /\ Carries(y, wire, o, v, Believed(steps[o] + k, phase, v),
                          GeneratedClock(o, k), Known(stop, phase), Cleared(stop, phase))
    BY <1>1, <2>2, <2>4, <2>5, <2>6, GenerateTracks
  <2>7. /\ steps[o] \in Nat
        /\ \E v : Tracks(stepper[o], sc[o], wire, o, steps[o], generated[o],
                         stop, phase, v)
    BY <1>1, <2>2, GoodFacts
  <2>8. steps'[o] = steps[o] + k /\ generated'[o] = GeneratedClock(o, k)
    BY <2>1, <2>3
  <2>9. steps'[o] \in Nat /\ steps[o] <= steps'[o]
    BY <2>7, <2>8
  <2>10. /\ GeneratedClock(o, k) \in Nat /\ GeneratedClock(o, k) < Forever
         /\ Flushable(y)
         /\ stop = 0 => Balance(y) = WaysTo(scenario.plan[o], steps[o] + k)
    BY <2>6, <2>7
  <2> QED BY <2>1, <2>5, <2>6, <2>7, <2>8, <2>9, <2>10
<1>10. Sends(D, wire, x, st)
  BY <1>3, <1>6, <1>7, <1>9, FlushSends
<1>11. UNCHANGED <<stepper, free, fault, phase, scenario, now, stop>>
  BY DEF AdvanceFlushTime, stepperVars
<1>12. ASSUME NEW o \in D PROVE Good(o)' /\ On(o)'
  <2>1. PICK y, z, s, p, g, m :
          /\ y = x[o] /\ z = sc'[o] /\ s = stepper[o] /\ p = scenario.plan[o]
          /\ g = generated'[o] /\ m = steps'[o]
    OBVIOUS
  <2>2. /\ Balance(z) = Balance(y)
        /\ \A v \in View, t \in Int, h \in Nat, b \in BOOLEAN, k \in Int :
             h < Forever /\ Carries(y, wire, o, v, t, h, b, k)
               => Carries(z, wire', o, v, t, h, b, k)
    BY <1>6, <1>10, <2>1 DEF Sends
  <2>3. StepperOK(s) /\ InRange(s)
    BY <1>1, <1>2, <2>1, GoodFacts
  <2>4. PICK v : Tracks(s, sc[o], wire, o, steps[o], generated[o], stop, phase, v)
    BY <1>1, <1>2, <2>1, GoodFacts
  <2>5. PICK t, b, k : t = Believed(m, phase, v) /\ b = Known(stop, phase)
                       /\ k = Cleared(stop, phase)
    OBVIOUS
  <2>6. /\ g \in Nat /\ g <= Horizon /\ g < Forever /\ m \in Nat /\ steps[o] <= m
        /\ steps[o] \in Nat /\ m <= Len(p)
        /\ stop = 0 => Balance(y) = WaysTo(p, m)
        /\ Carries(y, wire, o, v, t, g, b, k)
    BY <1>9, <2>1, <2>4, <2>5
  <2>7. v \in View /\ v.used <= steps[o] /\ v.used \in Nat
    BY <2>4 DEF Tracks, Predicts, View
  <2>8. t \in Int /\ k \in Int /\ b \in BOOLEAN
    BY <2>5, <2>6, <2>7, ModeType
  <2>9. Carries(z, wire', o, v, t, g, b, k)
    BY <2>2, <2>6, <2>7, <2>8
  <2>10. HostOK(z, g)
    BY <2>9 DEF Carries, Host
  <2>11. MotorOK(s, z, m, g, p, stop)
    BY <2>2, <2>3, <2>6, <2>10 DEF MotorOK
  <2>12. Tracks(s, z, wire', o, m, g, stop, phase, v)
    <3>1. v.used <= m
      BY <2>6, <2>7
    <3> QED BY <2>4, <2>5, <2>9, <3>1 DEF Tracks
  <2>13. Good(o)'
    BY <1>11, <2>1, <2>11 DEF Good
  <2>14. On(o)'
    BY <1>11, <2>1, <2>12 DEF On
  <2> QED BY <2>13, <2>14
<1>13. Motors' = D
  BY <1>2, <1>11 DEF Motors
<1>14. Shapes'
  <2>1. DOMAIN sc' = D /\ WireOK(wire', D)
    BY <1>6, <1>10 DEF Sends, MergeOK
  <2> QED BY <1>2, <1>11, <1>13, <2>1 DEF Shapes, SyncInv
<1>15. Clocks'
  <2>1. flushed \in 0..Horizon /\ Horizon \in Nat
    BY ScenariosAssumption DEF SyncInv, Clocks
  <2>2. flushed' \in 0..Horizon
    BY <1>6, <2>1
  <2> QED BY <1>11, <2>2 DEF SyncInv, Clocks
<1>16. PoolOK'
  BY <1>2, <1>11, <1>13 DEF SyncInv, PoolOK
<1> QED BY <1>12, <1>13, <1>14, <1>15, <1>16 DEF SyncInv

(* The clock passes. *)
LEMMA TickKeeps ==
  ASSUME SyncInv, Tick
  PROVE  SyncInv'
<1>1. /\ UNCHANGED <<stepper, free, fault, sc, generated, steps, flushed, phase,
                     scenario, wire, stop>>
      /\ now' = now + 1 /\ now < Horizon
  BY DEF Tick, stepperVars, hostVars
<1>2. Horizon \in Nat
  BY ScenariosAssumption
<1>3. Clocks'
  <2>1. now' \in 1..Horizon
    BY <1>1, <1>2 DEF SyncInv, Clocks
  <2> QED BY <1>1, <2>1 DEF SyncInv, Clocks
<1>4. Motors' = Motors
  BY <1>1 DEF Motors
<1>5. Shapes' /\ PoolOK'
  BY <1>1, <1>4 DEF SyncInv, Shapes, PoolOK
<1>6. ASSUME NEW o \in Motors PROVE Good(o)' /\ (fault = "none" => On(o)')
  <2>1. Good(o) /\ (fault = "none" => On(o))
    BY DEF SyncInv
  <2> QED BY <1>1, <2>1 DEF Good, On
<1> QED BY <1>1, <1>3, <1>4, <1>5, <1>6 DEF SyncInv

(* What the host has yet to send brings no fewer steps and resets. *)
Ahead(v, u, t, k) ==
  /\ v.resets <= u.resets /\ u.resets <= k /\ v.used <= u.used /\ u.used <= t
  /\ v.resets \in Nat /\ u.resets \in Nat /\ v.used \in Nat /\ u.used \in Nat
  /\ v.stopped \in BOOLEAN /\ u.stopped \in BOOLEAN
  /\ (v.resets = u.resets /\ v.stopped = TRUE) => u.used = v.used /\ u.stopped = TRUE

LEMMA HostRuns ==
  ASSUME NEW x, NEW u \in View, NEW t \in Int, NEW g \in Nat, NEW b \in BOOLEAN,
         NEW k \in Int, Host(x, u, t, g, b, k),
         NEW D, NEW r, WireOK(r, D), NEW o, NEW v \in View, Runs(Seen(r, o), v, u)
  PROVE  Ahead(v, u, t, k)
<1>1. PICK w : Goes(x, u, w, b, k) /\ w.used + Waits(x) <= t
  BY DEF Host
<1>2. x \in HostRecord
  BY DEF Host, HostOK
<1>3. x.msg_queue \in Seq(Msg) /\ Waits(x) \in Nat
  BY <1>2, HostFields
<1>4. PICK d : d = Commands(x.msg_queue)
  OBVIOUS
<1>5. d \in Seq(Command) /\ Runs(d, u, w) /\ w.resets = k
  BY <1>1, <1>3, <1>4, CommandsType DEF Goes
<1>6. w \in View /\ u.used <= w.used /\ u.resets <= w.resets
  BY <1>5, RunsProps
<1>7. PICK c : c = Seen(r, o)
  OBVIOUS
<1>8. c \in Seq(Command) /\ Len(c) = Len(r) /\ \A i \in 1..Len(r) : c[i].kind # "load"
  BY <1>7, SeenType
<1>9. /\ v.used <= u.used /\ v.resets <= u.resets
      /\ v.resets = u.resets => u.stopped = v.stopped
      /\ v.resets = u.resets /\ v.stopped => u.used = v.used
  <2>1. Runs(c, v, u)
    BY <1>7
  <2>2. /\ v.used <= u.used /\ v.resets <= u.resets
        /\ v.resets = u.resets => u.stopped = v.stopped
    BY <1>8, <2>1, RunsProps
  <2>3. \A i \in 1..Len(c) : c[i].kind # "load"
    BY <1>8
  <2>4. v.resets = u.resets /\ v.stopped => v.used = u.used
    BY <1>8, <2>1, <2>3, RunsProps
  <2> QED BY <2>2, <2>4
<1>10. /\ v.resets \in Nat /\ u.resets \in Nat /\ v.used \in Nat /\ u.used \in Nat
       /\ w.used \in Nat /\ v.stopped \in BOOLEAN /\ u.stopped \in BOOLEAN
  BY <1>6 DEF View
<1>11. u.used <= t
  BY <1>1, <1>3, <1>6, <1>10
<1> QED BY <1>5, <1>6, <1>9, <1>10, <1>11 DEF Ahead

LEMMA ResetTracks ==
  ASSUME SyncInv, fault = "none", phase = "homing", stop # 0, NEW o \in Motors,
         NEW y \in stepcompress_reset(sc[o], 0),
         NEW z \in stepcompress_queue_msg(y, "reset_step_clock", 0)
  PROVE  /\ HostOK(z, generated[o])
         /\ \E v : Tracks(stepper[o], z, wire, o, steps[o], generated[o],
                          stop, "querying", v)
<1>1. PICK v : Tracks(stepper[o], sc[o], wire, o, steps[o], generated[o],
                      stop, phase, v)
  BY GoodFacts
<1>2. /\ generated[o] \in Nat /\ generated[o] < Forever /\ steps[o] \in Nat
  BY GoodFacts
<1>3. PICK u \in View, t \in Int, b \in BOOLEAN, k \in Int :
        /\ v \in View /\ v.used <= steps[o] /\ v.used \in Nat
        /\ k = Cleared(stop, phase)
        /\ Runs(Seen(wire, o), v, u) /\ Host(sc[o], u, t, generated[o], b, k)
  BY <1>1, <1>2, TrackFacts
<1>4. k = 0
  BY <1>3 DEF Cleared
<1>5. PICK x, g : x = sc[o] /\ g = generated[o]
  OBVIOUS
<1>6. Host(x, u, t, g, b, k) /\ g \in Nat /\ g < Forever
  BY <1>2, <1>3, <1>5
<1>7. WireOK(wire, Motors)
  BY DEF SyncInv, Shapes
<1>8. /\ v.resets <= u.resets /\ u.resets <= k /\ v.resets \in Nat /\ u.resets \in Nat
      /\ v.resets = u.resets /\ v.stopped = TRUE => u.used = v.used /\ u.stopped = TRUE
  <2>1. Ahead(v, u, t, k)
    BY <1>3, <1>6, <1>7, HostRuns
  <2> QED BY <2>1 DEF Ahead
<1>9. v.resets = 0 /\ u.resets = 0 /\ v.stopped = TRUE
  <2>1. v.resets = 0 /\ u.resets = 0
    BY <1>4, <1>8
  <2> QED BY <1>1, <2>1 DEF Tracks
<1>10. u.used = v.used /\ u.stopped = TRUE
  BY <1>8, <1>9
<1>11. Host(z, u, u.used, g, FALSE, 1)
  <2>1. Resetting(x, u, t, g, b)
    BY <1>4, <1>6, <1>9, <1>10 DEF Resetting
  <2>2. ResetTo(x, z)
    BY <1>5 DEF ResetTo
  <2>3. WasReset(z, u, g)
    BY <1>6, <2>1, <2>2, ResetHost
  <2> QED BY <2>3 DEF WasReset
<1>12. Carries(z, wire, o, v, v.used, g, FALSE, 1)
  BY <1>3, <1>10, <1>11 DEF Carries
<1>13. /\ Believed(steps[o], "querying", v) = v.used /\ Known(stop, "querying") = FALSE
       /\ Cleared(stop, "querying") = 1
  BY DEF Believed, Known, Cleared
<1>14. stepper[o].count = 0
  BY <1>1 DEF Tracks
<1>15. Tracks(stepper[o], z, wire, o, steps[o], g, stop, "querying", v)
  BY <1>1, <1>9, <1>12, <1>13, <1>14, <1>3 DEF Tracks
<1>16. HostOK(z, g)
  BY <1>11 DEF Host
<1> QED BY <1>5, <1>15, <1>16

(* MCU_stepper.note_homing_end, up to the query. *)
LEMMA NoteHomingEndKeeps ==
  ASSUME SyncInv, NoteHomingEnd
  PROVE  SyncInv'
<1>1. /\ fault = "none" /\ phase = "homing" /\ stop # 0 /\ phase' = "querying"
      /\ UNCHANGED <<stepper, free, fault, flushed, generated, steps, scenario,
                     now, wire, stop>>
  BY DEF NoteHomingEnd, stepperVars
<1>2. DOMAIN stepper = Motors /\ Oids = Motors
  BY DEF SyncInv, Shapes, Oids
<1>3. DOMAIN sc' = Motors
      /\ \A o \in Motors : \E y \in stepcompress_reset(sc[o], 0) :
           sc'[o] \in stepcompress_queue_msg(y, "reset_step_clock", 0)
  <2>1. PICK F : F = [o \in Oids |-> UNION {stepcompress_queue_msg(y, "reset_step_clock", 0) :
                                             y \in stepcompress_reset(sc[o], 0)}]
    OBVIOUS
  <2>2. sc' \in EachOf(F)
    BY <2>1 DEF NoteHomingEnd
  <2>3. DOMAIN sc' = Motors /\ \A o \in Motors : sc'[o] \in F[o]
    BY <1>2, <2>1, <2>2 DEF EachOf
  <2> QED BY <1>2, <2>1, <2>3
<1>4. Motors' = Motors
  BY <1>1 DEF Motors
<1>5. Clocks' /\ Shapes' /\ PoolOK'
  BY <1>1, <1>3, <1>4 DEF SyncInv, Clocks, Shapes, PoolOK
<1>6. ASSUME NEW o \in Motors PROVE Good(o)' /\ On(o)'
  <2>1. PICK z : z = sc'[o]
    OBVIOUS
  <2>2. /\ HostOK(z, generated[o])
        /\ \E v : Tracks(stepper[o], z, wire, o, steps[o], generated[o],
                         stop, "querying", v)
    BY <1>1, <1>3, <2>1, ResetTracks
  <2>3. Good(o)
    BY DEF SyncInv
  <2>4. MotorOK(stepper[o], z, steps[o], generated[o], scenario.plan[o], stop)
    BY <1>1, <2>2, <2>3 DEF Good, MotorOK
  <2> QED BY <1>1, <2>1, <2>2, <2>4 DEF Good, On
<1> QED BY <1>4, <1>5, <1>6 DEF SyncInv

LEMMA KnownTracks ==
  ASSUME SyncInv, fault = "none", phase = "querying", NEW o \in Motors,
         NEW z \in stepcompress_set_last_position(sc[o], now,
                       Sign(o) * Reported(stepper[o]))
  PROVE  /\ HostOK(z, generated[o])
         /\ \E v : Tracks(stepper[o], z, wire, o, steps[o], generated[o],
                          stop, "done", v)
<1>1. PICK v : Tracks(stepper[o], sc[o], wire, o, steps[o], generated[o],
                      stop, phase, v)
  BY GoodFacts
<1>2. /\ generated[o] \in Nat /\ generated[o] < Forever /\ steps[o] \in Nat
      /\ StepperOK(stepper[o]) /\ InRange(stepper[o])
  BY GoodFacts
<1>3. PICK u \in View, t \in Int, b \in BOOLEAN, k \in Int :
        /\ v \in View /\ v.used <= steps[o] /\ v.used \in Nat
        /\ t = Believed(steps[o], phase, v) /\ b = Known(stop, phase)
        /\ k = Cleared(stop, phase)
        /\ Runs(Seen(wire, o), v, u) /\ Host(sc[o], u, t, generated[o], b, k)
  BY <1>1, <1>2, TrackFacts
<1>4. stop # 0 /\ now \in Nat
  <2>1. Horizon \in Nat
    BY ScenariosAssumption
  <2> QED BY <2>1 DEF SyncInv, Clocks
<1>5. k = 1 /\ t = v.used /\ b = FALSE
  BY <1>3, <1>4 DEF Cleared, Believed, Known
<1>6. stepper[o].count = 0
  BY <1>1, <1>4 DEF Tracks
<1>7. Reported(stepper[o]) = v.place /\ v.place \in Int
  <2>1. Sound(stepper[o]) /\ stepper[o] \in StepperType /\ PositionOK(stepper[o])
    BY <1>2 DEF StepperOK, Sound
  <2>2. Reported(stepper[o]) = stepper[o].motor
    BY <1>2, <2>1, PositionTrue
  <2>3. Predicts(stepper[o], v)
    BY <1>1 DEF Tracks
  <2>4. stepper[o].motor = v.place
    BY <1>6, <2>1, <2>3, PredictsBound
  <2> QED BY <1>3, <2>2, <2>4 DEF View
<1>8. PICK x, g : x = sc[o] /\ g = generated[o]
  OBVIOUS
<1>9. Host(x, u, v.used, g, FALSE, 1) /\ g \in Nat /\ g < Forever
  BY <1>2, <1>3, <1>5, <1>8
<1>10. Sign(o) * Reported(stepper[o]) = HostPlace(x, v)
  <2>1. PICK p \in Int : p = v.place
    BY <1>7
  <2>2. (-1) * p = -p /\ 1 * p = p
    BY <2>1
  <2>3. CASE sc[o].invert_sdir = 1
    BY <1>7, <1>8, <2>1, <2>2, <2>3 DEF Sign, HostPlace
  <2>4. CASE sc[o].invert_sdir # 1
    BY <1>7, <1>8, <2>1, <2>2, <2>4 DEF Sign, HostPlace
  <2> QED BY <2>3, <2>4
<1>11. WireOK(wire, Motors)
  BY DEF SyncInv, Shapes
<1>12. PICK c : c = Seen(wire, o)
  OBVIOUS
<1>13. c \in Seq(Command) /\ Runs(c, v, u)
  BY <1>3, <1>11, <1>12, SeenType
<1>14. PICK n \in Int : n = steps[o] /\ v.used <= n
  BY <1>2, <1>3
<1>15. Host(z, u, n, g, TRUE, 1)
  <2>1. z \in stepcompress_set_last_position(x, now, HostPlace(x, v))
    BY <1>8, <1>10
  <2> QED BY <1>3, <1>4, <1>9, <1>13, <1>14, <2>1, KnownHost
<1>16. Carries(z, wire, o, v, n, g, TRUE, 1)
  BY <1>3, <1>15 DEF Carries
<1>17. /\ Believed(n, "done", v) = n /\ Known(stop, "done") = TRUE
       /\ Cleared(stop, "done") = 1
  BY <1>4 DEF Believed, Known, Cleared
<1>18. Tracks(stepper[o], z, wire, o, n, g, stop, "done", v)
  BY <1>1, <1>14, <1>16, <1>17 DEF Tracks
<1>19. HostOK(z, g)
  BY <1>15 DEF Host
<1> QED BY <1>8, <1>14, <1>18, <1>19

(* The answer to stepper_get_position. *)
LEMMA QueryAnsweredKeeps ==
  ASSUME SyncInv, QueryAnswered
  PROVE  SyncInv'
<1>1. /\ fault = "none" /\ phase = "querying" /\ phase' = "done"
      /\ UNCHANGED <<stepper, free, fault, flushed, generated, steps, scenario,
                     now, wire, stop>>
  BY DEF QueryAnswered, stepperVars
<1>2. DOMAIN stepper = Motors /\ Oids = Motors
  BY DEF SyncInv, Shapes, Oids
<1>3. DOMAIN sc' = Motors
      /\ \A o \in Motors :
           sc'[o] \in stepcompress_set_last_position(sc[o], now,
                          Sign(o) * Reported(stepper[o]))
  <2>1. PICK F : F = [o \in Oids |-> stepcompress_set_last_position(sc[o], now,
                                       Sign(o) * Reported(stepper[o]))]
    OBVIOUS
  <2>2. sc' \in EachOf(F)
    BY <2>1 DEF QueryAnswered
  <2>3. DOMAIN sc' = Motors /\ \A o \in Motors : sc'[o] \in F[o]
    BY <1>2, <2>1, <2>2 DEF EachOf
  <2> QED BY <1>2, <2>1, <2>3
<1>4. Motors' = Motors
  BY <1>1 DEF Motors
<1>5. stop # 0
  BY <1>1 DEF SyncInv, Clocks
<1>6. Clocks' /\ Shapes' /\ PoolOK'
  BY <1>1, <1>3, <1>4 DEF SyncInv, Clocks, Shapes, PoolOK
<1>7. ASSUME NEW o \in Motors PROVE Good(o)' /\ On(o)'
  <2>1. PICK z : z = sc'[o]
    OBVIOUS
  <2>2. /\ HostOK(z, generated[o])
        /\ \E v : Tracks(stepper[o], z, wire, o, steps[o], generated[o],
                         stop, "done", v)
    BY <1>1, <1>3, <2>1, KnownTracks
  <2>3. Good(o)
    BY DEF SyncInv
  <2>4. MotorOK(stepper[o], z, steps[o], generated[o], scenario.plan[o], stop)
    BY <1>5, <2>2, <2>3 DEF Good, MotorOK
  <2> QED BY <1>1, <2>1, <2>2, <2>4 DEF Good, On
<1> QED BY <1>4, <1>6, <1>7 DEF SyncInv

(* What a step of the micro-controller leaves alone. *)
HostRests ==
  UNCHANGED <<sc, flushed, generated, steps, phase, scenario, now, stop>>

(* The shutdown handlers. *)
LEMMA ShutsKeeps ==
  ASSUME SyncInv, Shuts, HostRests, WireOK(wire', Motors)
  PROVE  /\ SyncInv'
         /\ \A o \in Motors : stepper'[o].motor = stepper[o].motor
<1>1. /\ fault' \in Reasons /\ fault' # "none" /\ free' = MoveCount
      /\ stepper' = [o \in DOMAIN stepper |-> Stopped([stepper[o] EXCEPT !.mq = <<>>])]
  BY ShutsIs
<1>2. DOMAIN stepper = Motors
  BY DEF SyncInv, Shapes
<1>3. Motors' = Motors
  BY DEF Motors, HostRests
<1>4. ASSUME NEW o \in Motors
      PROVE  /\ StepperOK(stepper'[o]) /\ InRange(stepper'[o])
             /\ stepper'[o].motor = stepper[o].motor /\ stepper'[o].mq = <<>>
  <2>1. PICK s, c : s = stepper[o] /\ c = [s EXCEPT !.mq = <<>>]
    OBVIOUS
  <2>2. Sound(s) /\ InRange(s)
    BY <2>1 DEF SyncInv, Good, MotorOK, StepperOK
  <2>3. <<>> \in Seq(QueuedMove) /\ s \in StepperType
    BY <2>2 DEF Sound
  <2>4. c \in StepperType
    BY <2>1, <2>3 DEF StepperType
  <2>5. /\ c.mq = <<>> /\ c.count = s.count /\ c.need_reset = s.need_reset
        /\ c.single = s.single /\ c.step_pin = s.step_pin /\ c.interval = s.interval
        /\ c.add = s.add /\ c.position = s.position /\ c.motor = s.motor
        /\ c.dir_pin = s.dir_pin
    BY <2>1, <2>3 DEF StepperType
  <2>6. PositionOK(c)
    BY <2>2, <2>5 DEF Sound, PositionOK, Left, Signed
  <2>7. Sound(c) /\ InRange(c)
    BY <2>2, <2>4, <2>5, <2>6 DEF Sound, InRange
  <2>8. StepperOK(Stopped(c)) /\ Stopped(c).motor = c.motor /\ Stopped(c).mq = <<>>
    BY <2>7, StoppedOK
  <2>9. stepper'[o] = Stopped(c)
    BY <1>1, <1>2, <2>1
  <2>10. InRange(Stopped(c))
    BY <2>7, <2>8 DEF InRange
  <2> QED BY <2>1, <2>5, <2>8, <2>9, <2>10
<1>5. ASSUME NEW o \in Motors PROVE Good(o)'
  <2>1. Good(o)
    BY DEF SyncInv
  <2> QED BY <1>4, <2>1 DEF Good, MotorOK, HostRests
<1>6. Clocks'
  BY <1>1 DEF SyncInv, Clocks, HostRests
<1>7. Shapes'
  <2>1. stepper' = [o \in Motors |-> stepper'[o]]
    BY <1>1, <1>2
  <2> QED BY <1>3, <2>1 DEF SyncInv, Shapes, HostRests
<1>8. PoolOK'
  <2>1. IsFiniteSet(Motors)
    <3>1. scenario \in Scenarios
      BY DEF SyncInv, Clocks
    <3> QED BY <3>1, MotorsFinite DEF Motors
  <2>2. PICK st, D : st = stepper' /\ D = Motors
    OBVIOUS
  <2>3. QueuedIn(st, D) = 0
    <3>1. \A o \in D : st[o].mq = <<>>
      BY <1>4, <2>2
    <3> QED BY <2>1, <2>2, <3>1, QueuedNone
  <2>4. MoveCount \in Nat
    BY StepperAssumption
  <2> QED BY <1>1, <1>3, <2>2, <2>3, <2>4 DEF PoolOK
<1> QED BY <1>1, <1>3, <1>4, <1>5, <1>6, <1>7, <1>8 DEF SyncInv

(* A motor that is tracked is where it may be: within its plan of power-up. *)
LEMMA TrackedInRange ==
  ASSUME NEW s, Sound(s), NEW v, Predicts(s, v), NEW n \in Nat, NEW m \in Nat,
         v.used <= n, n <= m, m < Bias, Bias + m < TopBit
  PROVE  InRange(s)
<1>1. Abs(s.motor) + Left(s) <= v.used
  BY PredictsBound
<1>2. s \in StepperType
  BY DEF Sound
<1>3. s.motor \in Int /\ Left(s) \in Nat
  BY <1>2, StepperFields
<1>4. v.used \in Nat
  BY DEF Predicts, View
<1>5. Bias \in Nat /\ TopBit \in Nat
  BY BiasInt, Sizes
<1>6. PICK a \in Int : a = Abs(s.motor)
  BY <1>3 DEF Abs
<1>7. s.motor <= a /\ -a <= s.motor
  BY <1>3, <1>6 DEF Abs
<1>8. a <= m
  BY <1>1, <1>3, <1>4, <1>6
<1>9. s.motor <= m /\ -m <= s.motor
  BY <1>3, <1>7, <1>8
<1> QED BY <1>3, <1>5, <1>9 DEF InRange

(* One motor's stepper changes. *)
LEMMA BecomesKeeps ==
  ASSUME SyncInv, NEW o \in Motors, NEW r, StepperOK(r), Becomes(o, r), free' \in Nat,
         HostRests, WireOK(wire', Motors),
         \A p \in Motors : \E v : Tracks(stepper'[p], sc[p], wire', p, steps[p],
                                         generated[p], stop, phase, v)
  PROVE  SyncInv'
<1>1. /\ stepper' = [stepper EXCEPT ![o] = r] /\ fault' = fault
      /\ free' + Len(r.mq) = free + Len(stepper[o].mq)
  BY DEF Becomes
<1>2. stepper = [p \in Motors |-> stepper[p]]
  BY DEF SyncInv, Shapes
<1>3. /\ stepper' = [p \in Motors |-> stepper'[p]] /\ stepper'[o] = r
      /\ \A p \in Motors : p # o => stepper'[p] = stepper[p]
  BY <1>1, <1>2
<1>4. Motors' = Motors
  BY DEF Motors, HostRests
<1>5. scenario \in Scenarios
  BY DEF SyncInv, Clocks
<1>6. ASSUME NEW p \in Motors PROVE Good(p)' /\ On(p)' /\ StepperOK(stepper'[p])
  <2>1. Good(p)
    BY DEF SyncInv
  <2>2. StepperOK(stepper'[p])
    BY <1>3, <2>1 DEF Good, MotorOK
  <2>3. PICK v : Tracks(stepper'[p], sc[p], wire', p, steps[p],
                        generated[p], stop, phase, v)
    OBVIOUS
  <2>4. PICK m : m = Len(scenario.plan[p])
    OBVIOUS
  <2>5. m \in Nat /\ m < Bias /\ Bias + m < TopBit
    BY <1>5, <2>4, MotorsFinite DEF Motors
  <2>6. steps[p] \in Nat /\ steps[p] <= m
    BY <2>1, <2>4 DEF Good, MotorOK
  <2>7. PICK s : s = stepper'[p]
    OBVIOUS
  <2>8. Sound(s) /\ Predicts(s, v) /\ v.used <= steps[p]
    BY <2>2, <2>3, <2>7 DEF StepperOK, Tracks
  <2>9. InRange(s)
    BY <2>5, <2>6, <2>8, TrackedInRange
  <2>10. Good(p)'
    BY <2>1, <2>2, <2>7, <2>9 DEF Good, MotorOK, HostRests
  <2>11. On(p)'
    BY <2>3 DEF On, HostRests
  <2> QED BY <2>2, <2>10, <2>11
<1>7. PoolOK'
  <2>1. IsFiniteSet(Motors)
    BY <1>5, MotorsFinite DEF Motors
  <2>2. PICK st, st2, D : st = stepper /\ st2 = stepper' /\ D = Motors
    OBVIOUS
  <2>3. \A p \in D : Len(st[p].mq) \in Nat /\ Len(st2[p].mq) \in Nat
    <3> SUFFICES ASSUME NEW p \in D PROVE Len(st[p].mq) \in Nat /\ Len(st2[p].mq) \in Nat
      OBVIOUS
    <3>1. StepperOK(st[p])
      BY <2>2 DEF SyncInv, Good, MotorOK
    <3>2. StepperOK(st2[p])
      BY <1>6, <2>2
    <3>3. st[p] \in StepperType /\ st2[p] \in StepperType
      BY <3>1, <3>2 DEF StepperOK, Sound
    <3>4. st[p].mq \in Seq(QueuedMove) /\ st2[p].mq \in Seq(QueuedMove)
      BY <3>3, StepperFields
    <3> QED BY <3>4
  <2>4. \A p \in D : p # o => st2[p] = st[p]
    BY <1>3, <2>2
  <2>5. o \in D /\ IsFiniteSet(D)
    BY <2>1, <2>2
  <2>6. /\ QueuedIn(st, D) \in Nat /\ QueuedIn(st2, D) \in Nat
        /\ QueuedIn(st2, D) + Len(st[o].mq) = QueuedIn(st, D) + Len(st2[o].mq)
    BY <2>3, <2>4, <2>5, QueuedBecomes
  <2>7. free \in Nat /\ free + QueuedIn(st, D) = MoveCount
    BY <2>2 DEF SyncInv, PoolOK
  <2>8. free' + Len(st2[o].mq) = free + Len(st[o].mq)
    BY <1>1, <1>3, <2>2
  <2>9. PICK a, b, c, d, e, f \in Int :
          /\ a = QueuedIn(st, D) /\ b = QueuedIn(st2, D) /\ c = Len(st[o].mq)
          /\ d = Len(st2[o].mq) /\ e = free /\ f = free'
    <3>1. Len(st[o].mq) \in Nat /\ Len(st2[o].mq) \in Nat
      BY <2>3, <2>5
    <3>2. QueuedIn(st, D) \in Int /\ QueuedIn(st2, D) \in Int /\ free \in Int
          /\ free' \in Int
      BY <2>6, <2>7
    <3> QED BY ONLY <3>1, <3>2
  <2>10. b + c = a + d /\ f + d = e + c
    BY <2>6, <2>8, <2>9
  <2>11. f + b = e + a
    BY ONLY <2>10, a \in Int, b \in Int, c \in Int, d \in Int, e \in Int, f \in Int
  <2>12. free' + QueuedIn(st2, D) = MoveCount
    BY <2>7, <2>9, <2>11
  <2> QED BY <1>4, <2>2, <2>12 DEF PoolOK
<1>8. Clocks'
  BY <1>1 DEF SyncInv, Clocks, HostRests
<1>9. Shapes'
  BY <1>3, <1>4 DEF SyncInv, Shapes, HostRests
<1> QED BY <1>4, <1>6, <1>7, <1>8, <1>9 DEF SyncInv

LEMMA MotorFacts ==
  ASSUME SyncInv, fault = "none", NEW o \in Motors
  PROVE  /\ StepperOK(stepper[o]) /\ Sound(stepper[o]) /\ stepper[o] \in StepperType
         /\ DOMAIN stepper = Motors /\ stepper = [p \in DOMAIN stepper |-> stepper[p]]
         /\ free \in Nat /\ now \in Nat /\ now # 0
         /\ phase \in {"homing", "querying", "done"}
<1>1. StepperOK(stepper[o])
  BY GoodFacts
<1>2. Sound(stepper[o]) /\ stepper[o] \in StepperType
  BY <1>1 DEF StepperOK, Sound
<1>3. stepper = [p \in Motors |-> stepper[p]]
  BY DEF SyncInv, Shapes
<1>4. Horizon \in Nat
  BY ScenariosAssumption
<1>5. now \in Nat /\ now # 0 /\ phase \in {"homing", "querying", "done"}
  BY <1>4 DEF SyncInv, Clocks
<1>6. free \in Nat
  BY DEF SyncInv, PoolOK
<1>7. DOMAIN stepper = Motors
  BY <1>3
<1> QED BY <1>1, <1>2, <1>3, <1>5, <1>6, <1>7

(* A command arrives. *)
LEMMA DeliverKeeps ==
  ASSUME SyncInv, Deliver
  PROVE  /\ SyncInv'
         /\ \A p \in Motors : stepper'[p].motor = stepper[p].motor
<1>1. fault = "none" /\ wire # <<>> /\ wire' = Tail(wire) /\ HostRests
  BY DEF Deliver, hostVars, HostRests
<1>2. PICK m, o : m = Head(wire) /\ o = m.oid
  OBVIOUS
<1>3. Executes(o, m)
  BY <1>2 DEF Deliver, Executes
<1>4. WireOK(wire, Motors)
  BY DEF SyncInv, Shapes
<1>5. WireOK(wire', Motors) /\ GoodMessage(m) /\ o \in Motors
  BY <1>1, <1>2, <1>4, WireTail
<1>6. PICK v : Tracks(stepper[o], sc[o], wire, o, steps[o], generated[o], stop, phase, v)
  BY <1>1, <1>5, GoodFacts
<1>7. /\ StepperOK(stepper[o]) /\ stepper[o] \in StepperType /\ Sound(stepper[o])
      /\ DOMAIN stepper = Motors /\ stepper = [p \in DOMAIN stepper |-> stepper[p]]
      /\ free \in Nat /\ now \in Nat /\ phase \in {"homing", "querying", "done"}
  BY <1>1, <1>5, MotorFacts
<1>8. Predicts(stepper[o], v)
  BY <1>6 DEF Tracks
<1>9. Obeys(o, CommandOf(m), v)
  BY <1>3, <1>5, <1>7, <1>8, ExecutesObeys
<1>10. CASE Shuts
  BY <1>1, <1>5, <1>10, ShutsKeeps
<1>11. CASE ~Shuts
  <2>1. PICK r : /\ StepperOK(r) /\ Becomes(o, r) /\ r.motor = stepper[o].motor
                 /\ Predicts(r, Apply(v, CommandOf(m)))
    BY <1>9, <1>11 DEF Obeys
  <2>2. free' \in Nat
    BY <1>3, <1>7, ExecutesFree
  <2>3. stepper' = [stepper EXCEPT ![o] = r]
    BY <2>1 DEF Becomes
  <2>4. /\ stepper'[o] = r
        /\ \A p \in Motors : p # o => stepper'[p] = stepper[p]
    BY <1>5, <1>7, <2>3
  <2>5. steps[o] \in Nat
    BY <1>1, <1>5, GoodFacts
  <2>6. /\ (stop # 0 /\ phase # "done" /\ m.kind = "queue_step") => v.stopped = TRUE
        /\ \A q : Predicts(q, Apply(v, CommandOf(m)))
                  /\ (stop # 0 /\ phase # "done" => q.count = 0)
             => Tracks(q, sc[o], wire', o, steps[o], generated[o], stop, phase,
                       Apply(v, CommandOf(m)))
    <3>1. Accepts(wire, o, sc[o], steps[o], generated[o], stop, phase, v)
      <4>1. PICK q, s, x, n, g, stp, ph :
              /\ q = wire /\ s = stepper[o] /\ x = sc[o] /\ n = steps[o]
              /\ g = generated[o] /\ stp = stop /\ ph = phase
        OBVIOUS
      <4>2. /\ WireOK(q, Motors) /\ q # <<>> /\ Head(q).oid = o /\ n \in Nat
            /\ PhaseOK(ph) /\ Tracks(s, x, q, o, n, g, stp, ph, v)
        BY <1>1, <1>2, <1>4, <1>6, <1>7, <2>5, <4>1 DEF PhaseOK
      <4>3. Accepts(q, o, x, n, g, stp, ph, v)
        BY <4>2, OwnArrives
      <4> QED BY <4>1, <4>3
    <3> QED BY <1>1, <1>2, <3>1 DEF Accepts
  <2>7. stop # 0 /\ phase # "done" => r.count = 0
    <3> SUFFICES ASSUME stop # 0, phase # "done" PROVE r.count = 0
      OBVIOUS
    <3>1. stepper[o].count = 0
      BY <1>6 DEF Tracks
    <3>2. m.kind = "queue_step" => stepper[o].need_reset
      BY <1>8, <2>6 DEF Predicts
    <3>3. stepper'[o].count = 0
      BY <1>3, <1>5, <1>7, <1>11, <3>1, <3>2, ExecutesQuiet
    <3> QED BY <2>4, <3>3
  <2>8. Tracks(r, sc[o], wire', o, steps[o], generated[o], stop, phase,
               Apply(v, CommandOf(m)))
    BY <2>1, <2>6, <2>7
  <2>9. ASSUME NEW p \in Motors
        PROVE  \E x : Tracks(stepper'[p], sc[p], wire', p, steps[p],
                             generated[p], stop, phase, x)
    <3>1. CASE p = o
      BY <2>4, <2>8, <3>1
    <3>2. CASE p # o
      <4>1. PICK x : Tracks(stepper[p], sc[p], wire, p, steps[p], generated[p],
                            stop, phase, x)
        BY <1>1, <2>9, GoodFacts
      <4>2. Tracks(stepper[p], sc[p], Tail(wire), p, steps[p], generated[p],
                   stop, phase, x)
        BY <1>1, <1>2, <1>4, <3>2, <4>1, OtherArrives
      <4> QED BY <1>1, <2>4, <3>2, <4>2
    <3> QED BY <3>1, <3>2
  <2>10. SyncInv'
    BY <1>1, <1>5, <2>1, <2>2, <2>9, BecomesKeeps
  <2>11. \A p \in Motors : stepper'[p].motor = stepper[p].motor
    BY <2>1, <2>4
  <2> QED BY <2>10, <2>11
<1> QED BY <1>10, <1>11

(* An edge of a step pin. *)
LEMMA StepKeeps ==
  ASSUME SyncInv, NEW o \in Motors, Step(o)
  PROVE  /\ SyncInv' /\ stepper[o].count > 0
         /\ \A p \in Motors : p # o => stepper'[p].motor = stepper[p].motor
<1>1. /\ fault = "none" /\ wire' = wire /\ HostRests /\ stepper[o].active
      /\ StepperEvent(o, now)
  BY DEF Step, Due, hostVars, HostRests
<1>2. WireOK(wire', Motors)
  BY <1>1 DEF SyncInv, Shapes
<1>3. /\ StepperOK(stepper[o]) /\ DOMAIN stepper = Motors
      /\ stepper[o] \in StepperType
      /\ stepper = [p \in DOMAIN stepper |-> stepper[p]]
      /\ free \in Nat /\ now \in Nat
  BY <1>1, MotorFacts
<1>4. stepper[o].count > 0
  BY <1>1, <1>3 DEF StepperOK
<1>5. Shuts \/ \E r : Follows(stepper[o], r) /\ Becomes(o, r)
  <2>1. free \in Int
    BY <1>3
  <2>2. CASE StepperEventEdge(o)
    BY <1>1, <1>3, <2>1, <2>2, EdgeEvent
  <2>3. CASE StepperEventFull(o, now)
    BY <1>1, <1>3, <2>1, <2>3, FullEvent DEF Shuts
  <2>4. CASE RescheduledInPast(o, now)
    BY <2>4 DEF RescheduledInPast, Shuts
  <2> QED BY <1>1, <2>2, <2>3, <2>4 DEF StepperEvent
<1>6. CASE Shuts
  BY <1>1, <1>2, <1>4, <1>6, ShutsKeeps
<1>7. CASE ~Shuts
  <2>1. PICK r : Follows(stepper[o], r) /\ Becomes(o, r)
    BY <1>5, <1>7
  <2>2. StepperOK(r)
    BY <2>1 DEF Follows
  <2>3. free' \in Nat
    BY <1>1, <1>3, EventFree
  <2>4. stepper' = [stepper EXCEPT ![o] = r]
    BY <2>1 DEF Becomes
  <2>5. stepper'[o] = r /\ \A p \in Motors : p # o => stepper'[p] = stepper[p]
    BY <1>3, <2>4
  <2>6. PICK v : Tracks(stepper[o], sc[o], wire, o, steps[o], generated[o],
                        stop, phase, v)
    BY <1>1, GoodFacts
  <2>7. Predicts(r, v)
    <3>1. Predicts(stepper[o], v)
      BY <2>6 DEF Tracks
    <3> QED BY <2>1, <3>1, AfterEvent
  <2>8. ~(stop # 0 /\ phase # "done")
    <3>1. stop # 0 /\ phase # "done" => stepper[o].count = 0
      BY <2>6 DEF Tracks
    <3>2. stepper[o].count \in Nat
      BY <1>3, StepperFields
    <3> QED BY <1>4, <3>1, <3>2
  <2>9. Tracks(r, sc[o], wire', o, steps[o], generated[o], stop, phase, v)
    BY <1>1, <2>6, <2>7, <2>8 DEF Tracks
  <2>10. ASSUME NEW p \in Motors
         PROVE  \E x : Tracks(stepper'[p], sc[p], wire', p, steps[p],
                              generated[p], stop, phase, x)
    <3>1. CASE p = o
      BY <2>5, <2>9, <3>1
    <3>2. CASE p # o
      <4>1. PICK x : Tracks(stepper[p], sc[p], wire, p, steps[p], generated[p],
                            stop, phase, x)
        BY <1>1, <2>10, GoodFacts
      <4> QED BY <1>1, <2>5, <3>2, <4>1
    <3> QED BY <3>1, <3>2
  <2>11. SyncInv'
    BY <1>1, <1>2, <2>1, <2>2, <2>3, <2>10, BecomesKeeps
  <2> QED BY <1>4, <2>5, <2>11
<1> QED BY <1>6, <1>7

(* stepper_stop of one motor: the commands on their way no longer count. *)
StopsWell(o, stp) ==
  /\ StepperOK(Stopped(stepper[o])) /\ InRange(Stopped(stepper[o]))
  /\ Stopped(stepper[o]).motor = stepper[o].motor
  /\ Stopped(stepper[o]).mq = <<>>
  /\ \E v : Tracks(Stopped(stepper[o]), sc[o], wire, o, steps[o],
                   generated[o], stp, phase, v)

LEMMA TriggerTracks ==
  ASSUME SyncInv, fault = "none", phase = "homing", stop = 0, NEW o \in Motors,
         NEW stp, stp # 0
  PROVE  StopsWell(o, stp)
<1>1. PICK v : Tracks(stepper[o], sc[o], wire, o, steps[o], generated[o],
                      stop, phase, v)
  BY GoodFacts
<1>2. generated[o] \in Nat /\ steps[o] \in Nat /\ InRange(stepper[o])
  BY GoodFacts
<1>3. Sound(stepper[o])
  BY MotorFacts
<1>4. PICK u \in View, t \in Int, b \in BOOLEAN, k \in Int :
        /\ v \in View /\ v.used <= steps[o] /\ v.used \in Nat
        /\ t = Believed(steps[o], phase, v) /\ k = Cleared(stop, phase)
        /\ Runs(Seen(wire, o), v, u) /\ Host(sc[o], u, t, generated[o], b, k)
  BY <1>1, <1>2, TrackFacts
<1>5. k = 0 /\ t = steps[o]
  BY <1>4 DEF Cleared, Believed
<1>6. PICK s, x, g, n, r : /\ s = stepper[o] /\ x = sc[o] /\ g = generated[o]
                           /\ n = steps[o] /\ r = wire
  OBVIOUS
<1>7. PICK v2 : v2 = [place |-> s.motor, dir |-> 0, stopped |-> TRUE,
                      used |-> v.used, resets |-> 0]
  OBVIOUS
<1>8. Predicts(s, v)
  BY <1>1, <1>6 DEF Tracks
<1>9. Predicts(Stopped(s), v2)
  BY <1>2, <1>3, <1>6, <1>7, <1>8, StoppedPredicts
<1>10. v2 \in View /\ v2.used = v.used /\ v2.resets = 0 /\ v2.stopped = TRUE
  <2>1. v2 \in View
    BY <1>9 DEF Predicts
  <2> QED BY <1>7, <2>1
<1>11. PICK c, d : c = Seen(r, o) /\ d = Commands(x.msg_queue)
  OBVIOUS
<1>12. /\ WireOK(r, Motors) /\ c \in Seq(Command) /\ Len(c) = Len(r)
       /\ \A i \in 1..Len(c) : c[i].kind # "load"
  <2>1. WireOK(r, Motors)
    BY <1>6 DEF SyncInv, Shapes
  <2> QED BY <1>11, <2>1, SeenType
<1>13. PICK w : Goes(x, u, w, b, k) /\ w.used + Waits(x) <= t
  BY <1>4, <1>6 DEF Host
<1>14. HostOK(x, g) /\ x \in HostRecord
  BY <1>4, <1>6 DEF Host, HostOK
<1>15. /\ d \in Seq(Command) /\ \A i \in 1..Len(d) : d[i].kind # "load"
       /\ Waits(x) \in Nat
  <2>1. x.msg_queue \in Seq(Msg) /\ Waits(x) \in Nat
    BY <1>14, HostFields
  <2> QED BY <1>11, <2>1, CommandsType
<1>16. Runs(c, v, u) /\ Runs(d, u, w) /\ w.resets = 0
  BY <1>4, <1>5, <1>6, <1>11, <1>13 DEF Goes
<1>17. u \in View /\ w \in View /\ v.used <= u.used /\ u.used <= w.used
       /\ v.resets <= u.resets /\ u.resets <= w.resets
       /\ (v.resets = u.resets => \A i \in 1..Len(c) : c[i].kind # "reset_step_clock")
       /\ (u.resets = w.resets => \A i \in 1..Len(d) : d[i].kind # "reset_step_clock")
  <2>1. /\ v.used <= u.used /\ v.resets <= u.resets
        /\ v.resets = u.resets => \A i \in 1..Len(c) : c[i].kind # "reset_step_clock"
    BY <1>4, <1>12, <1>16, RunsProps
  <2>2. /\ w \in View /\ u.used <= w.used /\ u.resets <= w.resets
        /\ u.resets = w.resets => \A i \in 1..Len(d) : d[i].kind # "reset_step_clock"
    BY <1>15, <1>16, RunsProps
  <2> QED BY <2>1, <2>2
<1>18. /\ v.resets \in Nat /\ u.resets \in Nat /\ u.used \in Nat /\ w.used \in Nat
  BY <1>4, <1>17 DEF View
<1>19. v.resets = u.resets /\ u.resets = w.resets /\ v.used <= w.used
  BY <1>4, <1>16, <1>17, <1>18
<1>20. /\ \A i \in 1..Len(c) : c[i].kind # "reset_step_clock"
       /\ \A i \in 1..Len(d) : d[i].kind # "reset_step_clock"
  BY <1>17, <1>19
<1>21. PICK u2 \in View : Runs(c, v2, u2)
  BY <1>10, <1>12, RunsExist
<1>22. PICK w2 \in View : Runs(d, u2, w2)
  BY <1>15, RunsExist
<1>23. u2.resets = 0 /\ u2.used = v.used /\ u2.stopped = TRUE
  <2>1. v2.resets = u2.resets
    BY <1>10, <1>12, <1>20, <1>21, RunsProps
  <2>2. u2.stopped = v2.stopped
    BY <1>10, <1>12, <1>21, <2>1, RunsProps
  <2>3. v2.used = u2.used
    BY <1>10, <1>12, <1>21, <2>1, RunsProps
  <2> QED BY <1>10, <2>1, <2>2, <2>3
<1>24. w2.resets = 0 /\ w2.used = v.used
  <2>1. u2.resets = w2.resets
    BY <1>15, <1>20, <1>22, RunsProps
  <2>2. u2.used = w2.used
    BY <1>15, <1>22, <1>23, <2>1, RunsProps
  <2> QED BY <1>23, <2>1, <2>2
<1>25. Goes(x, u2, w2, FALSE, 0)
  BY <1>11, <1>22, <1>24 DEF Goes
<1>26. w2.used + Waits(x) <= t
  BY <1>4, <1>13, <1>15, <1>18, <1>19, <1>24
<1>27. Host(x, u2, t, g, FALSE, 0)
  BY <1>14, <1>25, <1>26 DEF Host
<1>28. Carries(x, r, o, v2, t, g, FALSE, 0)
  BY <1>11, <1>21, <1>27 DEF Carries
<1>29. /\ Believed(n, phase, v2) = t /\ Known(stp, phase) = FALSE
       /\ Cleared(stp, phase) = 0
  BY <1>5, <1>6 DEF Believed, Known, Cleared
<1>30. /\ StepperOK(Stopped(s)) /\ Stopped(s).motor = s.motor
       /\ Stopped(s).count = 0 /\ Stopped(s).mq = <<>>
  BY <1>2, <1>3, <1>6, StoppedOK
<1>31. Tracks(Stopped(s), x, r, o, n, g, stp, phase, v2)
  BY <1>4, <1>6, <1>9, <1>10, <1>28, <1>29, <1>30 DEF Tracks
<1>32. InRange(Stopped(s))
  BY <1>2, <1>6, <1>30 DEF InRange
<1> QED BY <1>6, <1>30, <1>31, <1>32 DEF StopsWell

(* trsync_do_trigger. *)
LEMMA TriggerKeeps ==
  ASSUME SyncInv, Trigger
  PROVE  /\ SyncInv'
         /\ \A o \in Motors : stepper'[o].motor = stepper[o].motor
<1>1. /\ fault = "none" /\ phase = "homing" /\ stop = 0 /\ stop' = now
      /\ stepper' = [o \in Oids |-> Stopped(stepper[o])]
      /\ free' = free + QueuedIn(stepper, Oids)
      /\ UNCHANGED <<fault, sc, flushed, generated, steps, phase, scenario, now, wire>>
  BY DEF Trigger, hostVars, QueuedIn
<1>2. Oids = Motors
  BY DEF SyncInv, Shapes, Oids
<1>3. Horizon \in Nat
  BY ScenariosAssumption
<1>4. now \in 1..Horizon /\ scenario \in Scenarios
  BY DEF SyncInv, Clocks
<1>5. now \in Nat /\ now # 0 /\ now \in 0..Horizon
  BY <1>3, <1>4
<1>6. Motors' = Motors
  BY <1>1 DEF Motors
<1>7. ASSUME NEW o \in Motors
      PROVE  /\ Good(o)' /\ On(o)' /\ stepper'[o].motor = stepper[o].motor
             /\ stepper'[o].mq = <<>>
  <2>1. stepper'[o] = Stopped(stepper[o])
    BY <1>1, <1>2
  <2>2. PICK stp : stp = now
    OBVIOUS
  <2>3. /\ StepperOK(Stopped(stepper[o])) /\ InRange(Stopped(stepper[o]))
        /\ Stopped(stepper[o]).motor = stepper[o].motor
        /\ Stopped(stepper[o]).mq = <<>>
        /\ \E v : Tracks(Stopped(stepper[o]), sc[o], wire, o, steps[o],
                         generated[o], stp, phase, v)
    <3>1. StopsWell(o, stp)
      BY <1>1, <1>5, <2>2, TriggerTracks
    <3> QED BY <3>1 DEF StopsWell
  <2>4. Good(o)
    BY DEF SyncInv
  <2>5. Good(o)'
    BY <1>1, <1>5, <2>1, <2>3, <2>4 DEF Good, MotorOK
  <2>6. On(o)'
    BY <1>1, <2>1, <2>2, <2>3 DEF On
  <2> QED BY <2>1, <2>3, <2>5, <2>6
<1>8. Clocks'
  BY <1>1, <1>5 DEF SyncInv, Clocks
<1>9. Shapes'
  <2>1. stepper' = [o \in Motors |-> stepper'[o]]
    BY <1>1, <1>2
  <2> QED BY <1>1, <1>6, <2>1 DEF SyncInv, Shapes
<1>10. PoolOK'
  <2>1. PICK st, D : st = stepper' /\ D = Motors
    OBVIOUS
  <2>2. IsFiniteSet(D) /\ \A o \in D : st[o].mq = <<>>
    BY <1>4, <1>7, <2>1, MotorsFinite DEF Motors
  <2>3. QueuedIn(st, D) = 0
    BY <2>2, QueuedNone
  <2>4. free' = MoveCount
    BY <1>1, <1>2 DEF SyncInv, PoolOK
  <2>5. MoveCount \in Nat
    BY StepperAssumption
  <2> QED BY <1>6, <2>1, <2>3, <2>4, <2>5 DEF PoolOK
<1> QED BY <1>6, <1>7, <1>8, <1>9, <1>10 DEF SyncInv

LEMMA NextKeeps ==
  ASSUME SyncInv, [Next]_vars
  PROVE  SyncInv'
<1>1. CASE AdvanceFlushTime
  BY <1>1, AdvanceKeeps
<1>2. CASE NoteHomingEnd
  BY <1>2, NoteHomingEndKeeps
<1>3. CASE QueryAnswered
  BY <1>3, QueryAnsweredKeeps
<1>4. CASE Deliver
  BY <1>4, DeliverKeeps
<1>5. CASE \E o \in Oids : Step(o)
  <2>1. Oids = Motors
    BY DEF SyncInv, Shapes, Oids
  <2> QED BY <1>5, <2>1, StepKeeps
<1>6. CASE Trigger
  BY <1>6, TriggerKeeps
<1>7. CASE Tick
  BY <1>7, TickKeeps
<1>8. CASE UNCHANGED vars
  <2>1. UNCHANGED <<stepper, free, fault, sc, generated, steps, flushed, phase,
                    scenario, now, wire, stop>>
    BY <1>8 DEF vars, stepperVars, hostVars
  <2>2. Motors' = Motors
    BY <2>1 DEF Motors
  <2>3. Clocks' /\ Shapes' /\ PoolOK'
    BY <2>1, <2>2 DEF SyncInv, Clocks, Shapes, PoolOK
  <2>4. ASSUME NEW o \in Motors PROVE Good(o)' /\ (fault = "none" => On(o)')
    <3>1. Good(o) /\ (fault = "none" => On(o))
      BY DEF SyncInv
    <3> QED BY <2>1, <3>1 DEF Good, On
  <2> QED BY <2>1, <2>2, <2>3, <2>4 DEF SyncInv
<1> QED BY <1>1, <1>2, <1>3, <1>4, <1>5, <1>6, <1>7, <1>8 DEF Next

-----------------------------------------------------------------------------
(* Late timers *)

LateOK == too_close \in 0..TooCloseMax /\ held \subseteq Motors

LEMMA LateKeeps ==
  ASSUME SyncInv, LateOK, [Next]_vars
  PROVE  LateOK'
<1>1. /\ TooCloseMax \in Nat /\ too_close \in 0..TooCloseMax
      /\ held \subseteq Motors /\ Oids = Motors
  BY StepperAssumption DEF LateOK, SyncInv, Shapes, Oids
<1>2. Motors' = Motors
  BY DEF Next, vars, AdvanceFlushTime, NoteHomingEnd, QueryAnswered, Deliver, Step,
         Trigger, Tick, Motors
<1>3. CASE UNCHANGED <<too_close, held>>
  BY <1>1, <1>2, <1>3 DEF LateOK
<1>4. CASE too_close' = too_close /\ held' \subseteq held
  BY <1>1, <1>2, <1>4 DEF LateOK
<1>5. CASE Deliver
  <2>1. PICK m : m = Head(wire)
    OBVIOUS
  <2>2. m.oid \in Motors
    <3>1. wire # <<>> /\ WireOK(wire, Motors)
      BY <1>5 DEF Deliver, SyncInv, Shapes
    <3> QED BY <2>1, <3>1, WireTail
  <2>3. Executes(m.oid, m)
    BY <1>5, <2>1 DEF Deliver, Executes
  <2>4. CASE UNCHANGED <<too_close, held>> \/ (too_close' = too_close /\ held' = {})
    BY <1>3, <1>4, <2>4
  <2>5. CASE /\ too_close < TooCloseMax /\ too_close' = too_close + 1
             /\ held' = held \cup {m.oid}
    BY <1>1, <1>2, <2>2, <2>5 DEF LateOK
  <2> QED BY <2>3, <2>4, <2>5
          DEF Executes, QueueStep, AddTimer, SetNextStepDir, ResetStepClock,
              StepperShutdown, stepperVars
<1>6. ASSUME NEW o \in Oids, Step(o)
      PROVE  too_close' = too_close /\ held' \subseteq held
  BY <1>6 DEF Step, StepperEvent, StepperEventEdge, StepperEventFull,
              RescheduledInPast, StepperShutdown
<1>7. CASE Trigger
  BY <1>4, <1>7 DEF Trigger
<1>8. CASE AdvanceFlushTime \/ NoteHomingEnd \/ QueryAnswered \/ Tick \/ UNCHANGED vars
  BY <1>3, <1>8 DEF AdvanceFlushTime, NoteHomingEnd, QueryAnswered, Tick, vars,
                    stepperVars
<1> QED BY <1>4, <1>5, <1>6, <1>7, <1>8 DEF Next

-----------------------------------------------------------------------------
(* The invariant's consequences *)

LEMMA PoolInvHolds ==
  ASSUME SyncInv, LateOK
  PROVE  PoolInv
<1>1. DOMAIN stepper = Motors /\ Oids = Motors
  BY DEF SyncInv, Shapes, Oids
<1>2. ASSUME NEW o \in Motors
      PROVE  /\ stepper[o].count \in Nat /\ stepper[o].position \in 0..(2^W - 1)
             /\ stepper[o].waketime \in Int /\ stepper[o].step_pin \in {0, 1}
             /\ sc[o].next_step_clock \in 0..Horizon /\ sc[o].sdir \in {-1, 0, 1}
             /\ stepper[o].active <=> stepper[o].count > 0
             /\ stepper[o].count = 0 => stepper[o].mq = <<>>
  <2>1. PICK s, x, g : s = stepper[o] /\ x = sc[o] /\ g = generated[o]
    OBVIOUS
  <2>2. StepperOK(s) /\ HostOK(x, g) /\ g \in Nat /\ g <= Horizon
    BY <2>1 DEF SyncInv, Good, MotorOK
  <2>3. s \in StepperType
    BY <2>2 DEF StepperOK, Sound
  <2>4. /\ s.count \in Nat /\ s.position \in 0..(2^W - 1) /\ s.step_pin \in {0, 1}
        /\ s.waketime \in Int
    BY <2>3 DEF StepperType
  <2>5. x.next_step_clock \in Nat /\ x.sdir \in {-1, 0, 1}
    <3>1. x \in HostRecord
      BY <2>2 DEF HostOK
    <3> QED BY <3>1, HostFields
  <2>6. x.next_step_clock \in 0..Horizon
    <3>1. Horizon \in Nat
      BY ScenariosAssumption
    <3>2. x.next_step_clock # 0 => x.next_step_clock <= g
      BY <2>2 DEF HostOK, Ordered
    <3> QED BY <2>2, <2>5, <3>1, <3>2
  <2>7. (s.active <=> s.count > 0) /\ (s.count = 0 => s.mq = <<>>)
    BY <2>2 DEF StepperOK, Sound
  <2> QED BY <2>1, <2>4, <2>5, <2>6, <2>7
<1>3. TypeOK
  <2>1. /\ now \in 1..Horizon /\ flushed \in 0..Horizon /\ stop \in 0..Horizon
        /\ free \in Nat /\ phase \in {"homing", "querying", "done"}
        /\ fault \in Reasons \cup {"none"}
    BY DEF SyncInv, Clocks, PoolOK
  <2>2. too_close \in 0..TooCloseMax /\ held \subseteq Oids
    BY <1>1 DEF LateOK
  <2> QED BY <1>1, <1>2, <2>1, <2>2 DEF TypeOK, Reasons
<1>4. NodesConserved
  <2>1. free + QueuedIn(stepper, Oids) = MoveCount
    BY <1>1 DEF SyncInv, PoolOK
  <2> QED BY <2>1 DEF NodesConserved, QueuedIn
<1>5. NoMoveStranded
  BY <1>1, <1>2 DEF NoMoveStranded
<1> QED BY <1>3, <1>4, <1>5 DEF PoolInv

LEMMA PositionHolds ==
  ASSUME SyncInv
  PROVE  PositionIsTheMotors
<1>1. Oids = Motors
  BY DEF SyncInv, Shapes, Oids
<1>2. ASSUME NEW o \in Motors PROVE Reported(stepper[o]) = stepper[o].motor
  <2>1. StepperOK(stepper[o]) /\ InRange(stepper[o])
    BY DEF SyncInv, Good, MotorOK
  <2>2. stepper[o] \in StepperType /\ PositionOK(stepper[o])
    BY <2>1 DEF StepperOK, Sound
  <2> QED BY <2>1, <2>2, PositionTrue
<1> QED BY <1>1, <1>2 DEF PositionIsTheMotors

LEMMA NoStepLostHolds ==
  ASSUME SyncInv
  PROVE  NoStepLost
<1>1. Oids = Motors
  BY DEF SyncInv, Shapes, Oids
<1>2. ASSUME stop = 0, NEW o \in Motors
      PROVE  sc[o].last_position + Way(sc[o].sdir) * Len(sc[o].queue)
               + (IF sc[o].next_step_clock = 0 THEN 0 ELSE Way(sc[o].next_step_dir))
             = WaysTo(scenario.plan[o], steps[o])
  <2>1. PICK x : x = sc[o]
    OBVIOUS
  <2>2. x \in HostRecord /\ Balance(x) = WaysTo(scenario.plan[o], steps[o])
    BY <1>2, <2>1 DEF SyncInv, Good, MotorOK, HostOK
  <2>3. x.queue \in Seq(Nat) /\ x.last_position \in Int
    BY <2>2, HostFields
  <2>4. PICK n \in Int : n = Len(x.queue)
    BY <2>3
  <2>5. Way(x.sdir) * n = Times(x.sdir, n)
    <3>1. 1 * n = n /\ (-1) * n = -n
      OBVIOUS
    <3> QED BY <3>1 DEF Way, Times
  <2>6. Way(x.next_step_dir) = Times(x.next_step_dir, 1)
    BY DEF Way, Times
  <2>7. x.last_position + Way(x.sdir) * Len(x.queue)
               + (IF x.next_step_clock = 0 THEN 0 ELSE Way(x.next_step_dir))
          = Balance(x)
    BY <2>4, <2>5, <2>6 DEF Balance
  <2> QED BY <2>1, <2>2, <2>7
<1>3. NoStepLost <=>
        (stop = 0 => \A o \in Oids :
           sc[o].last_position + Way(sc[o].sdir) * Len(sc[o].queue)
               + (IF sc[o].next_step_clock = 0 THEN 0 ELSE Way(sc[o].next_step_dir))
             = WaysTo(scenario.plan[o], steps[o]))
  BY DEF NoStepLost, Way, WaysTo
<1> QED BY <1>1, <1>2, <1>3

LEMMA HostKnowsHolds ==
  ASSUME SyncInv
  PROVE  HostKnowsPosition
<1>1. Oids = Motors
  BY DEF SyncInv, Shapes, Oids
<1>2. ASSUME NEW o \in Motors, phase = "done", fault = "none", wire = <<>>,
             sc[o].msg_queue = <<>>, sc[o].queue = <<>>, sc[o].next_step_clock = 0,
             stepper[o].count = 0
      PROVE  sc[o].last_position = Sign(o) * stepper[o].motor
  <2>1. PICK v : Tracks(stepper[o], sc[o], wire, o, steps[o], generated[o],
                        stop, phase, v)
    BY <1>2, GoodFacts
  <2>2. generated[o] \in Nat /\ steps[o] \in Nat
    BY <1>2, GoodFacts
  <2>3. PICK u \in View, t \in Int, b \in BOOLEAN, k \in Int :
          /\ v \in View /\ b = Known(stop, phase)
          /\ Runs(Seen(wire, o), v, u) /\ Host(sc[o], u, t, generated[o], b, k)
    BY <2>1, <2>2, TrackFacts
  <2>4. b = TRUE
    BY <1>2, <2>3 DEF Known
  <2>5. u = v
    <3>1. Len(Seen(wire, o)) = 0
      BY <1>2, WireEmpty
    <3> QED BY <2>3, <3>1, RunsEmpty
  <2>6. PICK x : x = sc[o]
    OBVIOUS
  <2>7. PICK w : Goes(x, u, w, b, k)
    BY <2>3, <2>6 DEF Host
  <2>8. w = u
    <3>1. <<>> \in Seq(Msg) /\ Len(<<>>) = 0
      OBVIOUS
    <3>2. Len(Commands(x.msg_queue)) = 0
      BY <1>2, <2>6, <3>1, CommandsType
    <3>3. Runs(Commands(x.msg_queue), u, w)
      BY <2>7 DEF Goes
    <3> QED BY <3>2, <3>3, RunsEmpty
  <2>9. x.last_position = HostPlace(x, v)
    BY <2>4, <2>5, <2>7, <2>8 DEF Goes
  <2>10. stepper[o].motor = v.place
    <3>1. Sound(stepper[o])
      BY <1>2, MotorFacts
    <3>2. Predicts(stepper[o], v)
      BY <2>1 DEF Tracks
    <3> QED BY <1>2, <3>1, <3>2, PredictsBound
  <2>11. PICK p \in Int : p = v.place
    BY <2>3 DEF View
  <2>12. (-1) * p = -p /\ 1 * p = p
    OBVIOUS
  <2>13. Sign(o) * stepper[o].motor = HostPlace(x, v)
    <3>1. CASE sc[o].invert_sdir = 1
      BY <2>6, <2>10, <2>11, <2>12, <3>1 DEF Sign, HostPlace
    <3>2. CASE sc[o].invert_sdir # 1
      BY <2>6, <2>10, <2>11, <2>12, <3>2 DEF Sign, HostPlace
    <3> QED BY <3>1, <3>2
  <2> QED BY <2>6, <2>9, <2>13
<1> QED BY <1>1, <1>2 DEF HostKnowsPosition

(* A stopped motor whose reset_step_clock is still to come has nothing to do. *)
LEMMA AwaitingIsQuiet ==
  ASSUME SyncInv, fault = "none", NEW o \in Motors, AwaitsReset(o)
  PROVE  stepper[o].count = 0
<1>1. PICK v : Tracks(stepper[o], sc[o], wire, o, steps[o], generated[o],
                      stop, phase, v)
  BY GoodFacts
<1>2. generated[o] \in Nat /\ steps[o] \in Nat
  BY GoodFacts
<1>3. PICK u \in View, t \in Int, b \in BOOLEAN, k \in Int :
        /\ v \in View /\ k = Cleared(stop, phase)
        /\ Runs(Seen(wire, o), v, u) /\ Host(sc[o], u, t, generated[o], b, k)
  BY <1>1, <1>2, TrackFacts
<1>4. PICK x, g, r : x = sc[o] /\ g = generated[o] /\ r = wire
  OBVIOUS
<1>5. PICK w : Goes(x, u, w, b, k)
  BY <1>3, <1>4 DEF Host
<1>6. x \in HostRecord
  BY <1>3, <1>4 DEF Host, HostOK
<1>7. PICK c, d : c = Seen(r, o) /\ d = Commands(x.msg_queue)
  OBVIOUS
<1>8. WireOK(r, Motors)
  BY <1>4 DEF SyncInv, Shapes
<1>9. /\ c \in Seq(Command) /\ Len(c) = Len(r) /\ Len(r) \in Nat
      /\ \A i \in 1..Len(r) : c[i] = IF r[i].oid = o THEN CommandOf(r[i]) ELSE None
  BY <1>7, <1>8, SeenType
<1>10. x.msg_queue \in Seq(Msg)
  BY <1>6, HostFields
<1>11. /\ d \in Seq(Command) /\ Len(d) = Len(x.msg_queue)
       /\ \A i \in 1..Len(x.msg_queue) : d[i] = CommandOf(x.msg_queue[i])
  BY <1>7, <1>10, CommandsType
<1>12. Runs(c, v, u) /\ Runs(d, u, w) /\ w.resets = k
  BY <1>3, <1>4, <1>5, <1>7 DEF Goes
<1>13. /\ v.resets <= u.resets
       /\ v.resets = u.resets => \A i \in 1..Len(c) : c[i].kind # "reset_step_clock"
  BY <1>3, <1>9, <1>12, RunsProps
<1>14. /\ w \in View /\ u.resets <= w.resets
       /\ u.resets = w.resets => \A i \in 1..Len(d) : d[i].kind # "reset_step_clock"
  BY <1>11, <1>12, RunsProps
<1>15. v.resets \in Nat /\ u.resets \in Nat /\ w.resets \in Nat /\ k <= 1
  BY <1>3, <1>14 DEF View, Cleared
<1>16. stop # 0
  BY DEF AwaitsReset
<1>17. v.resets = 0
  <2>1. CASE phase = "homing"
    <3>1. k = 0
      BY <1>3, <2>1 DEF Cleared
    <3> QED BY <1>12, <1>13, <1>14, <1>15, <3>1
  <2>2. CASE \E i \in DOMAIN wire : wire[i].oid = o /\ IsReset(wire[i])
    <3>1. DOMAIN r = 1..Len(r)
      BY <1>8 DEF WireOK
    <3>2. PICK i \in 1..Len(r) : r[i].oid = o /\ r[i].kind = "reset_step_clock"
      BY <1>4, <2>2, <3>1 DEF IsReset
    <3>3. i \in 1..Len(c) /\ c[i] = CommandOf(r[i])
      BY <1>9, <3>2
    <3>5. CommandOf(r[i]).kind = r[i].kind
      BY DEF CommandOf
    <3>6. c[i].kind = "reset_step_clock"
      BY <3>2, <3>3, <3>5
    <3>4. v.resets # u.resets
      BY <1>13, <3>3, <3>6
    <3> QED BY <1>12, <1>13, <1>14, <1>15, <3>4
  <2>3. CASE \E i \in DOMAIN sc[o].msg_queue : IsReset(sc[o].msg_queue[i])
    <3>1. PICK i \in 1..Len(x.msg_queue) : x.msg_queue[i].kind = "reset_step_clock"
      BY <1>4, <1>10, <2>3 DEF IsReset
    <3>2. i \in 1..Len(d) /\ d[i] = CommandOf(x.msg_queue[i])
      BY <1>11, <3>1
    <3>4. CommandOf(x.msg_queue[i]).kind = x.msg_queue[i].kind
      BY DEF CommandOf
    <3>5. d[i].kind = "reset_step_clock"
      BY <3>1, <3>2, <3>4
    <3>3. u.resets # w.resets
      BY <1>14, <3>2, <3>5
    <3> QED BY <1>12, <1>13, <1>14, <1>15, <3>3
  <2> QED BY <2>1, <2>2, <2>3 DEF AwaitsReset
<1>18. v.stopped = TRUE
  BY <1>1, <1>16, <1>17 DEF Tracks
<1>19. stepper[o].need_reset
  BY <1>1, <1>18 DEF Tracks, Predicts
<1>20. Sound(stepper[o]) /\ stepper[o] \in StepperType
  BY MotorFacts
<1>21. stepper[o].count \in Nat
  BY <1>20, StepperFields
<1> QED BY <1>19, <1>20, <1>21 DEF Sound

LEMMA StillStep ==
  ASSUME SyncInv, [Next]_vars, NEW o \in Oids, AwaitsReset(o)
  PROVE  stepper'[o].motor = stepper[o].motor
<1>1. Oids = Motors /\ o \in Motors
  BY DEF SyncInv, Shapes, Oids
<1>2. CASE AdvanceFlushTime
  BY <1>2 DEF AdvanceFlushTime, stepperVars
<1>3. CASE NoteHomingEnd
  BY <1>3 DEF NoteHomingEnd, stepperVars
<1>4. CASE QueryAnswered
  BY <1>4 DEF QueryAnswered, stepperVars
<1>5. CASE Deliver
  BY <1>1, <1>5, DeliverKeeps
<1>6. CASE \E p \in Oids : Step(p)
  <2>1. PICK p \in Motors : Step(p)
    BY <1>1, <1>6
  <2>2. stepper[p].count > 0 /\ (p # o => stepper'[o].motor = stepper[o].motor)
    BY <1>1, <2>1, StepKeeps
  <2>3. p # o
    <3>1. fault = "none"
      BY <2>1 DEF Step
    <3>2. stepper[o].count = 0
      BY <1>1, <3>1, AwaitingIsQuiet
    <3> QED BY <2>2, <3>2
  <2> QED BY <2>2, <2>3
<1>7. CASE Trigger
  BY <1>1, <1>7, TriggerKeeps
<1>8. CASE Tick
  BY <1>8 DEF Tick, stepperVars
<1>9. CASE UNCHANGED vars
  BY <1>9 DEF vars, stepperVars
<1> QED BY <1>2, <1>3, <1>4, <1>5, <1>6, <1>7, <1>8, <1>9 DEF Next

-----------------------------------------------------------------------------
(* Theorems *)

(* The inductive invariant: the stepper, the commands under way and the host's
   own queue lead, one after the other, to where the host says the motor is. *)
THEOREM HostAndMotorMeet == Spec => []SyncInv
<1>1. Init => SyncInv
  BY InitInv
<1>2. SyncInv /\ [Next]_vars => SyncInv'
  BY NextKeeps
<1> QED BY <1>1, <1>2, PTL DEF Spec

(* stepper.c keeps the pool of moves: no stop, no dropped move and no shutdown
   handler loses a node or gives one back twice, and queue_step can tell from the
   step count alone whether the timer runs. *)
THEOREM PoolStaysWhole == Spec => []PoolInv
<1>1. Init => LateOK
  BY DEF Init, StepperInit, LateOK
<1>2. SyncInv /\ LateOK /\ [Next]_vars => LateOK'
  BY LateKeeps
<1>3. SyncInv /\ LateOK => PoolInv
  BY PoolInvHolds
<1> QED BY <1>1, <1>2, <1>3, HostAndMotorMeet, PTL DEF Spec

(* stepper_get_position is the truth in every state: within a move, between the
   two edges of a pulse, after a change of direction, a stop and a shutdown. *)
THEOREM PositionIsTrue == Spec => []PositionIsTheMotors
<1>1. SyncInv => PositionIsTheMotors
  BY PositionHolds
<1> QED BY <1>1, HostAndMotorMeet, PTL

(* stepcompress.c loses no step, and what note_homing_end and the position query
   leave the host with is where the motor really is. *)
THEOREM HostIsRight == Spec => []PositionsAgree
<1>1. SyncInv => PositionsAgree
  BY NoStepLostHolds, HostKnowsHolds DEF PositionsAgree
<1> QED BY <1>1, HostAndMotorMeet, PTL

(* need_reset: commands of an abandoned move that still arrive do not move a
   motor the trsync has stopped. *)
THEOREM StoppedMotorStands == Spec => StandsStill
<1>1. SyncInv /\ [Next]_vars =>
        [\A o \in Oids : AwaitsReset(o) /\ AwaitsReset(o)'
                          => stepper'[o].motor = stepper[o].motor]_vars
  BY StillStep
<1> QED BY <1>1, HostAndMotorMeet, PTL DEF Spec, StandsStill
=============================================================================
