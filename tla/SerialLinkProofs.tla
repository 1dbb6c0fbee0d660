------------------------- MODULE SerialLinkProofs -------------------------
(***************************************************************************)
(* Proofs about SerialLink for every sequence modulus, window, queue size, *)
(* number of blocks and number of faults.  IInv is inductive; exactly-once *)
(* in-order execution, sound acknowledgements and the refinement of        *)
(* CommandStream follow from it, with ResponsesInv the wakeups, and with   *)
(* WindowInv that the receive window is respected.                         *)
(***************************************************************************)
EXTENDS SerialLinkInvariant, FiniteSetTheorems, WellFoundedInduction, TLAPS

-----------------------------------------------------------------------------
(* Arithmetic modulo a constant *)

(* Division with remainder, for a modulus that is a constant. *)
LEMMA ModFact ==
  ASSUME NEW m \in Nat \ {0}, NEW a \in Int
  PROVE  /\ a % m \in 0..(m-1)
         /\ a = m * (a \div m) + (a % m)
         /\ (a \div m) \in Int
  BY SMT

(* A multiple of m that is smaller than m is zero. *)
LEMMA MulSmall ==
  ASSUME NEW m \in Nat \ {0}, NEW k \in Int, m * k < m, -(m * k) < m
  PROVE  k = 0
  OBVIOUS

(* Numbers less than m apart are told apart by their residues; this is
   what the sequence numbers of the wire rest on (command_find_block). *)
LEMMA ModUnique ==
  ASSUME NEW m \in Nat \ {0}, NEW a \in Int, NEW b \in Int,
         a % m = b % m, a - b < m, b - a < m
  PROVE  a = b
<1> DEFINE k == (a \div m) - (b \div m)
<1>1. /\ a = m * (a \div m) + (a % m) /\ (a \div m) \in Int /\ a % m \in Int
      /\ b = m * (b \div m) + (b % m) /\ (b \div m) \in Int
   BY ModFact
<1>2. a - b = m * k /\ k \in Int
   BY <1>1
<1> HIDE DEF k
<1>3. k = 0 
  <2>1. m * k < m /\ -(m * k) < m
    BY <1>2
  <2> QED BY <1>2, <2>1, MulSmall
<1> QED BY <1>2, <1>3

(* The remainder of a number that is given as quotient and remainder. *)
LEMMA ModValue ==
  ASSUME NEW m \in Nat \ {0}, NEW q \in Int, NEW r \in 0..(m - 1)
  PROVE  (m * q + r) % m = r
<1> DEFINE a == m * q + r
           k == (a \div m) - q
<1>1. a \in Int
  OBVIOUS
<1>2. a = m * (a \div m) + (a % m) /\ (a \div m) \in Int /\ a % m \in 0..(m-1)
  <2> HIDE DEF a
  <2> QED BY <1>1, ModFact
<1>3. r - (a % m) = m * k /\ k \in Int
  BY <1>2
<1> HIDE DEF k
<1>4. k = 0
  <2>1. m * k < m /\ -(m * k) < m
    BY <1>3, <1>2
  <2> QED BY <1>3, <2>1, MulSmall
<1> QED BY <1>3, <1>4, <1>2

(* Counting modulo m (next_sequence + 1 in command_find_block) is the
   residue of counting. *)
LEMMA ModPlus ==
  ASSUME NEW m \in Nat \ {0}, NEW a \in Int
  PROVE  ((a % m) + 1) % m = (a + 1) % m
<1> DEFINE q == a \div m
           r == a % m
<1>1. a = m * q + r /\ q \in Int /\ r \in 0..(m - 1)
  BY ModFact
<1> HIDE DEF q, r
<1>2. CASE r + 1 < m
  <2>1. a + 1 = m * q + (r + 1) /\ r + 1 \in 0..(m - 1)
    BY <1>1, <1>2
  <2>2. (a + 1) % m = r + 1
    BY <2>1, <1>1, ModValue
  <2>3. (r + 1) % m = r + 1
    <3>1. (m * 0 + (r + 1)) % m = r + 1
      BY <2>1, ModValue
    <3> QED BY <3>1, <1>1
  <2> QED BY <2>2, <2>3 DEF r
<1>3. CASE r + 1 = m
  <2>1. a + 1 = m * (q + 1) + 0 /\ r + 1 = m * 1 + 0
    BY <1>1, <1>3
  <2>2. (m * (q + 1) + 0) % m = 0 /\ (m * 1 + 0) % m = 0
    BY <1>1, ModValue
  <2> QED BY <2>1, <2>2 DEF r
<1> QED BY <1>1, <1>2, <1>3

(* handle_message recovers a number that is less than m above
   receive_seq from its residue. *)
LEMMA ModRecover ==
  ASSUME NEW m \in Nat \ {0}, NEW r \in Int, NEW d \in Int, r <= d, d < r + m
  PROVE  r + (((d % m) - r) % m) = d
<1> DEFINE q == d \div m
           e == d % m
<1>1. d = m * q + e /\ q \in Int /\ e \in 0..(m - 1)
  BY ModFact
<1> HIDE DEF q, e
<1>2. e - r = m * (-q) + (d - r) /\ d - r \in 0..(m-1) /\ -q \in Int
  BY <1>1
<1>3. (e - r) % m = d - r
  BY <1>2, ModValue
<1> QED BY <1>3 DEF e

-----------------------------------------------------------------------------
(* Sequences *)

(* What remains of a queue when its first k elements are removed. *)
LEMMA RestProps ==
  ASSUME NEW S, NEW s \in Seq(S), NEW k \in 0..Len(s)
  PROVE  /\ SubSeq(s, k + 1, Len(s)) \in Seq(S)
         /\ Len(SubSeq(s, k + 1, Len(s))) = Len(s) - k
         /\ \A i \in 1..(Len(s) - k) :
              SubSeq(s, k + 1, Len(s))[i] = s[i + k]
  OBVIOUS

(* What remains of a queue when its head is removed. *)
LEMMA TailProps ==
  ASSUME NEW S, NEW s \in Seq(S), s # <<>>
  PROVE  /\ Len(s) >= 1 /\ Head(s) = s[1] /\ Head(s) \in S
         /\ Tail(s) \in Seq(S) /\ Len(Tail(s)) = Len(s) - 1
         /\ \A i \in 1..Len(Tail(s)) : Tail(s)[i] = s[i + 1]
  OBVIOUS

(* A queue with one more element. *)
LEMMA AppendProps ==
  ASSUME NEW S, NEW s \in Seq(S), NEW e \in S
  PROVE  /\ Append(s, e) \in Seq(S) /\ Len(Append(s, e)) = Len(s) + 1
         /\ Append(s, e)[Len(s) + 1] = e
         /\ \A i \in 1..Len(s) : Append(s, e)[i] = s[i]
  OBVIOUS

(* The elements of a queue followed by the first n of another. *)
LEMMA ConcatProps ==
  ASSUME NEW S, NEW s \in Seq(S), NEW t \in Seq(S), NEW n \in 0..Len(t)
  PROVE  /\ s \o SubSeq(t, 1, n) \in Seq(S)
         /\ Len(s \o SubSeq(t, 1, n)) = Len(s) + n
         /\ \A i \in 1..Len(s) : (s \o SubSeq(t, 1, n))[i] = s[i]
         /\ \A i \in 1..n : (s \o SubSeq(t, 1, n))[Len(s) + i] = t[i]
<1>1. /\ SubSeq(t, 1, n) \in Seq(S) /\ Len(SubSeq(t, 1, n)) = n
      /\ \A i \in 1..n : SubSeq(t, 1, n)[i] = t[i]
  OBVIOUS
<1> DEFINE u == SubSeq(t, 1, n)
<1> HIDE DEF u
<1>2. /\ s \o u \in Seq(S) /\ Len(s \o u) = Len(s) + Len(u)
      /\ \A i \in 1..(Len(s) + Len(u)) :
           (s \o u)[i] = IF i <= Len(s) THEN s[i] ELSE u[i - Len(s)]
  BY <1>1 DEF u
<1> QED BY SMTT(30), <1>1, <1>2 DEF u

-----------------------------------------------------------------------------
(* The operators of the model *)

(* What do_write puts on the wire: a sound block is one of the blocks
   written, at its place. *)
LEMMA DoWriteProps ==
  ASSUME NEW blocks \in Seq(Block), h2m \in Seq(Block),
         last_write_fail_time \in BOOLEAN, must_exit \in BOOLEAN,
         do_write(blocks)
  PROVE  /\ h2m' \in Seq(Block)
         /\ last_write_fail_time' \in BOOLEAN
         /\ must_exit' \in BOOLEAN
         /\ Len(h2m) <= Len(h2m')
         /\ \A i \in 1..Len(h2m) : h2m'[i] = h2m[i]
         /\ \A i \in (Len(h2m) + 1)..Len(h2m') :
              h2m'[i].ok => /\ i - Len(h2m) \in 1..Len(blocks)
                            /\ h2m'[i] = blocks[i - Len(h2m)]
<1> DEFINE room == TxQueueLen - Len(h2m)
           n    == IF Len(blocks) <= room THEN Len(blocks)
                   ELSE IF room > 0 THEN room ELSE 0
           out  == h2m \o SubSeq(blocks, 1, n)
           b    == Bad(blocks[n + 1].len)
<1>1. n \in 0..Len(blocks)
  BY WireAssumption
<1>2. /\ out \in Seq(Block) /\ Len(out) = Len(h2m) + n
      /\ \A i \in 1..Len(h2m) : out[i] = h2m[i]
      /\ \A i \in 1..n : out[Len(h2m) + i] = blocks[i]
  <2> HIDE DEF n
  <2> QED BY <1>1, ConcatProps
<1>3. \A i \in (Len(h2m) + 1)..Len(out) :
        /\ i - Len(h2m) \in 1..Len(blocks)
        /\ out[i] = blocks[i - Len(h2m)]
  <2> SUFFICES ASSUME NEW i \in (Len(h2m) + 1)..Len(out)
               PROVE  /\ i - Len(h2m) \in 1..Len(blocks)
                      /\ out[i] = blocks[i - Len(h2m)]
    OBVIOUS
  <2> HIDE DEF out, n
  <2>1. i - Len(h2m) \in 1..n /\ Len(h2m) + (i - Len(h2m)) = i
    BY <1>1, <1>2
  <2> QED BY <1>1, <1>2, <2>1
<1>4. last_write_fail_time' \in BOOLEAN /\ must_exit' \in BOOLEAN
  <2>1. last_write_fail_time' = (n < Len(blocks))
    BY Zenon DEF do_write
  <2>2. last_write_fail_time' \in BOOLEAN
    <3> HIDE DEF n
    <3>1. CASE n < Len(blocks)
      BY <2>1, <3>1, Zenon
    <3>2. CASE ~(n < Len(blocks))
      BY <2>1, <3>2
    <3> QED BY <3>1, <3>2
  <2>3. must_exit' = must_exit \/ must_exit' = TRUE
    BY Zenon DEF do_write
  <2> QED BY <2>2, <2>3, Zenon
<1>5. CASE h2m' = out
  <2> HIDE DEF out
  <2> QED BY <1>1, <1>2, <1>3, <1>4, <1>5
<1>6. CASE n < Len(blocks) /\ h2m' = Append(out, b)
  <2>1. b \in Block /\ ~b.ok
    <3>1. blocks[n + 1] \in Block
      <4> HIDE DEF n
      <4> QED BY <1>1, <1>6
    <3> HIDE DEF n
    <3> QED BY <3>1, SeqAssumption DEF Bad, Block
  <2> HIDE DEF out, b, n
  <2>2. /\ h2m' \in Seq(Block) /\ Len(h2m') = Len(out) + 1
        /\ h2m'[Len(out) + 1] = b
        /\ \A i \in 1..Len(out) : h2m'[i] = out[i]
    BY <1>2, <1>6, <2>1, AppendProps
  <2>3. \A i \in (Len(h2m) + 1)..Len(h2m') :
          h2m'[i].ok => i \in (Len(h2m) + 1)..Len(out)
    BY <1>1, <1>2, <2>1, <2>2
  <2>4. \A i \in (Len(h2m) + 1)..Len(h2m') :
          h2m'[i].ok => /\ i - Len(h2m) \in 1..Len(blocks)
                        /\ h2m'[i] = blocks[i - Len(h2m)]
    BY <1>3, <2>2, <2>3
  <2>5. /\ Len(h2m) <= Len(h2m')
        /\ \A i \in 1..Len(h2m) : h2m'[i] = h2m[i]
    BY <1>1, <1>2, <2>2
  <2> QED BY <1>4, <2>2, <2>4, <2>5, Zenon
<1> QED BY <1>5, <1>6 DEF do_write

(* What console_sendf does to the frames under way: it adds one at most. *)
LEMMA SendfProps ==
  ASSUME m2h \in Seq(Frame), dispatching \in Nat,
         NEW ack \in BOOLEAN, NEW seq \in 0..(SeqMod - 1), NEW done \in Nat,
         console_sendf(ack, seq, done)
  PROVE  /\ m2h' \in Seq(Frame)
         /\ Len(m2h) <= Len(m2h') /\ Len(m2h') <= Len(m2h) + 1
         /\ \A i \in 1..Len(m2h) : m2h'[i] = m2h[i]
         /\ \A i \in (Len(m2h) + 1)..Len(m2h') :
              /\ m2h'[i].seq = seq /\ m2h'[i].done = done
              /\ m2h'[i].src \in {0, dispatching}
<1> DEFINE f == [seq |-> seq, ack |-> ack, done |-> done,
                 src |-> IF ack THEN 0 ELSE dispatching]
<1>1. /\ f \in Frame /\ f.seq = seq /\ f.done = done
      /\ f.src \in {0, dispatching}
  BY DEF Frame
<1>2. m2h' = m2h \/ m2h' = Append(m2h, f)
  BY DEF console_sendf
<1> HIDE DEF f
<1>3. CASE m2h' = m2h
  BY <1>3
<1>4. CASE m2h' = Append(m2h, f)
  <2>1. /\ m2h' \in Seq(Frame) /\ Len(m2h') = Len(m2h) + 1
        /\ m2h'[Len(m2h) + 1] = f
        /\ \A i \in 1..Len(m2h) : m2h'[i] = m2h[i]
    BY <1>1, <1>4, AppendProps
  <2>2. \A i \in (Len(m2h) + 1)..Len(m2h') : i = Len(m2h) + 1
    BY <2>1
  <2> QED BY <1>1, <2>1, <2>2
<1> QED BY <1>2, <1>3, <1>4

-----------------------------------------------------------------------------
(* What the actions have in common *)

(* The types that the steps below draw on. *)
LEMMA Types ==
  ASSUME TypeOK
  PROVE  /\ SeqMod \in Nat \ {0} /\ MaxPending \in Nat \ {0}
         /\ MaxPending < SeqMod
         /\ send_seq \in Nat \ {0} /\ receive_seq \in Nat \ {0}
         /\ base \in 1..SeqMod /\ dispatching \in Nat
         /\ delivered \in Seq(Nat) /\ NextId \in Nat /\ base <= NextId
         /\ next_sequence \in 0..(SeqMod - 1)
         /\ sent_queue \in Seq(Block) /\ receive_buf \in Seq(Block)
         /\ h2m \in Seq(Block) /\ m2h \in Seq(Frame)
BY SeqAssumption DEF TypeOK, HostTypeOK, McuTypeOK, NextId

(* Removing blocks from the front of receive_buf or of the wire, or
   destroying some on the wire, disturbs no number and no order. *)
LEMMA PipeShift ==
  ASSUME IInv, NEW k \in Nat, NEW l \in Nat,
         receive_buf' \in Seq(Block), h2m' \in Seq(Block),
         \A i \in 1..Len(receive_buf') :
           /\ i + k <= Len(receive_buf)
           /\ receive_buf'[i] = receive_buf[i + k],
         \A i \in 1..Len(h2m') :
           h2m'[i].ok => i + l <= Len(h2m) /\ h2m'[i] = h2m[i + l],
         base' = base, delivered' = delivered,
         send_seq' \in Nat, send_seq <= send_seq'
  PROVE  PipeInv' /\ OrderInv'
<1>1. /\ send_seq \in Nat /\ NextId' = NextId
      /\ receive_buf \in Seq(Block) /\ h2m \in Seq(Block)
  BY Types DEF IInv, NextId
<1>2. /\ \A i \in 1..Len(receive_buf) :
           BlockOK(receive_buf[i], send_seq, NextId)
      /\ \A i \in 1..Len(h2m) : BlockOK(h2m[i], send_seq, NextId)
      /\ \A i, j \in 1..Len(receive_buf) :
           i < j => Near(receive_buf[i], receive_buf[j])
      /\ \A i, j \in 1..Len(h2m) : i < j => Near(h2m[i], h2m[j])
      /\ \A i \in 1..Len(receive_buf), j \in 1..Len(h2m) :
           Near(receive_buf[i], h2m[j])
  BY <1>1 DEF IInv, PipeInv, OrderInv
<1>3. /\ \A i \in 1..Len(receive_buf') :
           /\ i + k \in 1..Len(receive_buf)
           /\ receive_buf'[i] = receive_buf[i + k]
      /\ \A i \in 1..Len(h2m') :
           h2m'[i].ok => i + l \in 1..Len(h2m) /\ h2m'[i] = h2m[i + l]
  BY SMTT(30), <1>1
<1>4. PipeInv'
  <2>1. \A b \in Block : BlockOK(b, send_seq, NextId)
                           => BlockOK(b, send_seq', NextId')
    BY <1>1 DEF BlockOK, Block
  <2>2. \A i \in 1..Len(receive_buf') :
          BlockOK(receive_buf'[i], send_seq', NextId')
    BY <1>1, <1>2, <1>3, <2>1
  <2>3. \A i \in 1..Len(h2m') : BlockOK(h2m'[i], send_seq', NextId')
    <3> TAKE i \in 1..Len(h2m')
    <3>1. CASE h2m'[i].ok
      BY <1>1, <1>2, <1>3, <2>1, <3>1
    <3>2. CASE ~h2m'[i].ok
      BY <3>2 DEF BlockOK
    <3> QED BY <3>1, <3>2
  <2> QED BY <2>2, <2>3 DEF PipeInv
<1>5. OrderInv'
  <2>1. \A i, j \in 1..Len(receive_buf') :
          i < j => Near(receive_buf'[i], receive_buf'[j])
    BY <1>1, <1>2, <1>3
  <2>2. \A i, j \in 1..Len(h2m') : i < j => Near(h2m'[i], h2m'[j])
    <3> SUFFICES ASSUME NEW i \in 1..Len(h2m'), NEW j \in 1..Len(h2m'),
                        i < j, h2m'[i].ok, h2m'[j].ok
                 PROVE  Near(h2m'[i], h2m'[j])
      BY DEF Near
    <3>1. /\ i + l \in 1..Len(h2m) /\ h2m'[i] = h2m[i + l]
          /\ j + l \in 1..Len(h2m) /\ h2m'[j] = h2m[j + l]
      BY <1>3
    <3>2. i + l < j + l
      OBVIOUS
    <3> QED BY <1>2, <3>1, <3>2
  <2>3. \A i \in 1..Len(receive_buf'), j \in 1..Len(h2m') :
          Near(receive_buf'[i], h2m'[j])
    BY <1>1, <1>2, <1>3 DEF Near
  <2> QED BY <2>1, <2>2, <2>3 DEF OrderInv, Near
<1> QED BY <1>4, <1>5

(* A frame that reports the current position keeps the frames in order. *)
LEMMA SendfFrameInv ==
  ASSUME IInv, NEW ack \in BOOLEAN,
         console_sendf(ack, next_sequence, NextId),
         receive_seq' = receive_seq, base' = base, delivered' = delivered
  PROVE  m2h' \in Seq(Frame) /\ FrameInv'
<1>1. /\ m2h' \in Seq(Frame) /\ m2h \in Seq(Frame)
      /\ Len(m2h) <= Len(m2h') /\ Len(m2h') <= Len(m2h) + 1
      /\ \A i \in 1..Len(m2h) : m2h'[i] = m2h[i]
      /\ \A i \in (Len(m2h) + 1)..Len(m2h') :
           /\ m2h'[i].seq = next_sequence /\ m2h'[i].done = NextId
           /\ m2h'[i].src \in {0, dispatching}
  BY SendfProps, Types DEF IInv
<1>2. /\ NextId' = NextId /\ (Synced' <=> Synced) /\ NextId \in Nat
      /\ base <= NextId /\ next_sequence = NextId % SeqMod
      /\ Synced => receive_seq <= NextId
      /\ ~Synced => dispatching = 0
  <2>1. NextId' = NextId /\ (Synced' <=> Synced)
    BY DEF NextId, Synced
  <2>2. NextId \in Nat /\ base <= NextId
    BY Types DEF IInv
  <2>3. next_sequence = NextId % SeqMod
    BY DEF IInv, CounterInv
  <2>4. (Synced => receive_seq <= NextId) /\ (~Synced => dispatching = 0)
    BY DEF IInv, PositionsInv
  <2> QED BY <2>1, <2>2, <2>3, <2>4
<1>3. /\ \A i \in 1..Len(m2h) : m2h[i].done \in Nat
      /\ \A i \in 1..Len(m2h) : /\ m2h[i].seq = m2h[i].done % SeqMod
                                /\ base <= m2h[i].done
                                /\ m2h[i].done <= NextId
                                /\ Synced => receive_seq <= m2h[i].done
                                /\ ~Synced => m2h[i].src = 0
      /\ \A i, j \in 1..Len(m2h) : i < j => m2h[i].done <= m2h[j].done
  <2>1. \A i \in 1..Len(m2h) : m2h[i] \in Frame
    BY <1>1
  <2>2. \A i \in 1..Len(m2h) : m2h[i].done \in Nat
    BY <2>1 DEF Frame
  <2>3. FrameInv
    BY DEF IInv
  <2> QED BY <2>2, <2>3 DEF FrameInv
<1>4. \A i \in 1..Len(m2h') :
        /\ m2h'[i].seq = m2h'[i].done % SeqMod
        /\ base <= m2h'[i].done /\ m2h'[i].done <= NextId
        /\ Synced => receive_seq <= m2h'[i].done
        /\ ~Synced => m2h'[i].src = 0
  <2> SUFFICES ASSUME NEW i \in 1..Len(m2h')
               PROVE  /\ m2h'[i].seq = m2h'[i].done % SeqMod
                      /\ base <= m2h'[i].done /\ m2h'[i].done <= NextId
                      /\ Synced => receive_seq <= m2h'[i].done
                      /\ ~Synced => m2h'[i].src = 0
    OBVIOUS
  <2>1. CASE i \in 1..Len(m2h)
    BY <1>1, <1>3, <2>1
  <2>2. CASE i \in (Len(m2h) + 1)..Len(m2h')
    BY <1>1, <1>2, <2>2
  <2> QED BY <1>1, <2>1, <2>2
<1>5. \A i, j \in 1..Len(m2h') : i < j => m2h'[i].done <= m2h'[j].done
  <2> SUFFICES ASSUME NEW i \in 1..Len(m2h'), NEW j \in 1..Len(m2h'), i < j
               PROVE  m2h'[i].done <= m2h'[j].done
    OBVIOUS
  <2>1. i \in 1..Len(m2h)
    BY <1>1
  <2>2. CASE j \in 1..Len(m2h)
    BY <1>1, <1>3, <2>1, <2>2
  <2>3. CASE j \in (Len(m2h) + 1)..Len(m2h')
    BY <1>1, <1>3, <2>1, <2>3
  <2> QED BY <1>1, <2>2, <2>3
<1> QED BY <1>1, <1>2, <1>4, <1>5 DEF FrameInv

(* Blocks that do_write adds, built or built again, are less than SeqMod
   away from what the micro-controller expects and less than MaxPending
   older than any block in front of them. *)
LEMMA WriteInv ==
  ASSUME IInv, NEW blocks \in Seq(Block), do_write(blocks),
         receive_buf' = receive_buf, base' = base, delivered' = delivered,
         send_seq' \in Nat, send_seq <= send_seq',
         send_seq' <= receive_seq + MaxPending,
         \A i \in 1..Len(blocks) :
           /\ blocks[i].seq = blocks[i].id % SeqMod
           /\ receive_seq <= blocks[i].id /\ blocks[i].id < send_seq',
         \A i, j \in 1..Len(blocks) : i < j => blocks[i].id < blocks[j].id
  PROVE  h2m' \in Seq(Block) /\ PipeInv' /\ OrderInv'
<1>1. /\ h2m' \in Seq(Block) /\ Len(h2m) <= Len(h2m')
      /\ \A i \in 1..Len(h2m) : h2m'[i] = h2m[i]
      /\ \A i \in (Len(h2m) + 1)..Len(h2m') :
           h2m'[i].ok => /\ i - Len(h2m) \in 1..Len(blocks)
                         /\ h2m'[i] = blocks[i - Len(h2m)]
  <2>1. /\ h2m \in Seq(Block) /\ last_write_fail_time \in BOOLEAN
        /\ must_exit \in BOOLEAN
    BY DEF IInv, TypeOK, HostTypeOK
  <2> QED BY <2>1, DoWriteProps
<1>2. /\ receive_buf \in Seq(Block) /\ h2m \in Seq(Block)
      /\ send_seq \in Nat /\ receive_seq \in Nat \ {0} /\ NextId \in Nat
      /\ base \in 1..SeqMod /\ SeqMod \in Nat /\ MaxPending \in Nat
      /\ MaxPending < SeqMod
  BY Types DEF IInv
<1>3. NextId' = NextId /\ NextId < receive_seq + SeqMod
  <2>1. NextId' = NextId
    BY DEF NextId
  <2>2. CASE Synced
    BY <1>2, <2>1, <2>2 DEF IInv, PositionsInv
  <2>3. CASE ~Synced
    BY <1>2, <2>1, <2>3 DEF IInv, PositionsInv
  <2> QED BY <2>2, <2>3
<1>4. /\ \A i \in 1..Len(receive_buf) :
           BlockOK(receive_buf[i], send_seq, NextId)
      /\ \A i \in 1..Len(h2m) : BlockOK(h2m[i], send_seq, NextId)
      /\ \A i, j \in 1..Len(receive_buf) :
           i < j => Near(receive_buf[i], receive_buf[j])
      /\ \A i, j \in 1..Len(h2m) : i < j => Near(h2m[i], h2m[j])
      /\ \A i \in 1..Len(receive_buf), j \in 1..Len(h2m) :
           Near(receive_buf[i], h2m[j])
  BY DEF IInv, PipeInv, OrderInv
<1>5. \A b \in Block : BlockOK(b, send_seq, NextId)
                         => BlockOK(b, send_seq', NextId')
  BY <1>2, <1>3 DEF BlockOK, Block
<1>6. \A i \in 1..Len(blocks) :
        blocks[i] \in Block /\ BlockOK(blocks[i], send_seq', NextId')
  <2> SUFFICES ASSUME NEW i \in 1..Len(blocks)
               PROVE  /\ blocks[i] \in Block
                      /\ BlockOK(blocks[i], send_seq', NextId')
    OBVIOUS
  <2>1. blocks[i] \in Block
    OBVIOUS
  <2>2. /\ blocks[i].seq = blocks[i].id % SeqMod
        /\ receive_seq <= blocks[i].id /\ blocks[i].id < send_seq'
    OBVIOUS
  <2>3. blocks[i].id \in Nat
    BY <2>1 DEF Block
  <2> QED BY <1>2, <1>3, <2>1, <2>2, <2>3 DEF BlockOK
<1>7. \A b \in Block : \A j \in 1..Len(blocks) :
        BlockOK(b, send_seq, NextId) => Near(b, blocks[j])
  <2> SUFFICES ASSUME NEW b \in Block, NEW j \in 1..Len(blocks),
                      BlockOK(b, send_seq, NextId)
               PROVE  Near(b, blocks[j])
    OBVIOUS
  <2>1. blocks[j].id \in Nat /\ b.id \in Nat
    BY <1>6 DEF Block
  <2>2. receive_seq <= blocks[j].id
    OBVIOUS
  <2>3. b.ok => b.id < send_seq
    BY DEF BlockOK
  <2>4. b.ok => b.id < blocks[j].id + MaxPending
    <3>1. send_seq <= receive_seq + MaxPending
      BY <1>2
    <3> QED BY SMTT(30), <1>2, <2>1, <2>2, <2>3, <3>1
  <2> QED BY <2>4 DEF Near
<1>8. PipeInv'
  <2>1. \A i \in 1..Len(receive_buf') :
          BlockOK(receive_buf'[i], send_seq', NextId')
    BY <1>2, <1>4, <1>5
  <2>2. \A i \in 1..Len(h2m') : BlockOK(h2m'[i], send_seq', NextId')
    <3> TAKE i \in 1..Len(h2m')
    <3>1. CASE i \in 1..Len(h2m)
      BY <1>1, <1>2, <1>4, <1>5, <3>1
    <3>2. CASE i \in (Len(h2m) + 1)..Len(h2m') /\ h2m'[i].ok
      BY <1>1, <1>6, <3>2
    <3>3. CASE ~h2m'[i].ok
      BY <3>3 DEF BlockOK
    <3> QED BY <1>1, <1>2, <3>1, <3>2, <3>3
  <2> QED BY <2>1, <2>2 DEF PipeInv
<1>9. OrderInv'
  <2>1. \A i, j \in 1..Len(h2m') : i < j => Near(h2m'[i], h2m'[j])
    <3> SUFFICES ASSUME NEW i \in 1..Len(h2m'), NEW j \in 1..Len(h2m'),
                        i < j, h2m'[i].ok, h2m'[j].ok
                 PROVE  Near(h2m'[i], h2m'[j])
      BY DEF Near
    <3>1. CASE j \in 1..Len(h2m)
      <4>1. i \in 1..Len(h2m)
        BY <1>2, <3>1
      <4> QED BY <1>1, <1>4, <3>1, <4>1
    <3>2. CASE i \in 1..Len(h2m) /\ j \in (Len(h2m) + 1)..Len(h2m')
      <4>1. h2m[i] \in Block /\ BlockOK(h2m[i], send_seq, NextId)
        BY <1>2, <1>4, <3>2
      <4> QED BY <1>1, <1>7, <3>2, <4>1
    <3>3. CASE i \in (Len(h2m) + 1)..Len(h2m')
      <4>1. /\ i - Len(h2m) \in 1..Len(blocks)
            /\ h2m'[i] = blocks[i - Len(h2m)]
        BY <1>1, <3>3
      <4>2. /\ j - Len(h2m) \in 1..Len(blocks)
            /\ h2m'[j] = blocks[j - Len(h2m)]
        BY <1>1, <1>2, <3>3
      <4>3. i - Len(h2m) < j - Len(h2m)
        BY <1>2
      <4>4. h2m'[i].id < h2m'[j].id
        BY <4>1, <4>2, <4>3
      <4>5. h2m'[i].id \in Nat /\ h2m'[j].id \in Nat
        <5>1. h2m'[i] \in Block /\ h2m'[j] \in Block
          BY <1>6, <4>1, <4>2
        <5> QED BY <5>1 DEF Block
      <4>6. h2m'[i].id < h2m'[j].id + MaxPending
        BY SMTT(30), <1>2, <4>4, <4>5
      <4> QED BY <4>6 DEF Near
    <3> QED BY <1>1, <1>2, <3>1, <3>2, <3>3
  <2>2. \A i \in 1..Len(receive_buf), j \in 1..Len(h2m') :
          Near(receive_buf[i], h2m'[j])
    <3> SUFFICES ASSUME NEW i \in 1..Len(receive_buf),
                        NEW j \in 1..Len(h2m'), h2m'[j].ok
                 PROVE  Near(receive_buf[i], h2m'[j])
      BY DEF Near
    <3>1. CASE j \in 1..Len(h2m)
      BY <1>1, <1>4, <3>1
    <3>2. CASE j \in (Len(h2m) + 1)..Len(h2m')
      <4>1. /\ receive_buf[i] \in Block
            /\ BlockOK(receive_buf[i], send_seq, NextId)
        BY <1>2, <1>4
      <4> QED BY <1>1, <1>7, <3>2, <4>1
    <3> QED BY <1>1, <1>2, <3>1, <3>2
  <2> QED BY <1>4, <2>1, <2>2 DEF OrderInv
<1> QED BY <1>1, <1>8, <1>9

(* The frames stay in order as the host takes the oldest one. *)
LEMMA TailFrameInv ==
  ASSUME IInv, m2h # <<>>, m2h' = Tail(m2h), base' = base,
         delivered' = delivered, base <= receive_seq',
         \/ receive_seq' = receive_seq /\ Synced
         \/ receive_seq' = Head(m2h).done
  PROVE  m2h' \in Seq(Frame) /\ FrameInv'
<1>1. /\ m2h \in Seq(Frame) /\ m2h' \in Seq(Frame)
      /\ Len(m2h) >= 1 /\ Head(m2h) = m2h[1] /\ Len(m2h') = Len(m2h) - 1
      /\ \A i \in 1..Len(m2h') : m2h'[i] = m2h[i + 1]
  BY TailProps, Types DEF IInv
<1>2. NextId' = NextId /\ Synced'
  BY DEF NextId, Synced
<1>3. FrameInv
  BY DEF IInv
<1>4. \A i \in 1..Len(m2h') : i + 1 \in 1..Len(m2h)
  BY <1>1
<1>5. \A i \in 1..Len(m2h') :
        /\ m2h'[i].seq = m2h'[i].done % SeqMod
        /\ base <= m2h'[i].done /\ m2h'[i].done <= NextId
        /\ receive_seq' <= m2h'[i].done
  <2> SUFFICES ASSUME NEW i \in 1..Len(m2h')
               PROVE  /\ m2h'[i].seq = m2h'[i].done % SeqMod
                      /\ base <= m2h'[i].done /\ m2h'[i].done <= NextId
                      /\ receive_seq' <= m2h'[i].done
    OBVIOUS
  <2>1. i + 1 \in 1..Len(m2h) /\ m2h'[i] = m2h[i + 1] /\ 1 < i + 1
    BY <1>1, <1>4
  <2>2. m2h[1].done <= m2h[i + 1].done
    BY <1>1, <1>3, <2>1 DEF FrameInv
  <2> QED BY <1>1, <1>3, <2>1, <2>2 DEF FrameInv
<1>6. \A i, j \in 1..Len(m2h') : i < j => m2h'[i].done <= m2h'[j].done
  <2> SUFFICES ASSUME NEW i \in 1..Len(m2h'), NEW j \in 1..Len(m2h'), i < j
               PROVE  m2h'[i].done <= m2h'[j].done
    OBVIOUS
  <2> QED BY <1>1, <1>3, <1>4 DEF FrameInv
<1> QED BY <1>1, <1>2, <1>5, <1>6 DEF FrameInv

(* A step that leaves the host and the count of dispatches alone. *)
LEMMA PositionsKept ==
  ASSUME IInv, UNCHANGED hostVars, base' = base, delivered' = delivered,
         dispatching' \in {0, dispatching}
  PROVE  HostTypeOK' /\ SentQueueComplete' /\ PositionsInv'
<1>1. HostTypeOK'
  BY DEF IInv, TypeOK, HostTypeOK, hostVars
<1>2. SentQueueComplete'
  BY DEF IInv, SentQueueComplete, hostVars
<1>3. PositionsInv'
  BY DEF IInv, PositionsInv, Synced, NextId, hostVars
<1> QED BY <1>1, <1>2, <1>3

-----------------------------------------------------------------------------
(* The steps of the wire *)

\* Losing a block or a frame on the wire, or corrupting a block, keeps IInv.
LEMMA WireInductive ==
  ASSUME IInv, WireNext
  PROVE  IInv'
<1>1. /\ UNCHANGED hostVars /\ UNCHANGED mcuVars /\ faults' \in 0..MaxFaults
  BY MaxFaultsAssumption
     DEF WireNext, LoseBlock, CorruptBlock, LoseFrame, Fault, IInv, TypeOK
<1>2. /\ receive_buf' = receive_buf /\ base' = base
      /\ delivered' = delivered /\ dispatching' = dispatching
      /\ next_sequence' = next_sequence /\ receive_seq' = receive_seq
      /\ send_seq' = send_seq
  BY <1>1 DEF mcuVars, hostVars
<1>3. HostTypeOK' /\ SentQueueComplete' /\ PositionsInv'
  BY <1>1, <1>2, PositionsKept
<1>4. McuTypeOK' /\ CounterInv'
  BY <1>1 DEF IInv, TypeOK, McuTypeOK, CounterInv, NextId, mcuVars
<1>5. /\ receive_buf \in Seq(Block) /\ h2m \in Seq(Block)
      /\ m2h \in Seq(Frame) /\ send_seq \in Nat
  BY Types DEF IInv
<1>6. h2m' \in Seq(Block) /\ PipeInv' /\ OrderInv'
  <2>1. ASSUME NEW l \in Nat, h2m' \in Seq(Block),
               \A i \in 1..Len(h2m') :
                 h2m'[i].ok => i + l <= Len(h2m) /\ h2m'[i] = h2m[i + l]
        PROVE  PipeInv' /\ OrderInv'
    <3>1. \A i \in 1..Len(receive_buf') :
            /\ i + 0 <= Len(receive_buf)
            /\ receive_buf'[i] = receive_buf[i + 0]
      BY <1>2, <1>5
    <3>2. /\ receive_buf' \in Seq(Block) /\ base' = base
          /\ delivered' = delivered
          /\ send_seq' \in Nat /\ send_seq <= send_seq'
      BY <1>2, <1>5
    <3> QED BY <2>1, <3>1, <3>2, PipeShift
  <2>2. CASE LoseBlock
    <3>1. /\ h2m' \in Seq(Block) /\ Len(h2m) >= 1
          /\ Len(h2m') = Len(h2m) - 1
          /\ \A i \in 1..Len(h2m') : h2m'[i] = h2m[i + 1]
      BY <1>5, <2>2, TailProps DEF LoseBlock
    <3>2. \A i \in 1..Len(h2m') : i + 1 <= Len(h2m)
      BY <1>5, <3>1
    <3> QED BY <2>1, <3>1, <3>2
  <2>3. CASE CorruptBlock
    <3> DEFINE b == Bad(Head(h2m).len)
    <3>1. /\ Len(h2m) >= 1 /\ Head(h2m) \in Block
          /\ Tail(h2m) \in Seq(Block) /\ Len(Tail(h2m)) = Len(h2m) - 1
          /\ \A i \in 1..Len(Tail(h2m)) : Tail(h2m)[i] = h2m[i + 1]
      BY <1>5, <2>3, TailProps DEF CorruptBlock
    <3>2. b \in Block /\ ~b.ok
      BY <3>1, SeqAssumption DEF Bad, Block
    <3> DEFINE t == Tail(h2m)
    <3>3. h2m' = <<b>> \o t
      BY <2>3 DEF CorruptBlock
    <3> HIDE DEF b, t
    <3>4. /\ h2m' \in Seq(Block) /\ h2m'[1] = b /\ Len(h2m') = Len(t) + 1
          /\ \A i \in 2..Len(h2m') : h2m'[i] = t[i - 1]
      BY <3>1, <3>2, <3>3 DEF t
    <3>5. \A i \in 1..Len(h2m') :
            h2m'[i].ok => i + 0 <= Len(h2m) /\ h2m'[i] = h2m[i + 0]
      <4> SUFFICES ASSUME NEW i \in 1..Len(h2m'), h2m'[i].ok
                   PROVE  i + 0 <= Len(h2m) /\ h2m'[i] = h2m[i + 0]
        OBVIOUS
      <4>1. i \in 2..Len(h2m')
        BY <3>2, <3>4
      <4>2. i - 1 \in 1..Len(t) /\ h2m'[i] = t[i - 1]
        BY <3>1, <3>4, <4>1 DEF t
      <4>3. t[i - 1] = h2m[(i - 1) + 1] /\ (i - 1) + 1 = i + 0
        BY <3>1, <4>2 DEF t
      <4> QED BY <3>1, <3>4, <4>2, <4>3 DEF t
    <3> QED BY <2>1, <3>4, <3>5
  <2>4. CASE LoseFrame
    <3>1. \A i \in 1..Len(h2m') : i + 0 <= Len(h2m) /\ h2m'[i] = h2m[i + 0]
      BY <1>5, <2>4 DEF LoseFrame
    <3>2. h2m' \in Seq(Block)
      BY <1>5, <2>4 DEF LoseFrame
    <3> QED BY <2>1, <3>1, <3>2
  <2> QED BY <2>2, <2>3, <2>4 DEF WireNext
<1>7. m2h' \in Seq(Frame) /\ FrameInv'
  <2>1. CASE m2h' = m2h
    BY <1>2, <1>5, <2>1 DEF IInv, FrameInv, Synced, NextId
  <2>2. CASE m2h # <<>> /\ m2h' = Tail(m2h)
    <3>1. /\ Len(m2h) >= 1 /\ m2h' \in Seq(Frame)
          /\ Len(m2h') = Len(m2h) - 1
          /\ \A i \in 1..Len(m2h') : m2h'[i] = m2h[i + 1]
      BY <1>5, <2>2, TailProps
    <3>2. \A i \in 1..Len(m2h') : i + 1 \in 1..Len(m2h)
      BY <1>5, <3>1
    <3>3. FrameInv /\ NextId' = NextId /\ (Synced' <=> Synced)
      BY <1>2 DEF IInv, NextId, Synced
    <3>4. \A i \in 1..Len(m2h') :
            /\ m2h'[i].seq = m2h'[i].done % SeqMod
            /\ base' <= m2h'[i].done /\ m2h'[i].done <= NextId'
            /\ Synced' => receive_seq' <= m2h'[i].done
            /\ ~Synced' => m2h'[i].src = 0
      <4> SUFFICES ASSUME NEW i \in 1..Len(m2h')
                   PROVE  /\ m2h'[i].seq = m2h'[i].done % SeqMod
                          /\ base <= m2h'[i].done /\ m2h'[i].done <= NextId
                          /\ Synced => receive_seq <= m2h'[i].done
                          /\ ~Synced => m2h'[i].src = 0
        BY <1>2, <3>3
      <4>1. i + 1 \in 1..Len(m2h) /\ m2h'[i] = m2h[i + 1]
        BY <3>1, <3>2
      <4>2. FrameInv
        BY <3>3
      <4> QED BY <4>1, <4>2 DEF FrameInv
    <3>5. \A i, j \in 1..Len(m2h') :
            i < j => m2h'[i].done <= m2h'[j].done
      BY <3>1, <3>2, <3>3 DEF FrameInv
    <3> QED BY <3>1, <3>4, <3>5 DEF FrameInv
  <2> QED BY <2>1, <2>2 DEF WireNext, LoseBlock, CorruptBlock, LoseFrame
<1> QED BY <1>1, <1>3, <1>4, <1>6, <1>7 DEF IInv, TypeOK

-----------------------------------------------------------------------------
(* The steps of the micro-controller *)

(* The receive interrupt moves the oldest block of the wire, or a useless
   part of it, to the end of receive_buf. *)
LEMMA ReceiveDataInductive ==
  ASSUME IInv, ReceiveData
  PROVE  IInv'
<1>1. /\ UNCHANGED hostVars /\ faults' = faults /\ m2h' = m2h
      /\ base' = base /\ delivered' = delivered /\ dispatching' = dispatching
      /\ next_sequence' = next_sequence /\ need_valid' = need_valid
      /\ receive_seq' = receive_seq /\ send_seq' = send_seq
      /\ h2m # <<>> /\ h2m' = Tail(h2m)
  BY DEF ReceiveData, canserial_process_data, hostVars
<1>2. /\ receive_buf \in Seq(Block) /\ h2m \in Seq(Block)
      /\ m2h \in Seq(Frame) /\ NextId' = NextId
  BY <1>1, Types DEF IInv, NextId
<1>3. HostTypeOK' /\ SentQueueComplete' /\ PositionsInv'
  BY <1>1, PositionsKept
<1>4. /\ Len(h2m) >= 1 /\ h2m[1] \in Block /\ Head(h2m) = h2m[1]
      /\ h2m' \in Seq(Block) /\ Len(h2m') = Len(h2m) - 1
      /\ \A i \in 1..Len(h2m') : h2m'[i] = h2m[i + 1]
  BY <1>1, <1>2, TailProps
<1>5. /\ receive_buf' \in Seq(Block)
      /\ Len(receive_buf) <= Len(receive_buf')
      /\ Len(receive_buf') <= Len(receive_buf) + 1
      /\ \A i \in 1..Len(receive_buf) : receive_buf'[i] = receive_buf[i]
      /\ Len(receive_buf') = Len(receive_buf) + 1 =>
           LET b == receive_buf'[Len(receive_buf) + 1]
           IN  b = h2m[1] \/ ~b.ok
  <2>1. CASE receive_buf' = receive_buf
    BY <1>2, <2>1
  <2>2. CASE receive_buf' = Append(receive_buf, Head(h2m))
    BY <1>2, <1>4, <2>2, AppendProps
  <2>3. CASE \E part \in 1..Head(h2m).len :
               receive_buf' = Append(receive_buf, Bad(part))
    <3>1. PICK part \in 1..Head(h2m).len :
            receive_buf' = Append(receive_buf, Bad(part))
      BY <2>3
    <3> DEFINE b == Bad(part)
    <3>2. b \in Block /\ ~b.ok
      BY <1>4, SeqAssumption DEF Bad, Block
    <3>3. receive_buf' = Append(receive_buf, b)
      BY <3>1
    <3> HIDE DEF b
    <3> QED BY <1>2, <3>2, <3>3, AppendProps
  <2> QED BY <2>1, <2>2, <2>3 DEF ReceiveData, canserial_process_data
<1>6. /\ \A i \in 1..Len(receive_buf) :
           BlockOK(receive_buf[i], send_seq, NextId)
      /\ \A i \in 1..Len(h2m) : BlockOK(h2m[i], send_seq, NextId)
      /\ \A i, j \in 1..Len(receive_buf) :
           i < j => Near(receive_buf[i], receive_buf[j])
      /\ \A i, j \in 1..Len(h2m) : i < j => Near(h2m[i], h2m[j])
      /\ \A i \in 1..Len(receive_buf), j \in 1..Len(h2m) :
           Near(receive_buf[i], h2m[j])
  BY DEF IInv, PipeInv, OrderInv
<1>7. PipeInv'
  <2>1. \A i \in 1..Len(receive_buf') :
          BlockOK(receive_buf'[i], send_seq', NextId')
    <3> SUFFICES ASSUME NEW i \in 1..Len(receive_buf'), receive_buf'[i].ok
                 PROVE  BlockOK(receive_buf'[i], send_seq', NextId')
      BY DEF BlockOK
    <3>1. CASE i \in 1..Len(receive_buf)
      BY <1>1, <1>2, <1>5, <1>6, <3>1
    <3>2. CASE i = Len(receive_buf) + 1
      BY <1>1, <1>2, <1>4, <1>5, <1>6, <3>2
    <3> QED BY <1>2, <1>5, <3>1, <3>2
  <2>2. \A i \in 1..Len(h2m') : i + 1 \in 1..Len(h2m)
    BY <1>2, <1>4
  <2>3. \A i \in 1..Len(h2m') : BlockOK(h2m'[i], send_seq', NextId')
    BY <1>1, <1>2, <1>4, <1>6, <2>2
  <2> QED BY <2>1, <2>3 DEF PipeInv
<1>8. OrderInv'
  <2>1. \A i, j \in 1..Len(receive_buf') :
          i < j => Near(receive_buf'[i], receive_buf'[j])
    <3> SUFFICES ASSUME NEW i \in 1..Len(receive_buf'),
                        NEW j \in 1..Len(receive_buf'),
                        i < j, receive_buf'[j].ok
                 PROVE  Near(receive_buf'[i], receive_buf'[j])
      BY DEF Near
    <3>1. i \in 1..Len(receive_buf)
      BY <1>2, <1>5
    <3>2. CASE j \in 1..Len(receive_buf)
      BY <1>5, <1>6, <3>1, <3>2
    <3>3. CASE j = Len(receive_buf) + 1
      BY <1>2, <1>4, <1>5, <1>6, <3>1, <3>3
    <3> QED BY <1>2, <1>5, <3>2, <3>3
  <2>2. \A i, j \in 1..Len(h2m') : i < j => Near(h2m'[i], h2m'[j])
    <3> SUFFICES ASSUME NEW i \in 1..Len(h2m'), NEW j \in 1..Len(h2m'),
                        i < j
                 PROVE  Near(h2m'[i], h2m'[j])
      OBVIOUS
    <3>1. i + 1 \in 1..Len(h2m) /\ j + 1 \in 1..Len(h2m) /\ i + 1 < j + 1
      BY <1>2, <1>4
    <3> QED BY <1>4, <1>6, <3>1
  <2>3. \A i \in 1..Len(receive_buf'), j \in 1..Len(h2m') :
          Near(receive_buf'[i], h2m'[j])
    <3> SUFFICES ASSUME NEW i \in 1..Len(receive_buf'),
                        NEW j \in 1..Len(h2m'), receive_buf'[i].ok
                 PROVE  Near(receive_buf'[i], h2m'[j])
      BY DEF Near
    <3>1. 1 \in 1..Len(h2m) /\ j + 1 \in 1..Len(h2m) /\ 1 < j + 1
      BY <1>2, <1>4
    <3>2. CASE i \in 1..Len(receive_buf)
      BY <1>4, <1>5, <1>6, <3>1, <3>2
    <3>3. CASE i = Len(receive_buf) + 1
      BY <1>4, <1>5, <1>6, <3>1, <3>3
    <3> QED BY <1>2, <1>5, <3>2, <3>3
  <2> QED BY <2>1, <2>2, <2>3 DEF OrderInv
<1>9. CounterInv'
  <2>1. receive_buf # <<>> => receive_buf' # <<>>
    BY <1>2, <1>5
  <2> QED BY <1>1, <1>2, <2>1 DEF IInv, CounterInv
<1>10. FrameInv'
  BY <1>1, <1>2 DEF IInv, FrameInv, Synced
<1>11. TypeOK'
  BY <1>1, <1>2, <1>3, <1>4, <1>5 DEF IInv, TypeOK, McuTypeOK
<1> QED BY <1>3, <1>7, <1>8, <1>9, <1>10, <1>11 DEF IInv

(* The console task removes blocks from receive_buf without dispatching
   them (any more), and may report its position. *)
LEMMA ConsumeInductive ==
  ASSUME IInv, FindGarbage \/ FindUnexpected \/ SendAck
  PROVE  IInv'
<1>1. /\ UNCHANGED hostVars /\ faults' = faults /\ h2m' = h2m
      /\ base' = base /\ delivered' = delivered
      /\ next_sequence' = next_sequence
      /\ receive_seq' = receive_seq /\ send_seq' = send_seq
      /\ dispatching' = 0 /\ need_valid' \in BOOLEAN
      /\ receive_buf # <<>>
  BY DEF FindGarbage, find_garbage, FindUnexpected, find_unexpected, SendAck,
         command_send_ack, hostVars, IInv, CounterInv, TypeOK, McuTypeOK
<1>2. /\ receive_buf \in Seq(Block) /\ h2m \in Seq(Block)
      /\ m2h \in Seq(Frame) /\ NextId' = NextId /\ send_seq \in Nat
  BY <1>1, Types DEF IInv, NextId
<1>3. HostTypeOK' /\ SentQueueComplete' /\ PositionsInv'
  BY <1>1, PositionsKept
<1>4. PICK k \in 1..Len(receive_buf) :
        /\ receive_buf' \in Seq(Block)
        /\ Len(receive_buf') = Len(receive_buf) - k
        /\ \A i \in 1..Len(receive_buf') : receive_buf'[i] = receive_buf[i + k]
  <2>1. CASE FindGarbage
    <3>1. PICK k \in 1..2 :
            /\ k <= Len(receive_buf)
            /\ receive_buf' = SubSeq(receive_buf, k + 1, Len(receive_buf))
      BY <2>1 DEF FindGarbage, find_garbage
    <3>2. k \in 0..Len(receive_buf) /\ k \in 1..Len(receive_buf)
      BY <1>2, <3>1
    <3>3. /\ receive_buf' \in Seq(Block)
          /\ Len(receive_buf') = Len(receive_buf) - k
          /\ \A i \in 1..(Len(receive_buf) - k) :
               receive_buf'[i] = receive_buf[i + k]
      <4>1. receive_buf \in Seq(Block) /\ k \in 0..Len(receive_buf)
        BY <1>2, <3>2
      <4> QED BY <4>1, <3>1, RestProps
    <3>4. \A i \in 1..Len(receive_buf') : receive_buf'[i] = receive_buf[i + k]
      BY <3>3
    <3> QED BY <3>2, <3>3, <3>4
  <2>2. CASE FindUnexpected \/ SendAck
    <3>1. receive_buf' = Tail(receive_buf)
      BY <2>2 DEF FindUnexpected, find_unexpected, SendAck, command_send_ack
    <3>2. 1 \in 1..Len(receive_buf)
      BY <1>1, <1>2
    <3> QED BY <1>1, <1>2, <3>1, <3>2, TailProps
  <2> QED BY <2>1, <2>2
<1>5. PipeInv' /\ OrderInv'
  <2>1. /\ k \in Nat /\ 0 \in Nat
        /\ \A i \in 1..Len(receive_buf') :
             /\ i + k <= Len(receive_buf)
             /\ receive_buf'[i] = receive_buf[i + k]
    BY <1>2, <1>4
  <2>2. \A i \in 1..Len(h2m') :
          h2m'[i].ok => i + 0 <= Len(h2m) /\ h2m'[i] = h2m[i + 0]
    BY <1>1, <1>2
  <2>3. /\ receive_buf' \in Seq(Block) /\ h2m' \in Seq(Block)
        /\ send_seq' \in Nat /\ send_seq <= send_seq'
    BY <1>1, <1>2, <1>4
  <2> QED BY <1>1, <2>1, <2>2, <2>3, PipeShift
<1>6. m2h' \in Seq(Frame) /\ FrameInv'
  <2>1. CASE m2h' = m2h
    BY <1>1, <1>2, <2>1 DEF IInv, FrameInv, Synced
  <2>2. CASE console_sendf(TRUE, next_sequence, NextId)
    BY <1>1, <2>2, SendfFrameInv
  <2> QED BY <2>1, <2>2 DEF FindGarbage, find_garbage, FindUnexpected,
             find_unexpected, SendAck, command_send_ack
<1>7. CounterInv'
  BY <1>1, <1>2 DEF IInv, CounterInv
<1>8. TypeOK'
  BY <1>1, <1>2, <1>3, <1>4, <1>6 DEF IInv, TypeOK, McuTypeOK
<1> QED BY <1>3, <1>5, <1>6, <1>7, <1>8 DEF IInv

(* Responses, and the shutdown that leaves a block in receive_buf. *)
LEMMA RespondInductive ==
  ASSUME IInv, Respond \/ DispatchShutdown
  PROVE  IInv'
<1>1. /\ UNCHANGED hostVars /\ faults' = faults /\ h2m' = h2m
      /\ base' = base /\ delivered' = delivered
      /\ next_sequence' = next_sequence /\ need_valid' = need_valid
      /\ receive_seq' = receive_seq /\ send_seq' = send_seq
      /\ receive_buf' = receive_buf /\ dispatching' \in {0, dispatching}
  BY DEF Respond, sendf, DispatchShutdown, dispatch_shutdown, hostVars,
         mcuVars, wireVars
<1>2. /\ receive_buf \in Seq(Block) /\ h2m \in Seq(Block)
      /\ m2h \in Seq(Frame) /\ NextId' = NextId
  BY <1>1, Types DEF IInv, NextId
<1>3. HostTypeOK' /\ SentQueueComplete' /\ PositionsInv'
  BY <1>1, PositionsKept
<1>4. PipeInv' /\ OrderInv'
  BY <1>1, <1>2 DEF IInv, PipeInv, OrderInv
<1>5. m2h' \in Seq(Frame) /\ FrameInv'
  <2>1. CASE m2h' = m2h
    BY <1>1, <1>2, <2>1 DEF IInv, FrameInv, Synced
  <2>2. CASE console_sendf(FALSE, next_sequence, NextId)
    BY <1>1, <2>2, SendfFrameInv
  <2> QED BY <2>1, <2>2
          DEF Respond, sendf, DispatchShutdown, dispatch_shutdown, wireVars
<1>6. CounterInv'
  BY <1>1, <1>2 DEF IInv, CounterInv
<1>7. TypeOK'
  BY <1>1, <1>2, <1>3, <1>5 DEF IInv, TypeOK, McuTypeOK
<1> QED BY <1>3, <1>4, <1>5, <1>6, <1>7 DEF IInv

(* The block that the sequence number admits is the one that comes next:
   no other block on the way is near enough to have the same number. *)
LEMMA DispatchedIsNext ==
  ASSUME IInv, receive_buf # <<>>, Head(receive_buf).ok,
         Head(receive_buf).seq = next_sequence
  PROVE  /\ Head(receive_buf).id = NextId /\ Synced
         /\ NextId < send_seq
<1> DEFINE b == Head(receive_buf)
<1>1. /\ Len(receive_buf) >= 1 /\ b \in Block /\ b = receive_buf[1]
  BY TailProps, Types DEF IInv
<1>2. BlockOK(b, send_seq, NextId)
  BY <1>1 DEF IInv, PipeInv
<1> HIDE DEF b
<1>3. b.ok /\ b.seq = next_sequence
  BY DEF b
<1>4. /\ b.id \in Nat /\ b.id % SeqMod = NextId % SeqMod
      /\ 1 <= b.id /\ b.id < send_seq /\ NextId < b.id + SeqMod
  BY <1>1, <1>2, <1>3 DEF BlockOK, IInv, CounterInv, Block
<1>5. /\ SeqMod \in Nat \ {0} /\ MaxPending \in Nat /\ MaxPending < SeqMod
      /\ NextId \in Nat /\ send_seq \in Nat /\ receive_seq \in Nat
      /\ base \in 1..SeqMod
  BY Types DEF IInv
<1>6. b.id < NextId + SeqMod
  <2>1. CASE Synced
    <3>1. receive_seq <= NextId
      BY <2>1 DEF IInv, PositionsInv
    <3>2. send_seq - receive_seq <= MaxPending
      BY <1>5 DEF IInv, SentQueueComplete
    <3> QED BY <1>4, <1>5, <3>1, <3>2
  <2>2. CASE ~Synced
    <3>1. send_seq <= 2 /\ NextId = base
      BY <2>2 DEF IInv, PositionsInv
    <3> QED BY <1>4, <1>5, <3>1
  <2> QED BY <2>1, <2>2
<1>7. b.id = NextId
  <2>1. /\ b.id \in Int /\ NextId \in Int
        /\ b.id - NextId < SeqMod /\ NextId - b.id < SeqMod
    BY <1>4, <1>5, <1>6
  <2> QED BY <1>4, <1>5, <2>1, ModUnique
<1>8. Synced
  <2> SUFFICES ASSUME ~Synced PROVE FALSE
    OBVIOUS
  <2>1. send_seq <= 2 /\ NextId = base /\ receive_seq = 1
    BY DEF IInv, PositionsInv
  <2> QED BY <1>4, <1>5, <1>7, <2>1 DEF Synced
<1> QED BY <1>4, <1>7, <1>8 DEF b

\* Finding the expected block and beginning to dispatch it (command_dispatch)
\* keeps IInv: the block is the next one of the command stream.
LEMMA DispatchInductive ==
  ASSUME IInv, Dispatch
  PROVE  IInv'
<1>1. /\ UNCHANGED hostVars /\ faults' = faults /\ h2m' = h2m
      /\ m2h' = m2h /\ base' = base /\ receive_buf' = receive_buf
      /\ receive_seq' = receive_seq /\ send_seq' = send_seq
      /\ receive_buf # <<>> /\ Head(receive_buf).ok
      /\ Head(receive_buf).seq = next_sequence
      /\ next_sequence' = (next_sequence + 1) % SeqMod
      /\ need_valid' \in BOOLEAN
      /\ dispatching' = Head(receive_buf).id
      /\ delivered' = Append(delivered, Head(receive_buf).id)
      /\ identify' = identify /\ notify_queue' = notify_queue
  BY DEF Dispatch, command_dispatch, hostVars, wireVars
<1>2. Head(receive_buf).id = NextId /\ Synced /\ NextId < send_seq
  BY <1>1, DispatchedIsNext
<1>3. /\ receive_buf \in Seq(Block) /\ h2m \in Seq(Block)
      /\ m2h \in Seq(Frame) /\ NextId \in Nat /\ delivered \in Seq(Nat)
      /\ SeqMod \in Nat \ {0} /\ MaxPending \in Nat \ {0}
      /\ MaxPending < SeqMod /\ base \in 1..SeqMod
      /\ next_sequence = NextId % SeqMod
      /\ send_seq \in Nat /\ receive_seq \in Nat
  BY Types DEF IInv, CounterInv
<1>4. /\ delivered' \in Seq(Nat) /\ Len(delivered') = Len(delivered) + 1
      /\ delivered'[Len(delivered) + 1] = NextId
      /\ \A i \in 1..Len(delivered) : delivered'[i] = delivered[i]
  BY <1>1, <1>2, <1>3, AppendProps
<1>5. NextId' = NextId + 1 /\ Synced'
  BY <1>1, <1>2, <1>3, <1>4 DEF NextId, Synced
<1>6. HostTypeOK' /\ SentQueueComplete'
  BY <1>1 DEF IInv, TypeOK, HostTypeOK, SentQueueComplete, hostVars
<1>7. PositionsInv'
  BY <1>1, <1>2, <1>3, <1>5 DEF IInv, PositionsInv
<1>8. CounterInv' /\ next_sequence' \in 0..(SeqMod - 1)
  <2>1. next_sequence' = (NextId + 1) % SeqMod
    <3>1. NextId \in Int /\ SeqMod \in Nat \ {0}
      BY <1>3
    <3>2. ((NextId % SeqMod) + 1) % SeqMod = (NextId + 1) % SeqMod
      BY <3>1, ModPlus, Zenon
    <3> QED BY <1>1, <1>3, <3>2, Zenon
  <2>2. (NextId + 1) % SeqMod \in 0..(SeqMod - 1)
    BY <1>3, ModFact
  <2>3. \A i \in 1..Len(delivered') : delivered'[i] = base' + i - 1
    <3> SUFFICES ASSUME NEW i \in 1..Len(delivered')
                 PROVE  delivered'[i] = base + i - 1
      BY <1>1
    <3>1. CASE i \in 1..Len(delivered)
      BY <1>4, <3>1 DEF IInv, CounterInv
    <3>2. CASE i = Len(delivered) + 1
      BY <1>3, <1>4, <3>2 DEF NextId
    <3> QED BY <1>3, <1>4, <3>1, <3>2
  <2> QED BY <1>1, <1>5, <2>1, <2>2, <2>3 DEF CounterInv
<1>9. PipeInv'
  <2> DEFINE h == receive_buf[1]
  <2>1. /\ 1 \in 1..Len(receive_buf) /\ h = Head(receive_buf)
        /\ h \in Block /\ h.ok /\ h.id = NextId
    BY <1>1, <1>2, <1>3, TailProps
  <2>2. /\ \A i \in 1..Len(receive_buf) :
             BlockOK(receive_buf[i], send_seq, NextId)
        /\ \A i \in 1..Len(h2m) : BlockOK(h2m[i], send_seq, NextId)
        /\ \A j \in 1..Len(receive_buf) : 1 < j => Near(h, receive_buf[j])
        /\ \A j \in 1..Len(h2m) : Near(h, h2m[j])
    BY <2>1 DEF IInv, PipeInv, OrderInv
  <2> HIDE DEF h
  <2>3. \A b \in Block : BlockOK(b, send_seq, NextId) /\ Near(h, b)
                           => BlockOK(b, send_seq, NextId + 1)
    <3> SUFFICES ASSUME NEW b \in Block, b.ok,
                        BlockOK(b, send_seq, NextId), Near(h, b)
                 PROVE  BlockOK(b, send_seq, NextId + 1)
      BY DEF BlockOK
    <3>1. b.id \in Nat
      BY DEF Block
    <3>2. NextId < b.id + MaxPending
      BY <2>1 DEF Near
    <3>3. NextId + 1 < b.id + SeqMod
      BY <1>3, <3>1, <3>2
    <3> QED BY <3>3 DEF BlockOK
  <2>4. BlockOK(h, send_seq, NextId + 1)
    BY <1>3, <2>1, <2>2 DEF BlockOK, h
  <2>5. \A i \in 1..Len(receive_buf) :
          BlockOK(receive_buf[i], send_seq, NextId + 1)
    <3> SUFFICES ASSUME NEW i \in 1..Len(receive_buf)
                 PROVE  BlockOK(receive_buf[i], send_seq, NextId + 1)
      OBVIOUS
    <3>1. CASE i = 1
      BY <2>4, <3>1 DEF h
    <3>2. CASE 1 < i
      BY <1>3, <2>2, <2>3, <3>2
    <3> QED BY <1>3, <3>1, <3>2
  <2>6. \A i \in 1..Len(h2m) : BlockOK(h2m[i], send_seq, NextId + 1)
    BY <1>3, <2>2, <2>3
  <2> QED BY <1>1, <1>5, <2>5, <2>6 DEF PipeInv
<1>10. OrderInv'
  BY <1>1 DEF IInv, OrderInv
<1>11. FrameInv'
  <2>1. \A i \in 1..Len(m2h) : m2h[i] \in Frame
    BY <1>3
  <2>2. \A i \in 1..Len(m2h) : m2h[i].done \in Nat
    BY <2>1 DEF Frame
  <2>3. FrameInv
    BY DEF IInv
  <2> QED BY SMTT(30), <1>1, <1>2, <1>3, <1>5, <2>2, <2>3 DEF FrameInv
<1>12. TypeOK'
  BY <1>1, <1>2, <1>3, <1>4, <1>6, <1>8 DEF IInv, TypeOK, McuTypeOK
<1> QED BY <1>6, <1>7, <1>8, <1>9, <1>10, <1>11, <1>12 DEF IInv

-----------------------------------------------------------------------------
(* The steps of the host *)

(* A new block takes the number that follows everything built so far. *)
LEMMA CommandEventInductive ==
  ASSUME IInv, CommandEvent
  PROVE  IInv'
<1>1. PICK len \in Lens, notify \in Notify : command_event(len, notify)
  BY DEF CommandEvent
<1> DEFINE b == [ok |-> TRUE, sync |-> FALSE, id |-> send_seq,
                 seq |-> send_seq % SeqMod, len |-> len]
<1>2. /\ UNCHANGED mcuVars /\ faults' = faults /\ m2h' = m2h
      /\ receive_seq' = receive_seq /\ identify' = identify
      /\ ignore_nak_seq' = ignore_nak_seq /\ last_ack_seq' = last_ack_seq
      /\ retransmit_seq' = retransmit_seq /\ last_ack_bytes' = last_ack_bytes
      /\ send_seq' = send_seq + 1 /\ sent_queue' = Append(sent_queue, b)
      /\ do_write(<<b>>)
      /\ send_seq - receive_seq < MaxPending
      /\ IdentifyDiscipline(len, notify)
      /\ notify_queue' = IF notify THEN Append(notify_queue, send_seq)
                         ELSE notify_queue
      /\ retransmit_timer' \in {"never", "armed", "now"}
  BY <1>1 DEF CommandEvent, command_event, check_send_command, IInv, TypeOK,
              HostTypeOK
<1>3. /\ receive_buf' = receive_buf /\ base' = base
      /\ delivered' = delivered /\ dispatching' = dispatching
      /\ next_sequence' = next_sequence /\ NextId' = NextId
      /\ (Synced' <=> Synced)
  BY <1>2 DEF mcuVars, NextId, Synced
<1>4. /\ send_seq \in Nat \ {0} /\ receive_seq \in Nat \ {0}
      /\ MaxPending \in Nat /\ SeqMod \in Nat \ {0} /\ NextId \in Nat
      /\ sent_queue \in Seq(Block) /\ m2h \in Seq(Frame)
      /\ notify_queue \in Seq(Nat \ {0})
  BY Types DEF IInv, TypeOK, HostTypeOK
<1>5. b \in Block /\ b.id = send_seq /\ b.seq = send_seq % SeqMod
  <2>1. send_seq % SeqMod \in 0..(SeqMod - 1)
    BY <1>4, ModFact
  <2>2. len \in Nat
    BY SizeAssumption
  <2> QED BY <1>4, <2>1, <2>2 DEF Block
<1> HIDE DEF b
<1>6. /\ Len(sent_queue) = send_seq - receive_seq
      /\ \A i \in 1..Len(sent_queue) :
           /\ sent_queue[i].id = receive_seq + i - 1
           /\ sent_queue[i].seq = (receive_seq + i - 1) % SeqMod
  BY DEF IInv, SentQueueComplete
<1>7. /\ sent_queue' \in Seq(Block) /\ Len(sent_queue') = Len(sent_queue) + 1
      /\ sent_queue'[Len(sent_queue) + 1] = b
      /\ \A i \in 1..Len(sent_queue) : sent_queue'[i] = sent_queue[i]
  BY <1>2, <1>4, <1>5, AppendProps
<1>8. SentQueueComplete'
  <2>1. /\ Len(sent_queue') <= MaxPending
        /\ Len(sent_queue') = send_seq' - receive_seq'
    BY <1>2, <1>4, <1>6, <1>7
  <2>2. \A i \in 1..Len(sent_queue') :
          /\ sent_queue'[i].id = receive_seq' + i - 1
          /\ sent_queue'[i].seq = (receive_seq' + i - 1) % SeqMod
    <3> SUFFICES ASSUME NEW i \in 1..Len(sent_queue')
                 PROVE  /\ sent_queue'[i].id = receive_seq + i - 1
                        /\ sent_queue'[i].seq = (receive_seq + i - 1) % SeqMod
      BY <1>2
    <3>1. CASE i \in 1..Len(sent_queue)
      BY <1>6, <1>7, <3>1
    <3>2. CASE i = Len(sent_queue) + 1
      <4>1. receive_seq + i - 1 = send_seq
        BY <1>4, <1>6, <3>2
      <4> QED BY <1>5, <1>7, <3>2, <4>1
    <3> QED BY <1>4, <1>7, <3>1, <3>2
  <2> QED BY <2>1, <2>2 DEF SentQueueComplete
<1>9. h2m' \in Seq(Block) /\ PipeInv' /\ OrderInv'
  <2> DEFINE blocks == <<b>>
  <2>1. /\ blocks \in Seq(Block) /\ Len(blocks) = 1 /\ blocks[1] = b
    BY <1>5
  <2>2. /\ send_seq' \in Nat /\ send_seq <= send_seq'
        /\ send_seq' <= receive_seq + MaxPending
    BY <1>2, <1>4
  <2>3. receive_seq <= send_seq
    <3>1. Len(sent_queue) \in Nat
      BY <1>4
    <3> QED BY <1>4, <1>6, <3>1
  <2> HIDE DEF blocks
  <2>4. \A i \in 1..Len(blocks) :
          /\ blocks[i].seq = blocks[i].id % SeqMod
          /\ receive_seq <= blocks[i].id /\ blocks[i].id < send_seq'
    <3>1. \A i \in 1..Len(blocks) : blocks[i] = b
      BY <2>1
    <3> QED BY SMTT(30), <1>2, <1>4, <1>5, <2>3, <3>1
  <2>5. \A i, j \in 1..Len(blocks) : i < j => blocks[i].id < blocks[j].id
    BY <2>1
  <2>6. do_write(blocks)
    BY <1>2 DEF blocks
  <2> QED BY <1>3, <2>1, <2>2, <2>4, <2>5, <2>6, WriteInv
<1>10. PositionsInv'
  <2>1. CASE Synced
    BY <1>2, <1>3, <1>4, <2>1 DEF IInv, PositionsInv
  <2>2. CASE ~Synced
    <3>1. /\ receive_seq = 1 /\ NextId = base /\ dispatching = 0
          /\ identify = "asked" /\ send_seq <= 2
          /\ send_seq = 2 => notify_queue # <<>>
      BY <2>2 DEF IInv, PositionsInv
    <3>2. notify_queue = <<>> /\ notify
      BY <1>2, <3>1 DEF IdentifyDiscipline
    <3>3. send_seq = 1
      BY <1>4, <3>1, <3>2
    <3>4. notify_queue' # <<>>
      BY <1>2, <1>4, <3>2
    <3> QED BY <1>2, <1>3, <1>4, <2>2, <3>1, <3>3, <3>4 DEF PositionsInv
  <2> QED BY <2>1, <2>2
<1>11. CounterInv' /\ FrameInv'
  BY <1>2, <1>3 DEF IInv, CounterInv, FrameInv
<1>12. TypeOK'
  <2>1. last_write_fail_time' \in BOOLEAN /\ must_exit' \in BOOLEAN
    <3>1. <<b>> \in Seq(Block) /\ h2m \in Seq(Block)
      BY <1>5, Types DEF IInv
    <3>2. last_write_fail_time \in BOOLEAN /\ must_exit \in BOOLEAN
      BY DEF IInv, TypeOK, HostTypeOK
    <3> QED BY <1>2, <3>1, <3>2, DoWriteProps
  <2>2. notify_queue' \in Seq(Nat \ {0})
    <3> DEFINE I == Nat \ {0}
    <3>1. notify_queue \in Seq(I) /\ send_seq \in I
      BY <1>4
    <3> HIDE DEF I
    <3>2. Append(notify_queue, send_seq) \in Seq(I)
      BY <3>1
    <3>3. \/ notify_queue' = Append(notify_queue, send_seq)
          \/ notify_queue' = notify_queue
      BY <1>2
    <3>4. notify_queue' \in Seq(I)
      BY <3>1, <3>2, <3>3
    <3> QED BY <3>4 DEF I
  <2>3. send_seq' \in Nat \ {0}
    BY <1>2, <1>4
  <2>4. HostTypeOK'
    BY <1>2, <1>7, <2>1, <2>2, <2>3 DEF IInv, TypeOK, HostTypeOK
  <2>5. McuTypeOK'
    BY <1>2 DEF IInv, TypeOK, McuTypeOK, mcuVars
  <2> QED BY <1>2, <1>4, <1>9, <2>4, <2>5 DEF IInv, TypeOK
<1> QED BY <1>8, <1>9, <1>10, <1>11, <1>12 DEF IInv

(* A retransmission repeats the sent_queue, which stays as it is. *)
LEMMA RetransmitInductive ==
  ASSUME IInv, RetransmitEvent
  PROVE  IInv'
<1>1. /\ UNCHANGED mcuVars /\ faults' = faults /\ m2h' = m2h
      /\ receive_seq' = receive_seq /\ send_seq' = send_seq
      /\ sent_queue' = sent_queue /\ notify_queue' = notify_queue
      /\ identify' = identify
      /\ last_ack_seq' = last_ack_seq /\ last_ack_bytes' = last_ack_bytes
      /\ retransmit_seq' = send_seq /\ retransmit_timer' = "armed"
      /\ ignore_nak_seq' \in {send_seq, retransmit_seq, receive_seq}
      /\ do_write(resend)
  BY DEF RetransmitEvent, retransmit_event
<1>2. /\ receive_buf' = receive_buf /\ base' = base
      /\ delivered' = delivered /\ dispatching' = dispatching
      /\ next_sequence' = next_sequence /\ NextId' = NextId
      /\ (Synced' <=> Synced)
  BY <1>1 DEF mcuVars, NextId, Synced
<1>3. /\ send_seq \in Nat /\ receive_seq \in Nat /\ MaxPending \in Nat
      /\ sent_queue \in Seq(Block) /\ m2h \in Seq(Frame)
      /\ h2m \in Seq(Block)
  BY Types DEF IInv
<1>4. /\ Len(sent_queue) <= MaxPending
      /\ Len(sent_queue) = send_seq - receive_seq
      /\ \A i \in 1..Len(sent_queue) :
           /\ sent_queue[i].id = receive_seq + i - 1
           /\ sent_queue[i].seq = (receive_seq + i - 1) % SeqMod
  BY DEF IInv, SentQueueComplete
<1>5. /\ resend \in Seq(Block) /\ Len(resend) = Len(sent_queue)
      /\ \A i \in 1..Len(resend) : /\ resend[i].id = sent_queue[i].id
                                    /\ resend[i].seq = sent_queue[i].seq
  <2>1. \A i \in 1..Len(sent_queue) : sent_queue[i] \in Block
    BY <1>3
  <2>2. \A i \in 1..Len(sent_queue) :
          LET c == [sent_queue[i] EXCEPT !.sync = (i = 1)]
          IN  c \in Block /\ c.id = sent_queue[i].id
              /\ c.seq = sent_queue[i].seq
    BY <2>1 DEF Block
  <2> QED BY <1>3, <2>2 DEF resend
<1>6. h2m' \in Seq(Block) /\ PipeInv' /\ OrderInv'
  <2>1. /\ send_seq' \in Nat /\ send_seq <= send_seq'
        /\ send_seq' <= receive_seq + MaxPending
    BY <1>1, <1>3, <1>4
  <2>2. \A i \in 1..Len(resend) :
          /\ resend[i].seq = resend[i].id % SeqMod
          /\ receive_seq <= resend[i].id /\ resend[i].id < send_seq'
    <3> SUFFICES ASSUME NEW i \in 1..Len(sent_queue)
                 PROVE  /\ sent_queue[i].seq = sent_queue[i].id % SeqMod
                        /\ receive_seq <= sent_queue[i].id
                        /\ sent_queue[i].id < send_seq
      BY <1>1, <1>5
    <3>1. i \in Int /\ 1 <= i /\ i <= send_seq - receive_seq
      BY <1>3, <1>4
    <3> QED BY <1>3, <1>4, <3>1
  <2>3. \A i, j \in 1..Len(resend) : i < j => resend[i].id < resend[j].id
    <3>1. \A i, j \in 1..Len(sent_queue) :
            i < j => sent_queue[i].id < sent_queue[j].id
      BY <1>3, <1>4
    <3> QED BY <1>5, <3>1
  <2> QED BY <1>1, <1>2, <1>5, <2>1, <2>2, <2>3, WriteInv
<1>7. SentQueueComplete' /\ PositionsInv' /\ CounterInv' /\ FrameInv'
  BY <1>1, <1>2
     DEF IInv, SentQueueComplete, PositionsInv, CounterInv, FrameInv
<1>8. TypeOK'
  <2>1. last_write_fail_time' \in BOOLEAN /\ must_exit' \in BOOLEAN
    <3>1. last_write_fail_time \in BOOLEAN /\ must_exit \in BOOLEAN
      BY DEF IInv, TypeOK, HostTypeOK
    <3> QED BY <1>1, <1>3, <1>5, <3>1, DoWriteProps
  <2>2. HostTypeOK'
    BY <1>1, <2>1 DEF IInv, TypeOK, HostTypeOK
  <2>3. McuTypeOK'
    BY <1>1 DEF IInv, TypeOK, McuTypeOK, mcuVars
  <2> QED BY <1>1, <1>3, <1>6, <2>2, <2>3 DEF IInv, TypeOK
<1> QED BY <1>6, <1>7, <1>8 DEF IInv

\* Ending the identification, after which several blocks may be under way,
\* keeps IInv.
LEMMA StartSessionInductive ==
  ASSUME IInv, StartSession
  PROVE  IInv'
<1>1. /\ UNCHANGED <<mcuVars, faults, wireVars, send_seq, receive_seq,
                     sent_queue, ignore_nak_seq, last_ack_seq,
                     retransmit_seq, last_ack_bytes, retransmit_timer,
                     notify_queue, last_write_fail_time, must_exit>>
      /\ identify = "answered" /\ identify' = "done"
  BY DEF StartSession, start_session
<1>2. TypeOK'
  BY <1>1 DEF IInv, TypeOK, HostTypeOK, McuTypeOK, mcuVars, wireVars
<1>3. /\ NextId' = NextId /\ (Synced' <=> Synced) /\ base' = base
      /\ h2m' = h2m /\ m2h' = m2h /\ receive_buf' = receive_buf
      /\ delivered' = delivered /\ next_sequence' = next_sequence
      /\ dispatching' = dispatching
  BY <1>1 DEF NextId, Synced, mcuVars, wireVars
<1>4. Synced
  BY <1>1 DEF IInv, PositionsInv
<1> QED BY <1>1, <1>2, <1>3, <1>4 DEF IInv, SentQueueComplete, PositionsInv,
           CounterInv, PipeInv, OrderInv, FrameInv

(* The host recovers the position that a frame reports from its residue. *)
LEMMA RseqIsDone ==
  ASSUME IInv, m2h # <<>>
  PROVE  /\ Rseq(Head(m2h)) = Head(m2h).done
         /\ Head(m2h).done \in Nat
         /\ base <= Head(m2h).done /\ Head(m2h).done <= NextId
         /\ receive_seq <= Head(m2h).done
         /\ Synced => Head(m2h).done <= send_seq
         /\ ~Synced => Head(m2h).done = base /\ Head(m2h).src = 0
<1> DEFINE f == Head(m2h)
<1>1. /\ Len(m2h) >= 1 /\ f = m2h[1] /\ f \in Frame
  BY TailProps, Types DEF IInv
<1>2. /\ f.seq = f.done % SeqMod
      /\ base <= f.done /\ f.done <= NextId
      /\ Synced => receive_seq <= f.done
      /\ ~Synced => f.src = 0
  BY <1>1 DEF IInv, FrameInv
<1>3. f.done \in Nat
  BY <1>1 DEF Frame
<1>4. /\ SeqMod \in Nat \ {0} /\ MaxPending \in Nat /\ MaxPending < SeqMod
      /\ NextId \in Nat /\ send_seq \in Nat /\ receive_seq \in Nat
      /\ base \in 1..SeqMod
  BY Types DEF IInv
<1> HIDE DEF f
<1>5. /\ receive_seq <= f.done /\ f.done < receive_seq + SeqMod
      /\ Synced => f.done <= send_seq
      /\ ~Synced => f.done = base
  <2>1. CASE Synced
    <3>1. NextId <= send_seq
      BY <2>1 DEF IInv, PositionsInv
    <3>2. send_seq - receive_seq <= MaxPending
      BY <1>4 DEF IInv, SentQueueComplete
    <3> QED BY <1>2, <1>3, <1>4, <2>1, <3>1, <3>2
  <2>2. CASE ~Synced
    <3>1. receive_seq = 1 /\ NextId = base
      BY <2>2 DEF IInv, PositionsInv
    <3> QED BY <1>2, <1>3, <1>4, <2>2, <3>1
  <2> QED BY <2>1, <2>2
<1>6. Rseq(f) = f.done
  <2>1. receive_seq \in Int /\ f.done \in Int
    BY <1>3, <1>4
  <2>2. receive_seq + (((f.done % SeqMod) - receive_seq) % SeqMod) = f.done
    BY <1>4, <1>5, <2>1, ModRecover
  <2> QED BY <1>2, <2>2 DEF Rseq
<1> QED BY <1>2, <1>3, <1>5, <1>6 DEF f

(* An acknowledgement removes exactly the acknowledged blocks; the first
   frame of a session may move the host to another numbering instead. *)
LEMMA UpdateReceiveSeqProps ==
  ASSUME IInv, m2h # <<>>, NEW d, d = Head(m2h).done, d # receive_seq,
         update_receive_seq(d)
  PROVE  /\ receive_seq' = d /\ send_seq' \in Nat /\ send_seq <= send_seq'
         /\ NextId <= send_seq' /\ d <= send_seq'
         /\ sent_queue' \in Seq(Block) /\ last_ack_bytes' \in Nat
         /\ SentQueueComplete'
         /\ send_seq' = send_seq \/ (~Synced /\ send_seq' = base)
<1>1. /\ d \in Nat /\ base <= d /\ d <= NextId /\ receive_seq <= d
      /\ Synced => d <= send_seq
      /\ ~Synced => d = base
  BY RseqIsDone
<1>2. /\ send_seq \in Nat /\ receive_seq \in Nat \ {0} /\ NextId \in Nat
      /\ sent_queue \in Seq(Block) /\ last_ack_bytes \in Nat
      /\ MaxPending \in Nat
  BY Types DEF IInv, TypeOK, HostTypeOK
<1>3. /\ Len(sent_queue) <= MaxPending
      /\ Len(sent_queue) = send_seq - receive_seq
      /\ \A i \in 1..Len(sent_queue) :
           /\ sent_queue[i].id = receive_seq + i - 1
           /\ sent_queue[i].seq = (receive_seq + i - 1) % SeqMod
  BY DEF IInv, SentQueueComplete
<1> DEFINE acked == d - receive_seq
<1>4. acked \in Nat /\ acked >= 1 /\ receive_seq' = d
  BY <1>1, <1>2 DEF update_receive_seq
<1>5. CASE /\ acked <= Len(sent_queue)
           /\ sent_queue' = SubSeq(sent_queue, acked + 1, Len(sent_queue))
           /\ last_ack_bytes' = sent_queue[acked].len
           /\ send_seq' = send_seq
  <2>1. acked \in 0..Len(sent_queue) /\ acked \in 1..Len(sent_queue)
    BY <1>2, <1>4, <1>5
  <2>2. /\ sent_queue' \in Seq(Block)
        /\ Len(sent_queue') = Len(sent_queue) - acked
        /\ \A i \in 1..(Len(sent_queue) - acked) :
             sent_queue'[i] = sent_queue[i + acked]
    <3> HIDE DEF acked
    <3> QED BY <1>2, <1>5, <2>1, RestProps
  <2>3. last_ack_bytes' \in Nat
    <3>1. sent_queue[acked] \in Block
      <4> HIDE DEF acked
      <4> QED BY <1>2, <2>1
    <3> QED BY <1>5, <3>1 DEF Block
  <2>4. \A i \in 1..Len(sent_queue') :
          /\ sent_queue'[i].id = receive_seq' + i - 1
          /\ sent_queue'[i].seq = (receive_seq' + i - 1) % SeqMod
    <3> SUFFICES ASSUME NEW i \in 1..Len(sent_queue')
                 PROVE  /\ sent_queue'[i].id = d + i - 1
                        /\ sent_queue'[i].seq = (d + i - 1) % SeqMod
      BY <1>4
    <3>1. i + acked \in 1..Len(sent_queue)
      BY <1>2, <1>4, <2>1, <2>2
    <3>2. sent_queue'[i] = sent_queue[i + acked]
      BY <1>2, <2>1, <2>2
    <3>3. receive_seq + (i + acked) - 1 = d + i - 1
      BY <1>1, <1>2
    <3>4. /\ sent_queue[i + acked].id = receive_seq + (i + acked) - 1
          /\ sent_queue[i + acked].seq
               = (receive_seq + (i + acked) - 1) % SeqMod
      <4> HIDE DEF acked
      <4> QED BY <1>3, <3>1
    <3> QED BY <3>2, <3>3, <3>4
  <2>5. /\ Len(sent_queue') <= MaxPending
        /\ Len(sent_queue') = send_seq' - receive_seq'
    <3>1. Len(sent_queue') = (send_seq - receive_seq) - (d - receive_seq)
      BY <1>3, <2>2
    <3>2. send_seq' = send_seq /\ receive_seq' = d
      BY <1>4, <1>5
    <3>3. Len(sent_queue) - acked <= Len(sent_queue)
      BY <1>2, <1>4
    <3> HIDE DEF acked
    <3> QED BY SMTT(30), <1>1, <1>2, <1>3, <2>2, <3>1, <3>2, <3>3
  <2>6. SentQueueComplete'
    BY <2>4, <2>5 DEF SentQueueComplete
  <2>7. NextId <= send_seq' /\ d <= send_seq'
    <3>1. d <= send_seq
      <4>1. d - receive_seq <= send_seq - receive_seq
        BY <1>3, <1>5
      <4> QED BY <1>1, <1>2, <4>1
    <3>2. CASE Synced
      BY <1>5, <3>1, <3>2 DEF IInv, PositionsInv
    <3>3. CASE ~Synced
      BY <1>1, <1>5, <3>1, <3>3 DEF IInv, PositionsInv
    <3> QED BY <3>2, <3>3
  <2> QED BY <1>2, <1>4, <1>5, <2>2, <2>3, <2>6, <2>7
<1>6. CASE /\ acked > Len(sent_queue)
           /\ sent_queue' = <<>>
           /\ last_ack_bytes' = last_ack_bytes
           /\ send_seq' = d
  <2>1. d > send_seq
    BY <1>1, <1>2, <1>3, <1>6
  <2>2. ~Synced
    BY <1>1, <1>2, <2>1
  <2>3. NextId = d
    BY <1>1, <2>2 DEF IInv, PositionsInv
  <2>4. SentQueueComplete'
    BY <1>1, <1>2, <1>4, <1>6 DEF SentQueueComplete
  <2> QED BY <1>1, <1>2, <1>4, <1>6, <2>1, <2>3, <2>4
<1> QED BY <1>5, <1>6 DEF update_receive_seq

(* What the host learns from a frame. *)
LEMMA HandleMessageProps ==
  ASSUME IInv, HandleMessage
  PROVE  /\ receive_seq' = Head(m2h).done
         /\ Head(m2h).done \in Nat
         /\ base <= receive_seq' /\ receive_seq' <= NextId
         /\ receive_seq <= receive_seq'
         /\ send_seq' \in Nat /\ send_seq <= send_seq'
         /\ NextId <= send_seq'
         /\ sent_queue' \in Seq(Block) /\ last_ack_bytes' \in Nat
         /\ SentQueueComplete'
         /\ send_seq' = send_seq \/ (~Synced /\ send_seq' = base)
         /\ last_ack_seq' \in {Head(m2h).done, last_ack_seq}
         /\ retransmit_timer' \in {retransmit_timer, "never", "armed", "now"}
         /\ identify' \in {identify, "answered"}
         /\ \E k \in 0..Len(notify_queue) :
              notify_queue' = SubSeq(notify_queue, k + 1, Len(notify_queue))
<1> DEFINE f == Head(m2h)
           d == f.done
<1>1. m2h # <<>>
  BY DEF HandleMessage, handle_message
<1>2. /\ Rseq(f) = d /\ d \in Nat /\ base <= d /\ d <= NextId
      /\ receive_seq <= d
      /\ Synced => d <= send_seq
      /\ ~Synced => d = base /\ f.src = 0
  BY <1>1, RseqIsDone
<1>3. /\ send_seq \in Nat \ {0} /\ receive_seq \in Nat \ {0}
      /\ NextId \in Nat
  BY Types DEF IInv
<1> HIDE DEF d
<1>4. d <= send_seq \/ receive_seq = 1
  BY <1>2 DEF IInv, PositionsInv
<1>5. /\ IF d # receive_seq THEN update_receive_seq(d)
         ELSE UNCHANGED <<receive_seq, send_seq, sent_queue, last_ack_bytes>>
      /\ \E k \in 0..Len(notify_queue) :
           notify_queue' = SubSeq(notify_queue, k + 1, Len(notify_queue))
      /\ last_ack_seq' \in {d, last_ack_seq}
      /\ retransmit_timer' \in {retransmit_timer, "never", "armed", "now"}
      /\ identify' \in {identify, "answered"}
  <2>1. ~(d > send_seq /\ receive_seq # 1)
    BY <1>2, <1>3, <1>4
  <2> QED BY <1>2, <2>1
          DEF HandleMessage, handle_message, RetransmitTimerAfter, f
<1>6. /\ receive_seq' = d /\ send_seq' \in Nat /\ send_seq <= send_seq'
      /\ NextId <= send_seq' /\ d <= send_seq'
      /\ sent_queue' \in Seq(Block) /\ last_ack_bytes' \in Nat
      /\ SentQueueComplete'
      /\ send_seq' = send_seq \/ (~Synced /\ send_seq' = base)
  <2>1. CASE d # receive_seq
    <3>1. update_receive_seq(d)
      BY <1>5, <2>1
    <3> QED BY <1>1, <2>1, <3>1, UpdateReceiveSeqProps DEF d, f
  <2>2. CASE d = receive_seq
    <3>1. UNCHANGED <<receive_seq, send_seq, sent_queue, last_ack_bytes>>
      BY <1>5, <2>2
    <3>2. /\ SentQueueComplete' /\ sent_queue' \in Seq(Block)
          /\ last_ack_bytes' \in Nat
      BY <3>1 DEF IInv, SentQueueComplete, TypeOK, HostTypeOK
    <3>3. Synced
      BY <1>2, <2>2 DEF Synced
    <3>4. NextId <= send_seq
      BY <3>3 DEF IInv, PositionsInv
    <3> QED BY <1>2, <1>3, <2>2, <3>1, <3>2, <3>4
  <2> QED BY <2>1, <2>2
<1> QED BY <1>2, <1>5, <1>6 DEF d, f

\* The host's handle_message keeps IInv, for acknowledgements, naks and
\* responses, in order or left over.
LEMMA HandleMessageInductive ==
  ASSUME IInv, HandleMessage
  PROVE  IInv'
<1>1. /\ UNCHANGED mcuVars /\ faults' = faults /\ m2h # <<>>
      /\ m2h' = Tail(m2h) /\ h2m' = h2m
      /\ ignore_nak_seq' = ignore_nak_seq /\ retransmit_seq' = retransmit_seq
      /\ last_write_fail_time' = last_write_fail_time
      /\ must_exit' = must_exit
  BY DEF HandleMessage, handle_message
<1>2. /\ receive_seq' = Head(m2h).done /\ Head(m2h).done \in Nat
      /\ base <= receive_seq' /\ receive_seq' <= NextId
      /\ receive_seq <= receive_seq'
      /\ send_seq' \in Nat /\ send_seq <= send_seq' /\ NextId <= send_seq'
      /\ sent_queue' \in Seq(Block) /\ last_ack_bytes' \in Nat
      /\ SentQueueComplete'
      /\ last_ack_seq' \in {Head(m2h).done, last_ack_seq}
      /\ retransmit_timer' \in {retransmit_timer, "never", "armed", "now"}
      /\ identify' \in {identify, "answered"}
      /\ \E k \in 0..Len(notify_queue) :
           notify_queue' = SubSeq(notify_queue, k + 1, Len(notify_queue))
  BY HandleMessageProps
<1>3. /\ receive_buf' = receive_buf /\ base' = base
      /\ delivered' = delivered /\ dispatching' = dispatching
      /\ next_sequence' = next_sequence /\ NextId' = NextId
  BY <1>1 DEF mcuVars, NextId
<1>4. /\ send_seq \in Nat \ {0} /\ receive_seq \in Nat \ {0}
      /\ base \in 1..SeqMod /\ SeqMod \in Nat
      /\ receive_buf \in Seq(Block) /\ h2m \in Seq(Block)
  BY Types DEF IInv
<1>5. Synced'
  BY <1>2, <1>3 DEF Synced
<1>6. PositionsInv'
  BY <1>2, <1>3, <1>5 DEF PositionsInv
<1>7. CounterInv'
  BY <1>3 DEF IInv, CounterInv
<1>8. m2h' \in Seq(Frame) /\ FrameInv'
  <2>1. base <= receive_seq' /\ receive_seq' = Head(m2h).done
    BY <1>2
  <2> QED BY <1>1, <1>3, <2>1, TailFrameInv
<1>9. PipeInv' /\ OrderInv'
  <2>1. /\ \A i \in 1..Len(receive_buf') :
             /\ i + 0 <= Len(receive_buf)
             /\ receive_buf'[i] = receive_buf[i + 0]
        /\ \A i \in 1..Len(h2m') :
             h2m'[i].ok => i + 0 <= Len(h2m) /\ h2m'[i] = h2m[i + 0]
    BY <1>1, <1>3, <1>4
  <2>2. receive_buf' \in Seq(Block) /\ h2m' \in Seq(Block)
    BY <1>1, <1>3, <1>4
  <2> QED BY <1>2, <1>3, <2>1, <2>2, PipeShift
<1>10. TypeOK'
  <2>1. notify_queue \in Seq(Nat \ {0}) /\ notify_queue' \in Seq(Nat \ {0})
    <3>1. notify_queue \in Seq(Nat \ {0})
      BY DEF IInv, TypeOK, HostTypeOK
    <3> QED BY <1>2, <3>1, RestProps
  <2>2. /\ last_ack_seq' \in Nat
        /\ retransmit_timer' \in {"never", "armed", "now"}
        /\ identify' \in {"asked", "answered", "done"}
    BY <1>2 DEF IInv, TypeOK, HostTypeOK
  <2>3. send_seq' \in Nat \ {0} /\ receive_seq' \in Nat \ {0}
    BY <1>2, <1>4
  <2>4. HostTypeOK'
    BY <1>1, <1>2, <2>1, <2>2, <2>3 DEF IInv, TypeOK, HostTypeOK
  <2>5. McuTypeOK'
    BY <1>1 DEF IInv, TypeOK, McuTypeOK, mcuVars
  <2> QED BY <1>1, <1>4, <1>8, <2>4, <2>5 DEF IInv, TypeOK
<1> QED BY <1>2, <1>6, <1>7, <1>8, <1>9, <1>10 DEF IInv

-----------------------------------------------------------------------------
(* The invariant *)

\* IInv holds when the host connects.
LEMMA InitIInv == Init => IInv
<1> SUFFICES ASSUME Init PROVE IInv
  OBVIOUS
<1>1. /\ send_seq = 1 /\ receive_seq = 1 /\ sent_queue = <<>>
      /\ notify_queue = <<>> /\ identify = "asked"
      /\ h2m = <<>> /\ m2h = <<>> /\ receive_buf = <<>> /\ delivered = <<>>
      /\ dispatching = 0 /\ faults = 0
      /\ base \in 1..SeqMod /\ next_sequence = base % SeqMod
  BY DEF Init, HostInit, McuInit
<1>2. SeqMod \in Nat \ {0} /\ base \in Nat /\ MaxPending \in Nat
  BY <1>1, SeqAssumption
<1>3. TypeOK
  <2>1. base % SeqMod \in 0..(SeqMod - 1)
    BY <1>2, ModFact
  <2>2. HostTypeOK
    <3>1. last_write_fail_time \in BOOLEAN /\ must_exit \in BOOLEAN
      BY Zenon DEF Init, HostInit
    <3>2. /\ ignore_nak_seq = 0 /\ last_ack_seq = 0 /\ retransmit_seq = 0
          /\ last_ack_bytes = 0 /\ retransmit_timer = "never"
      BY DEF Init, HostInit
    <3> QED BY <1>1, <3>1, <3>2 DEF HostTypeOK
  <2>3. McuTypeOK
    BY <1>1, <2>1 DEF Init, McuInit, McuTypeOK
  <2>4. faults \in 0..MaxFaults
    BY <1>1, MaxFaultsAssumption
  <2> QED BY <1>1, <2>2, <2>3, <2>4 DEF TypeOK
<1>4. NextId = base
  BY <1>1, <1>2 DEF NextId
<1>5. SentQueueComplete /\ PositionsInv /\ CounterInv
  BY <1>1, <1>2, <1>4
     DEF SentQueueComplete, PositionsInv, CounterInv, Synced
<1>6. PipeInv /\ OrderInv /\ FrameInv
  BY <1>1 DEF PipeInv, OrderInv, FrameInv
<1> QED BY <1>3, <1>5, <1>6 DEF IInv

\* IInv depends on vars only.
LEMMA StutterIInv ==
  ASSUME IInv, UNCHANGED vars
  PROVE  IInv'
<1>1. /\ UNCHANGED hostVars /\ UNCHANGED mcuVars /\ UNCHANGED wireVars
      /\ faults' = faults
  BY DEF vars
<1> QED BY <1>1 DEF IInv, TypeOK, HostTypeOK, McuTypeOK, SentQueueComplete,
           PositionsInv, Synced, CounterInv, PipeInv, OrderInv, FrameInv,
           NextId, hostVars, mcuVars, wireVars

\* Every step of the link keeps IInv.
LEMMA NextIInv ==
  ASSUME IInv, [Next]_vars
  PROVE  IInv'
<1>1. CASE HostNext
  BY <1>1, CommandEventInductive, RetransmitInductive,
     HandleMessageInductive, StartSessionInductive DEF HostNext
<1>2. CASE McuNext
  BY <1>2, ReceiveDataInductive, ConsumeInductive, RespondInductive,
     DispatchInductive DEF McuNext
<1>3. CASE WireNext
  BY <1>3, WireInductive
<1>4. CASE UNCHANGED vars
  BY <1>4, StutterIInv
<1> QED BY <1>1, <1>2, <1>3, <1>4 DEF Next

(* The inductive invariant: at every moment the blocks on their way are near
   enough the position of the micro-controller, and the frames on their way
   near enough that of the host, to be told apart modulo SeqMod. *)
THEOREM InductiveInvariant == Spec => []IInv
<1>1. Init => IInv
  BY InitIInv
<1>2. IInv /\ [Next]_vars => IInv'
  BY NextIInv
<1> QED BY <1>1, <1>2, PTL DEF Spec

(* Every variable of host, wire and micro-controller keeps its type. *)
THEOREM TypeCorrect == Spec => []TypeOK
<1>1. IInv => TypeOK
  BY DEF IInv
<1> QED BY <1>1, InductiveInvariant, PTL

(* command_find_block and command_dispatch execute every block exactly once
   and in order, whatever is lost, damaged or sent again. *)
THEOREM ExactlyOnce == Spec => []ExactlyOnceInOrder
<1>1. IInv => ExactlyOnceInOrder
  BY DEF IInv, CounterInv, ExactlyOnceInOrder
<1> QED BY <1>1, InductiveInvariant, PTL

(* update_receive_seq forgets only blocks that were dispatched. *)
THEOREM AcknowledgementsSound == Spec => []AckSound
<1>1. IInv => AckSound
  BY DEF IInv, PositionsInv, AckSound, Established
<1> QED BY <1>1, InductiveInvariant, PTL

(* The sent_queue is the contiguous range of unacknowledged blocks and fits
   the buffer of retransmit_event. *)
THEOREM RetransmitComplete == Spec => []SentQueueComplete
<1>1. IInv => SentQueueComplete
  BY DEF IInv
<1> QED BY <1>1, InductiveInvariant, PTL

-----------------------------------------------------------------------------
(* The retransmit timer *)

\* A step from a state that satisfies IInv keeps the retransmit timer armed
\* exactly while blocks are unacknowledged.
LEMMA NextTimerArmed ==
  ASSUME IInv, TimerArmed, [Next]_vars
  PROVE  TimerArmed'
<1> USE DEF TimerArmed
<1>1. sent_queue \in Seq(Block)
  BY Types DEF IInv
<1>2. CASE UNCHANGED <<sent_queue, retransmit_timer>>
  BY <1>2
<1>3. CASE CommandEvent
  <2>1. \E b : sent_queue' = Append(sent_queue, b)
    BY <1>3 DEF CommandEvent, command_event
  <2>2. sent_queue' # <<>>
    BY <1>1, <2>1
  <2>3. retransmit_timer' # "never"
    BY <1>3 DEF CommandEvent, command_event
  <2> QED BY <2>2, <2>3
<1>4. CASE RetransmitEvent
  BY <1>4 DEF RetransmitEvent, retransmit_event
<1>5. CASE HandleMessage
  <2> DEFINE d == Rseq(Head(m2h))
  <2>1. CASE UNCHANGED <<sent_queue, retransmit_timer>>
    BY <2>1
  <2>2. CASE /\ d = receive_seq => sent_queue' = sent_queue
             /\ retransmit_timer' = RetransmitTimerAfter(d, Head(m2h))
    <3> HIDE DEF d
    <3> QED BY <2>2 DEF RetransmitTimerAfter
  <2> QED BY <1>5, <2>1, <2>2 DEF HandleMessage, handle_message
<1>6. CASE StartSession
  BY <1>6 DEF StartSession, start_session
<1>7. CASE McuNext
  BY <1>2, <1>7 DEF McuNext, ReceiveData, FindGarbage, FindUnexpected,
     Dispatch, Respond, SendAck, DispatchShutdown, hostVars
<1>8. CASE WireNext
  BY <1>2, <1>8
     DEF WireNext, LoseBlock, CorruptBlock, LoseFrame, Fault, hostVars
<1>9. CASE UNCHANGED vars
  BY <1>2, <1>9 DEF vars, hostVars
<1> QED BY <1>3, <1>4, <1>5, <1>6, <1>7, <1>8, <1>9 DEF Next, HostNext

(* Something is unacknowledged if and only if the retransmit timer will
   fire: no loss goes unnoticed, no retransmission is empty. *)
THEOREM RetransmitTimerArmed == Spec => []TimerArmed
<1>1. Init => TimerArmed
  BY DEF Init, HostInit, TimerArmed
<1>2. IInv /\ TimerArmed /\ [Next]_vars => TimerArmed'
  BY NextTimerArmed
<1> QED BY <1>1, <1>2, InductiveInvariant, PTL DEF Spec

-----------------------------------------------------------------------------
(* The link implements CommandStream *)

\* The initial state is one of the command stream.
LEMMA InitRefines == Init => Stream!StreamInit
<1> SUFFICES ASSUME Init PROVE Stream!StreamInit
  OBVIOUS
<1>1. send_seq = 1 /\ receive_seq = 1 /\ delivered = <<>> /\ base \in 1..SeqMod
  BY DEF Init, HostInit, McuInit
<1>2. base \in Nat \ {0}
  BY <1>1, SeqAssumption
<1> QED BY <1>1, <1>2 DEF Stream!StreamInit

\* Every step of the link is a step of the command stream or leaves it alone.
LEMMA NextRefines ==
  ASSUME IInv, [Next]_vars
  PROVE  [Stream!StreamNext]_(Stream!streamVars)
<1> DEFINE built == IF send_seq < base THEN base ELSE send_seq
           acked == IF receive_seq < base THEN base ELSE receive_seq
<1>1. /\ send_seq \in Nat /\ receive_seq \in Nat /\ base \in Nat
      /\ NextId \in Nat
  BY Types, SeqAssumption DEF IInv
<1>2. CASE UNCHANGED <<send_seq, receive_seq, base, delivered>>
  BY <1>2 DEF Stream!streamVars
<1>3. CASE CommandEvent
  <2>1. /\ send_seq' = send_seq + 1 /\ receive_seq' = receive_seq
        /\ base' = base /\ delivered' = delivered
    BY <1>3 DEF CommandEvent, command_event, mcuVars
  <2>2. CASE send_seq < base
    BY <1>1, <2>1, <2>2 DEF Stream!streamVars
  <2>3. CASE send_seq >= base
    <3>1. built' = built + 1 /\ UNCHANGED <<base, acked, delivered>>
      BY <1>1, <2>1, <2>3
    <3> QED BY <3>1 DEF Stream!StreamNext, Stream!BuildBlock
  <2> QED BY <1>1, <2>2, <2>3
<1>4. CASE HandleMessage
  <2>1. /\ base' = base /\ delivered' = delivered
        /\ receive_seq' \in Nat
        /\ base <= receive_seq' /\ receive_seq' <= NextId
        /\ receive_seq <= receive_seq'
        /\ send_seq' = send_seq \/ (~Synced /\ send_seq' = base)
        /\ NextId <= send_seq'
    BY <1>4, HandleMessageProps DEF HandleMessage, mcuVars
  <2>2. CASE Synced
    <3>1. built' = built /\ acked = receive_seq /\ acked' = receive_seq'
      <4>1. base <= receive_seq /\ send_seq' = send_seq
        BY <2>1, <2>2 DEF Synced
      <4> QED BY <1>1, <2>1, <4>1
    <3>2. CASE receive_seq' = receive_seq
      BY <2>1, <3>1, <3>2 DEF Stream!streamVars
    <3>3. CASE receive_seq' # receive_seq
      <4>1. acked' \in (acked + 1)..(base + Len(delivered))
        BY <1>1, <2>1, <3>1, <3>3 DEF NextId
      <4> QED BY <2>1, <3>1, <4>1
              DEF Stream!StreamNext, Stream!AcknowledgeBlocks
    <3> QED BY <3>2, <3>3
  <2>3. CASE ~Synced
    <3>1. receive_seq = 1 /\ NextId = base /\ send_seq <= 2
      BY <2>3 DEF IInv, PositionsInv
    <3>2. receive_seq' = base
      BY <1>1, <2>1, <3>1
    <3>3. built = base /\ acked = base
      BY <1>1, <2>3, <3>1 DEF Synced
    <3>4. built' = base /\ acked' = base
      BY <1>1, <2>1, <2>3, <3>1, <3>2 DEF Synced
    <3> QED BY <2>1, <3>3, <3>4 DEF Stream!streamVars
  <2> QED BY <2>2, <2>3
<1>5. CASE Dispatch
  <2>1. /\ receive_buf # <<>> /\ Head(receive_buf).ok
        /\ Head(receive_buf).seq = next_sequence
        /\ delivered' = Append(delivered, Head(receive_buf).id)
        /\ send_seq' = send_seq /\ receive_seq' = receive_seq /\ base' = base
    BY <1>5 DEF Dispatch, command_dispatch, hostVars
  <2>2. Head(receive_buf).id = NextId /\ NextId < send_seq
    BY <2>1, DispatchedIsNext
  <2>3. /\ base + Len(delivered) < built
        /\ delivered' = Append(delivered, base + Len(delivered))
        /\ UNCHANGED <<base, built, acked>>
    BY <1>1, <2>1, <2>2 DEF NextId
  <2> QED BY <2>3 DEF Stream!StreamNext, Stream!ExecuteBlock
<1>6. CASE RetransmitEvent \/ StartSession
  BY <1>2, <1>6 DEF RetransmitEvent, retransmit_event, StartSession,
     start_session, mcuVars
<1>7. CASE ReceiveData \/ FindGarbage \/ FindUnexpected \/ Respond
           \/ SendAck \/ DispatchShutdown
  BY <1>2, <1>7 DEF ReceiveData, canserial_process_data, FindGarbage,
     find_garbage, FindUnexpected, find_unexpected, Respond, sendf, SendAck,
     command_send_ack, DispatchShutdown, dispatch_shutdown, hostVars, mcuVars
<1>8. CASE WireNext
  BY <1>2, <1>8 DEF WireNext, LoseBlock, CorruptBlock, LoseFrame, Fault,
     hostVars, mcuVars
<1>9. CASE UNCHANGED vars
  BY <1>2, <1>9 DEF vars, hostVars, mcuVars
<1> QED BY <1>3, <1>4, <1>5, <1>6, <1>7, <1>8, <1>9
        DEF Next, HostNext, McuNext

(* Retransmission, duplicate suppression and recovery from damage together
   behave like a stream that executes blocks once and in order. *)
THEOREM LinkImplementsStream == Spec => ImplementsCommandStream
<1>1. Init => Stream!StreamInit
  BY InitRefines
<1>2. IInv /\ [Next]_vars => [Stream!StreamNext]_(Stream!streamVars)
  BY NextRefines
<1> QED BY <1>1, <1>2, InductiveInvariant, PTL
        DEF Spec, ImplementsCommandStream, Stream!StreamSpec

-----------------------------------------------------------------------------
(* The wakeups *)

(* What ResponsesInv says of the frames under way. *)
LEMMA ResponsesTypes ==
  ASSUME IInv
  PROVE  /\ m2h \in Seq(Frame) /\ dispatching \in Nat /\ NextId \in Nat
         /\ NextId \in Nat \ {0} /\ receive_seq \in Nat
         /\ \A i \in 1..Len(m2h) :
              /\ m2h[i] \in Frame
              /\ m2h[i].done \in Nat /\ m2h[i].src \in Nat
              /\ m2h[i].done <= NextId
         /\ \A i, j \in 1..Len(m2h) : i < j => m2h[i].done <= m2h[j].done
<1>1. m2h \in Seq(Frame) /\ NextId \in Nat \ {0} /\ receive_seq \in Nat
  BY Types DEF IInv, NextId, TypeOK, McuTypeOK
<1>2. dispatching \in Nat
  BY DEF IInv, TypeOK, McuTypeOK
<1>3. \A i \in 1..Len(m2h) : m2h[i] \in Frame
  BY <1>1
<1>4. \A i \in 1..Len(m2h) : m2h[i].done \in Nat /\ m2h[i].src \in Nat
  BY <1>3 DEF Frame
<1> QED BY <1>1, <1>2, <1>3, <1>4 DEF IInv, FrameInv

(* A frame that is lost or handled leaves the order of the others. *)
LEMMA TailResponses ==
  ASSUME IInv, ResponsesInv, m2h # <<>>, m2h' = Tail(m2h),
         dispatching' = dispatching, NextId' = NextId,
         identify' # "asked" => receive_seq' > 1
  PROVE  ResponsesInv'
<1>1. /\ Len(m2h) \in Nat /\ Len(m2h) >= 1 /\ Len(m2h') = Len(m2h) - 1
      /\ \A i \in 1..Len(m2h') : m2h'[i] = m2h[i + 1]
  BY TailProps, ResponsesTypes
<1> DEFINE l == Len(m2h)
           p == Len(m2h')
<1>2. \A i \in 1..p : i + 1 \in 1..l
  BY <1>1
<1>3. \A i, j \in 1..p : i < j => i + 1 < j + 1
  BY <1>1
<1> HIDE DEF l, p
<1>4. \A i \in 1..p :
        /\ m2h'[i].src # 0 => ~m2h'[i].ack /\ m2h'[i].done = m2h'[i].src + 1
        /\ dispatching' # 0 /\ m2h'[i].ack => m2h'[i].done <= dispatching'
  BY <1>1, <1>2 DEF ResponsesInv, l, p
<1>5. \A i, j \in 1..p :
       i < j /\ m2h'[i].ack /\ m2h'[j].src # 0 => m2h'[i].done <= m2h'[j].src
  BY <1>1, <1>2, <1>3 DEF ResponsesInv, l, p
<1> QED BY <1>4, <1>5 DEF ResponsesInv, p

(* What console_sendf adds. *)
LEMMA SendfFrame ==
  ASSUME m2h \in Seq(Frame), dispatching \in Nat, NEW ack \in BOOLEAN,
         NEW seq \in 0..(SeqMod - 1), NEW done \in Nat,
         console_sendf(ack, seq, done)
  PROVE  \/ m2h' = m2h
         \/ /\ Len(m2h') = Len(m2h) + 1
            /\ \A i \in 1..Len(m2h) : m2h'[i] = m2h[i]
            /\ m2h'[Len(m2h) + 1].ack = ack
            /\ m2h'[Len(m2h) + 1].done = done
            /\ m2h'[Len(m2h) + 1].src = IF ack THEN 0 ELSE dispatching
<1> DEFINE f == [seq |-> seq, ack |-> ack, done |-> done,
                 src |-> IF ack THEN 0 ELSE dispatching]
<1>1. /\ f \in Frame /\ f.ack = ack /\ f.done = done
      /\ f.src = IF ack THEN 0 ELSE dispatching
  BY DEF Frame
<1>2. m2h' = m2h \/ m2h' = Append(m2h, f)
  BY DEF console_sendf
<1> HIDE DEF f
<1>3. CASE m2h' = Append(m2h, f)
  BY <1>1, <1>3, AppendProps
<1> QED BY <1>2, <1>3

(* A response leaves while its block is dispatched, an acknowledgement only
   when no block is. *)
LEMMA SendfResponses ==
  ASSUME IInv, ResponsesInv, NEW ack \in BOOLEAN,
         console_sendf(ack, next_sequence, NextId),
         ack => dispatching' = 0,
         dispatching' \in {0, dispatching}, NextId' = NextId,
         identify' = identify, receive_seq' = receive_seq
  PROVE  ResponsesInv'
<1> DEFINE l == Len(m2h)
<1>1. /\ l \in Nat /\ dispatching \in Nat /\ NextId \in Nat
      /\ next_sequence \in 0..(SeqMod - 1) /\ m2h \in Seq(Frame)
  BY ResponsesTypes DEF IInv, TypeOK, McuTypeOK
<1>2. \/ m2h' = m2h
      \/ /\ Len(m2h') = l + 1
         /\ \A i \in 1..l : m2h'[i] = m2h[i]
         /\ m2h'[l + 1].ack = ack
         /\ m2h'[l + 1].done = NextId
         /\ m2h'[l + 1].src = IF ack THEN 0 ELSE dispatching
  BY <1>1, SendfFrame
<1>3. CASE m2h' = m2h
  BY <1>3 DEF ResponsesInv
<1>4. CASE /\ Len(m2h') = l + 1
           /\ \A i \in 1..l : m2h'[i] = m2h[i]
           /\ m2h'[l + 1].ack = ack
           /\ m2h'[l + 1].done = NextId
           /\ m2h'[l + 1].src = IF ack THEN 0 ELSE dispatching
  <2>1. /\ dispatching # 0 => NextId = dispatching + 1
        /\ \A i \in 1..l :
             /\ m2h[i].src # 0 => ~m2h[i].ack /\ m2h[i].done = m2h[i].src + 1
             /\ dispatching # 0 /\ m2h[i].ack => m2h[i].done <= dispatching
        /\ \A i, j \in 1..l :
             i < j /\ m2h[i].ack /\ m2h[j].src # 0
               => m2h[i].done <= m2h[j].src
        /\ identify # "asked" => receive_seq > 1
    BY DEF ResponsesInv
  <2> HIDE DEF l
  <2>2. \A i \in 1..(l + 1) : i \in 1..l \/ i = l + 1
    BY <1>1
  <2>3. \A i \in 1..(l + 1) :
          /\ m2h'[i].src # 0 => ~m2h'[i].ack /\ m2h'[i].done = m2h'[i].src + 1
          /\ dispatching' # 0 /\ m2h'[i].ack => m2h'[i].done <= dispatching'
    <3> SUFFICES ASSUME NEW i \in 1..(l + 1)
          PROVE /\ m2h'[i].src # 0
                     => ~m2h'[i].ack /\ m2h'[i].done = m2h'[i].src + 1
                /\ dispatching' # 0 /\ m2h'[i].ack
                     => m2h'[i].done <= dispatching'
      OBVIOUS
    <3>1. CASE i \in 1..l
      BY <1>4, <2>1, <3>1
    <3>2. CASE i = l + 1
      BY <1>4, <2>1, <3>2
    <3> QED BY <2>2, <3>1, <3>2
  <2>4. \A i, j \in 1..(l + 1) :
          i < j /\ m2h'[i].ack /\ m2h'[j].src # 0
            => m2h'[i].done <= m2h'[j].src
    <3> SUFFICES ASSUME NEW i \in 1..(l + 1), NEW j \in 1..(l + 1), i < j,
                        m2h'[i].ack, m2h'[j].src # 0
                 PROVE  m2h'[i].done <= m2h'[j].src
      OBVIOUS
    <3>1. i \in 1..l
      BY <1>1
    <3>2. CASE j \in 1..l
      BY <1>4, <2>1, <3>1, <3>2
    <3>3. CASE j = l + 1
      BY <1>4, <2>1, <3>1, <3>3
    <3> QED BY <2>2, <3>2, <3>3
  <2> QED BY <1>4, <2>1, <2>3, <2>4 DEF ResponsesInv
<1> QED BY <1>2, <1>3, <1>4

(* Which frames handle_message wakes a sender for. *)
LEMMA HandleWakes ==
  ASSUME IInv, ResponsesInv, HandleMessage
  PROVE  /\ m2h # <<>> /\ m2h' = Tail(m2h)
         /\ UNCHANGED <<dispatching, base, delivered>>
         /\ identify = "done" => identify' = "done"
         /\ identify' # identify =>
              Head(m2h).src # 0 /\ receive_seq' = Head(m2h).done
         /\ receive_seq <= receive_seq'
         /\ \E k \in 0..Len(notify_queue) :
              /\ notify_queue' = SubSeq(notify_queue, k + 1, Len(notify_queue))
              /\ \A i \in 1..k :
                   Wakes(notify_queue[i], Head(m2h).done, Head(m2h))
<1> DEFINE f == Head(m2h)
<1>1. m2h # <<>> /\ m2h' = Tail(m2h) /\ UNCHANGED mcuVars
  BY DEF HandleMessage, handle_message
<1>2. Rseq(f) = f.done /\ f.done \in Nat /\ receive_seq <= f.done
  BY <1>1, RseqIsDone
<1>3. receive_seq' = f.done
  BY HandleMessageProps
<1>4. notify_queue \in Seq(Nat \ {0})
  BY DEF IInv, TypeOK, HostTypeOK
<1> HIDE DEF f
<1>5. \/ UNCHANGED <<notify_queue, identify>>
      \/ /\ \E k \in 0..Len(notify_queue) :
              /\ \A i \in 1..k : Wakes(notify_queue[i], f.done, f)
              /\ notify_queue' = SubSeq(notify_queue, k + 1, Len(notify_queue))
         /\ identify' = IF identify = "asked" /\ f.src # 0
                        THEN "answered" ELSE identify
  BY <1>2, Zenon DEF HandleMessage, handle_message, f
<1>6. CASE UNCHANGED <<notify_queue, identify>>
  <2>1. /\ 0 \in 0..Len(notify_queue)
        /\ notify_queue' = SubSeq(notify_queue, 0 + 1, Len(notify_queue))
    BY <1>4, <1>6
  <2>2. \A i \in 1..0 : Wakes(notify_queue[i], f.done, f)
    OBVIOUS
  <2> QED BY <1>1, <1>2, <1>3, <1>6, <2>1, <2>2, Zenon DEF mcuVars, f
<1>7. CASE /\ \E k \in 0..Len(notify_queue) :
                /\ \A i \in 1..k : Wakes(notify_queue[i], f.done, f)
                /\ notify_queue' =
                     SubSeq(notify_queue, k + 1, Len(notify_queue))
           /\ identify' = IF identify = "asked" /\ f.src # 0
                          THEN "answered" ELSE identify
  BY <1>1, <1>2, <1>3, <1>7, Zenon DEF mcuVars, f
<1> QED BY <1>5, <1>6, <1>7

(* handle_message keeps the order of the frames that are left, and the
   host's position passes the first block with the first response. *)
LEMMA HandleMessageResponses ==
  ASSUME IInv, ResponsesInv, HandleMessage
  PROVE  ResponsesInv'
<1>1. /\ m2h # <<>> /\ m2h' = Tail(m2h) /\ dispatching' = dispatching
      /\ NextId' = NextId /\ receive_seq <= receive_seq'
      /\ identify' # identify =>
           Head(m2h).src # 0 /\ receive_seq' = Head(m2h).done
  BY HandleWakes DEF NextId
<1>2. /\ Len(m2h) >= 1 /\ Head(m2h) = m2h[1] /\ receive_seq \in Nat
      /\ m2h[1].src \in Nat /\ m2h[1].done \in Nat
  <2>1. Len(m2h) >= 1 /\ Head(m2h) = m2h[1]
    BY <1>1, ResponsesTypes, TailProps
  <2>2. 1 \in 1..Len(m2h)
    BY <2>1, ResponsesTypes
  <2> QED BY <2>1, <2>2, ResponsesTypes
<1>3. m2h[1].src # 0 => m2h[1].done = m2h[1].src + 1
  BY <1>2, ResponsesTypes DEF ResponsesInv
<1>4. identify' # "asked" => receive_seq' > 1
  <2>1. CASE identify' = identify
    <3>1. receive_seq' \in Nat
      BY HandleMessageProps
    <3>2. identify # "asked" => receive_seq > 1
      BY DEF ResponsesInv
    <3> QED BY <1>1, <1>2, <2>1, <3>1, <3>2
  <2>2. CASE identify' # identify
    BY <1>1, <1>2, <1>3, <2>2
  <2> QED BY <2>1, <2>2
<1> QED BY <1>1, <1>4, TailResponses

(* The block that is dispatched is newer than every frame under way. *)
LEMMA DispatchResponses ==
  ASSUME IInv, ResponsesInv, Dispatch
  PROVE  ResponsesInv'
<1>1. /\ m2h' = m2h /\ identify' = identify /\ receive_seq' = receive_seq
      /\ base' = base
      /\ receive_buf # <<>> /\ Head(receive_buf).ok
      /\ Head(receive_buf).seq = next_sequence
      /\ dispatching' = Head(receive_buf).id
      /\ delivered' = Append(delivered, Head(receive_buf).id)
  BY DEF Dispatch, command_dispatch, hostVars, wireVars
<1>2. Head(receive_buf).id = NextId
  BY <1>1, DispatchedIsNext
<1>3. NextId' = dispatching' + 1
  <2>1. delivered \in Seq(Nat) /\ NextId \in Nat /\ base \in Nat
    BY ResponsesTypes, Types DEF IInv, TypeOK, McuTypeOK
  <2>2. Len(delivered') = Len(delivered) + 1
    BY <1>1, <1>2, <2>1, AppendProps
  <2> QED BY <1>1, <1>2, <2>1, <2>2 DEF NextId
<1> QED BY <1>1, <1>2, <1>3, ResponsesTypes DEF ResponsesInv

(* Every step keeps the order of responses and acknowledgements. *)
LEMMA NextResponses ==
  ASSUME IInv, ResponsesInv, [Next]_vars
  PROVE  ResponsesInv'
<1>1. next_sequence \in 0..(SeqMod - 1)
  BY DEF IInv, TypeOK, McuTypeOK
<1>2. CASE UNCHANGED <<m2h, dispatching, base, delivered, receive_seq,
                       identify>>
  BY <1>2 DEF ResponsesInv, NextId
<1>3. CASE CommandEvent
  BY <1>2, <1>3, Zenon DEF CommandEvent, command_event, mcuVars
<1>4. CASE RetransmitEvent
  BY <1>2, <1>4, Zenon DEF RetransmitEvent, retransmit_event, mcuVars
<1>5. CASE HandleMessage
  BY <1>5, HandleMessageResponses
<1>6. CASE StartSession
  <2>1. /\ UNCHANGED <<m2h, dispatching, base, delivered, receive_seq>>
        /\ identify = "answered" /\ identify' = "done"
    BY <1>6, Zenon DEF StartSession, start_session, mcuVars, wireVars
  <2> QED BY <2>1 DEF ResponsesInv, NextId
<1>7. CASE ReceiveData
  BY <1>2, <1>7, Zenon
     DEF ReceiveData, canserial_process_data, hostVars
<1>8. CASE FindGarbage \/ FindUnexpected \/ SendAck
  <2>1. /\ UNCHANGED <<base, delivered, receive_seq, identify>>
        /\ dispatching' = 0
        /\ m2h' = m2h \/ console_sendf(TRUE, next_sequence, NextId)
    BY <1>8 DEF FindGarbage, find_garbage, FindUnexpected, find_unexpected,
       SendAck, command_send_ack, hostVars
  <2>2. CASE m2h' = m2h
    BY <2>1, <2>2 DEF ResponsesInv
  <2>3. CASE console_sendf(TRUE, next_sequence, NextId)
    <3>1. /\ NextId' = NextId /\ TRUE \in BOOLEAN
          /\ dispatching' \in {0, dispatching}
      BY <2>1 DEF NextId
    <3> QED BY <2>1, <2>3, <3>1, SendfResponses
  <2> QED BY <2>1, <2>2, <2>3
<1>9. CASE Dispatch
  BY <1>9, DispatchResponses
<1>10. CASE Respond
  <2>1. /\ UNCHANGED <<base, delivered, receive_seq, identify, dispatching>>
        /\ console_sendf(FALSE, next_sequence, NextId)
    BY <1>10 DEF Respond, sendf, hostVars, mcuVars
  <2>2. /\ NextId' = NextId /\ FALSE \in BOOLEAN
        /\ dispatching' \in {0, dispatching}
    BY <2>1 DEF NextId
  <2> QED BY <2>1, <2>2, SendfResponses
<1>11. CASE DispatchShutdown
  <2>1. /\ UNCHANGED <<m2h, base, delivered, receive_seq, identify>>
        /\ dispatching' = 0
    BY <1>11 DEF DispatchShutdown, dispatch_shutdown, hostVars, wireVars
  <2> QED BY <2>1 DEF ResponsesInv
<1>12. CASE LoseBlock \/ CorruptBlock
  BY <1>2, <1>12, Zenon
     DEF LoseBlock, CorruptBlock, Fault, hostVars, mcuVars
<1>13. CASE LoseFrame
  <2>1. /\ m2h # <<>> /\ m2h' = Tail(m2h)
        /\ UNCHANGED <<base, delivered, dispatching, receive_seq, identify>>
    BY <1>13 DEF LoseFrame, Fault, hostVars, mcuVars
  <2>2. NextId' = NextId /\ dispatching' = dispatching
    BY <2>1 DEF NextId
  <2>3. identify' # "asked" => receive_seq' > 1
    BY <2>1 DEF ResponsesInv
  <2> QED BY <2>1, <2>2, <2>3, TailResponses
<1>14. CASE UNCHANGED vars
  BY <1>2, <1>14, Zenon DEF vars, hostVars, mcuVars, wireVars
<1> QED BY <1>3, <1>4, <1>5, <1>6, <1>7, <1>8, <1>9, <1>10, <1>11, <1>12,
           <1>13, <1>14, Zenon DEF Next, HostNext, McuNext, WireNext

(* A step wakes only senders whose block is dispatched and answered. *)
LEMMA NextWoken ==
  ASSUME IInv, ResponsesInv, [Next]_vars
  PROVE  WokenAfterResponses
<1> DEFINE l == Len(notify_queue)
<1>1. notify_queue \in Seq(Nat \ {0}) /\ l \in Nat
  BY DEF IInv, TypeOK, HostTypeOK
<1>2. CASE notify_queue' = notify_queue
  <2>1. l - Len(notify_queue') = 0
    BY <1>1, <1>2
  <2>2. 1..(l - Len(notify_queue')) = {}
    BY <2>1
  <2> QED BY <2>2 DEF WokenAfterResponses
<1>3. CASE CommandEvent
  <2>1. PICK len \in Lens, notify \in Notify : command_event(len, notify)
    BY <1>3 DEF CommandEvent
  <2>2. \/ notify_queue' = Append(notify_queue, send_seq)
        \/ notify_queue' = notify_queue
    BY <2>1, Zenon DEF command_event
  <2>3. send_seq \in Nat
    BY Types DEF IInv
  <2>4. CASE notify_queue' = Append(notify_queue, send_seq)
    <3>1. Len(notify_queue') = l + 1
      BY <1>1, <2>3, <2>4, AppendProps
    <3>2. 1..(l - Len(notify_queue')) = {}
      BY <1>1, <3>1
    <3> QED BY <3>2 DEF WokenAfterResponses
  <2> QED BY <1>2, <2>2, <2>4
<1>4. CASE HandleMessage
  <2> DEFINE f == Head(m2h)
  <2>1. PICK k \in 0..l :
          /\ notify_queue' = SubSeq(notify_queue, k + 1, l)
          /\ \A i \in 1..k : Wakes(notify_queue[i], f.done, f)
    BY <1>4, HandleWakes
  <2>2. m2h # <<>> /\ m2h' = Tail(m2h) /\ dispatching' = dispatching
    BY <1>4, HandleWakes
  <2>3. l - Len(notify_queue') = k
    <3>1. Len(SubSeq(notify_queue, k + 1, l)) = l - k
      BY <1>1, RestProps
    <3> QED BY <1>1, <2>1, <3>1
  <2>4. /\ Len(m2h) \in Nat /\ Len(m2h) >= 1 /\ f = m2h[1]
        /\ Len(m2h') = Len(m2h) - 1
        /\ \A i \in 1..Len(m2h') : m2h'[i] = m2h[i + 1]
    BY <2>2, TailProps, ResponsesTypes
  <2>5. 1 \in 1..Len(m2h)
    BY <2>4
  <2>6. /\ f.done \in Nat /\ f.done <= NextId
        /\ NextId \in Nat /\ dispatching \in Nat
    BY <2>4, <2>5, ResponsesTypes
  <2>7. receive_seq' = f.done /\ receive_seq <= f.done /\ receive_seq \in Nat
    BY <1>4, HandleMessageProps, ResponsesTypes
  <2> SUFFICES ASSUME NEW i \in 1..(l - Len(notify_queue')), identify = "done"
               PROVE  /\ notify_queue[i] < NextId
                      /\ dispatching # notify_queue[i]
                      /\ \A j \in 1..Len(m2h') : m2h'[j].src # notify_queue[i]
    BY DEF WokenAfterResponses
  <2>8. f.done > 1
    BY <2>6, <2>7 DEF ResponsesInv
  <2> DEFINE n == notify_queue[i]
  <2>9. n \in Nat \ {0} /\ Wakes(n, f.done, f) /\ i \in 1..k
    BY <1>1, <2>1, <2>3
  <2> HIDE DEF l, n, f
  <2>10. n <= f.done - 1 /\ (~f.ack => n <= f.done - 2)
    BY <2>6, <2>8, <2>9 DEF Wakes
  <2>11. n < NextId
    BY <2>6, <2>9, <2>10
  <2>12. dispatching # n
    <3>1. CASE dispatching = 0
      BY <2>9, <3>1
    <3>2. CASE dispatching # 0
      <4>1. NextId = dispatching + 1 /\ (f.ack => f.done <= dispatching)
        BY <2>4, <2>5, <3>2 DEF ResponsesInv
      <4> QED BY <2>6, <2>9, <2>10, <4>1
    <3> QED BY <3>1, <3>2
  <2>13. \A j \in 1..Len(m2h') : m2h'[j].src # n
    <3> SUFFICES ASSUME NEW j \in 1..Len(m2h'), m2h'[j].src = n
                 PROVE  FALSE
      OBVIOUS
    <3>1. j + 1 \in 1..Len(m2h) /\ 1 < j + 1 /\ m2h'[j] = m2h[j + 1]
      BY <2>4
    <3> DEFINE g == m2h[j + 1]
    <3>2. g.src = n
      BY <3>1
    <3>3. g.done = g.src + 1
      BY <2>9, <3>1, <3>2 DEF ResponsesInv
    <3>4. f.done <= g.done
      BY <2>4, <2>5, <3>1, ResponsesTypes
    <3>5. f.ack => f.done <= g.src
      BY <2>4, <2>5, <2>9, <3>1, <3>2 DEF ResponsesInv
    <3> HIDE DEF g
    <3> QED BY <2>6, <2>9, <2>10, <3>2, <3>3, <3>4, <3>5
  <2> QED BY <2>11, <2>12, <2>13 DEF n
<1>5. CASE ~CommandEvent /\ ~HandleMessage
  <2>1. notify_queue' = notify_queue
    BY <1>5 DEF Next, HostNext, McuNext, WireNext, RetransmitEvent,
       retransmit_event, StartSession, start_session, LoseBlock, CorruptBlock,
       LoseFrame, Fault, ReceiveData, FindGarbage, FindUnexpected, Dispatch,
       Respond, SendAck, DispatchShutdown, vars, hostVars
  <2> QED BY <1>2, <2>1
<1> QED BY <1>3, <1>4, <1>5

(* Nothing is under way and nobody waits when the host connects. *)
LEMMA InitResponses == Init => ResponsesInv
<1> SUFFICES ASSUME Init PROVE ResponsesInv
  OBVIOUS
<1>1. m2h = <<>> /\ dispatching = 0 /\ identify = "asked"
  BY DEF Init, HostInit, McuInit
<1> QED BY <1>1 DEF ResponsesInv

(* Once a session is up, handle_message wakes the sender of a block only
   after the block was dispatched and after every response to it was handed
   to the host: what SerialRetryCommand relies on when it sends again. *)
THEOREM WokenAfterEveryResponse == Spec => NotifiedAfterResponses
<1>1. Init => ResponsesInv
  BY InitResponses
<1>2. IInv /\ ResponsesInv /\ [Next]_vars => ResponsesInv'
  BY NextResponses
<1>3. IInv /\ ResponsesInv /\ [Next]_vars => [WokenAfterResponses]_vars
  BY NextWoken
<1>4. Spec => []IInv
  BY InductiveInvariant
<1> QED BY <1>1, <1>2, <1>3, <1>4, PTL DEF Spec, NotifiedAfterResponses

-----------------------------------------------------------------------------
(* The bytes of a queue *)

(* A set of natural numbers has a least one. *)
LEMMA LeastNat ==
  ASSUME NEW T \in SUBSET Nat, T # {}
  PROVE  \E x \in T : \A y \in T : x <= y
<1> DEFINE R == StrictSubsetOrdering(Nat)
           U == {0..n : n \in T}
<1>1. \A n \in Nat : 0..n \in FiniteSubsetsOf(Nat)
  BY FS_Interval DEF FiniteSubsetsOf
<1>2. \A m, n \in Nat : m < n => <<0..m, 0..n>> \in R
  BY SMT DEF StrictSubsetOrdering
<1>3. IsWellFoundedOn(R, FiniteSubsetsOf(Nat))
  BY FS_StrictSubsetOrderingWellFounded
<1>4. U \subseteq FiniteSubsetsOf(Nat) /\ U # {}
  BY <1>1
<1> HIDE DEF R
<1>5. \E x \in U : \A y \in U : ~ (<<y, x>> \in R)
  <2> HIDE DEF U
  <2> QED BY <1>3, <1>4, WFMin
<1>6. PICK x \in T : \A y \in T : ~ (<<0..y, 0..x>> \in R)
  BY <1>5
<1>7. \A y \in T : ~ (y < x)
  BY <1>2, <1>6
<1> QED BY <1>7

(* Induction up to n, over the set of the numbers that have the property. *)
LEMMA UpTo ==
  ASSUME NEW n \in Nat, NEW S, 0 \in S,
         \A i \in 0..(n - 1) : i \in S => i + 1 \in S
  PROVE  \A i \in 0..n : i \in S
<1> DEFINE T == {i \in 0..n : i \notin S}
<1> SUFFICES ASSUME T # {} PROVE FALSE
  OBVIOUS
<1>1. PICK x \in T : \A y \in T : x <= y
  <2>1. T \in SUBSET Nat /\ T # {}
    OBVIOUS
  <2> HIDE DEF T
  <2> QED BY <2>1, LeastNat
<1>2. x \in 0..n /\ x # 0 /\ x \notin S
  BY <1>1
<1>3. x - 1 \in 0..(n - 1) /\ (x - 1) + 1 = x /\ x - 1 \in 0..n
      /\ ~(x <= x - 1)
  BY <1>2
<1>4. x - 1 \in S
  BY <1>1, <1>3
<1> QED BY <1>2, <1>3, <1>4

(* What the first i blocks of q occupy. *)
IsSums(f, q, n) ==
  f = [i \in 0..n |-> IF i = 0 THEN 0 ELSE f[i - 1] + q[i].len]
Sums(q) == CHOOSE f : IsSums(f, q, Len(q))

(* Bytes is the last of the partial sums. *)
LEMMA BytesIsSum ==
  ASSUME NEW q
  PROVE  Bytes(q) = Sums(q)[Len(q)]
  BY DEF Bytes, Sums, IsSums

(* The length of a block is a number. *)
LEMMA BlockLens ==
  ASSUME NEW q \in Seq(Block)
  PROVE  Len(q) \in Nat /\ \A i \in 1..Len(q) : q[i].len \in Nat
<1>1. Len(q) \in Nat /\ \A i \in 1..Len(q) : q[i] \in Block
  OBVIOUS
<1>2. \A b \in Block : b.len \in Nat
  BY DEF Block
<1> QED BY <1>1, <1>2

(* The partial sums that Bytes chooses exist. *)
LEMMA SumsExist ==
  ASSUME NEW q \in Seq(Block)
  PROVE  \E f : IsSums(f, q, Len(q))
<1> DEFINE S == {n \in Nat : \E f \in [0..n -> Nat] : IsSums(f, q, n)}
<1>1. Len(q) \in Nat /\ \A i \in 1..Len(q) : q[i].len \in Nat
  BY BlockLens
<1>2. 0 \in S
  <2> DEFINE f == [i \in 0..0 |-> 0]
  <2>1. f \in [0..0 -> Nat]
    OBVIOUS
  <2>2. f = [i \in 0..0 |-> IF i = 0 THEN 0 ELSE f[i - 1] + q[i].len]
    OBVIOUS
  <2> HIDE DEF f
  <2> QED BY <2>1, <2>2 DEF IsSums
<1>3. ASSUME NEW n \in 0..(Len(q) - 1), n \in S
      PROVE  n + 1 \in S
  <2>1. PICK f \in [0..n -> Nat] : IsSums(f, q, n)
    BY <1>3
  <2> DEFINE g == [i \in 0..(n + 1) |->
                     IF i = n + 1 THEN f[n] + q[i].len ELSE f[i]]
  <2>2. n \in Nat /\ n + 1 \in 1..Len(q)
    BY <1>1
  <2>3. f[n] \in Nat /\ q[n + 1].len \in Nat
    BY <1>1, <2>1, <2>2
  <2>4. /\ g \in [0..(n + 1) -> Nat] /\ g[n + 1] = f[n] + q[n + 1].len
        /\ \A i \in 0..n : g[i] = f[i]
    BY <2>2, <2>3
  <2>5. \A i \in 0..n : f[i] = IF i = 0 THEN 0 ELSE f[i - 1] + q[i].len
    BY <2>1 DEF IsSums
  <2>6. \A i \in 0..(n + 1) : g[i] = IF i = 0 THEN 0 ELSE g[i - 1] + q[i].len
    <3> SUFFICES ASSUME NEW i \in 0..(n + 1)
                 PROVE  g[i] = IF i = 0 THEN 0 ELSE g[i - 1] + q[i].len
      OBVIOUS
    <3>1. CASE i = n + 1
      <4>1. i - 1 = n /\ i # 0 /\ n \in 0..n
        BY <2>2, <3>1
      <4> HIDE DEF g
      <4> QED BY <2>4, <3>1, <4>1
    <3>2. CASE i = 0
      <4> HIDE DEF g
      <4> QED BY <2>2, <2>4, <2>5, <3>2
    <3>3. CASE i \in 1..n
      <4>1. i \in 0..n /\ i - 1 \in 0..n /\ i # 0
        BY <2>2, <3>3
      <4> HIDE DEF g
      <4> QED BY <2>4, <2>5, <4>1
    <3> QED BY <2>2, <3>1, <3>2, <3>3
  <2> HIDE DEF g
  <2>7. g = [i \in 0..(n + 1) |-> IF i = 0 THEN 0 ELSE g[i - 1] + q[i].len]
    BY <2>4, <2>6
  <2>8. IsSums(g, q, n + 1)
    BY <2>7 DEF IsSums
  <2>9. n + 1 \in Nat /\ g \in [0..(n + 1) -> Nat]
    BY <2>2, <2>4
  <2> QED BY <2>8, <2>9
<1> HIDE DEF S
<1>4. Len(q) \in S
  <2>1. \A i \in 0..Len(q) : i \in S
    BY <1>1, <1>2, <1>3, UpTo
  <2> QED BY <1>1, <2>1
<1> QED BY <1>4 DEF S

(* The partial sums, one block after the other. *)
LEMMA SumsProps ==
  ASSUME NEW q \in Seq(Block)
  PROVE  /\ Sums(q)[0] = 0
         /\ \A i \in 1..Len(q) : Sums(q)[i] = Sums(q)[i - 1] + q[i].len
         /\ \A i \in 0..Len(q) : Sums(q)[i] \in Nat
<1> DEFINE f == Sums(q)
<1>1. Len(q) \in Nat /\ \A i \in 1..Len(q) : q[i].len \in Nat
  BY BlockLens
<1>2. IsSums(f, q, Len(q))
  BY SumsExist DEF Sums
<1> HIDE DEF f
<1>3. \A i \in 0..Len(q) : f[i] = IF i = 0 THEN 0 ELSE f[i - 1] + q[i].len
  BY <1>2 DEF IsSums
<1>4. f[0] = 0 /\ \A i \in 1..Len(q) : f[i] = f[i - 1] + q[i].len
  BY <1>1, <1>3
<1> DEFINE S == {i \in Nat : f[i] \in Nat}
<1>5. \A i \in 0..Len(q) : i \in S
  <2>1. 0 \in S
    BY <1>4
  <2>2. ASSUME NEW i \in 0..(Len(q) - 1), i \in S
        PROVE  i + 1 \in S
    <3>1. i + 1 \in 1..Len(q) /\ (i + 1) - 1 = i
      BY <1>1
    <3> QED BY <1>1, <1>4, <2>2, <3>1
  <2> HIDE DEF S
  <2> QED BY <1>1, <2>1, <2>2, UpTo
<1> QED BY <1>4, <1>5 DEF f

(* Blocks that each have their own, larger one in another queue occupy less
   than that queue. *)
LEMMA BytesDominated ==
  ASSUME NEW p \in Seq(Block), NEW q \in Seq(Block),
         NEW at \in [1..Len(p) -> 1..Len(q)],
         \A i, j \in 1..Len(p) : i < j => at[i] < at[j],
         \A i \in 1..Len(p) : p[i].len <= q[at[i]].len
  PROVE  Bytes(p) <= Bytes(q)
<1> DEFINE f == Sums(p)
           g == Sums(q)
           m == Len(p)
           n == Len(q)
<1>1. /\ m \in Nat /\ n \in Nat
      /\ \A i \in 1..m : p[i].len \in Nat
      /\ \A i \in 1..n : q[i].len \in Nat
  BY BlockLens
<1>2. /\ f[0] = 0 /\ \A i \in 1..m : f[i] = f[i - 1] + p[i].len
      /\ \A i \in 0..m : f[i] \in Nat
      /\ g[0] = 0 /\ \A i \in 1..n : g[i] = g[i - 1] + q[i].len
      /\ \A i \in 0..n : g[i] \in Nat
  BY SumsProps
<1>3. \A i \in 1..m : at[i] \in 1..n /\ p[i].len <= q[at[i]].len
  OBVIOUS
<1>4. \A i, j \in 1..m : i < j => at[i] < at[j]
  OBVIOUS
<1> HIDE DEF f, g, m, n
<1>5. \A i \in 0..n, j \in 0..n : i <= j => g[i] <= g[j]
  <2> SUFFICES ASSUME NEW i \in 0..n
               PROVE  \A j \in 0..n : i <= j => g[i] <= g[j]
    OBVIOUS
  <2> DEFINE S == {j \in Nat : i <= j => g[i] <= g[j]}
  <2>1. 0 \in S
    BY <1>1, <1>2
  <2>2. ASSUME NEW j \in 0..(n - 1), j \in S
        PROVE  j + 1 \in S
    <3>1. /\ j + 1 \in 1..n /\ (j + 1) - 1 = j /\ j \in 0..n
          /\ j + 1 \in 0..n /\ j + 1 \in Nat
      BY <1>1
    <3>2. g[j + 1] = g[j] + q[j + 1].len /\ q[j + 1].len \in Nat
          /\ g[j] \in Nat /\ g[j + 1] \in Nat /\ g[i] \in Nat
      BY <1>1, <1>2, <3>1
    <3>3. i <= j => g[i] <= g[j]
      BY <2>2
    <3>4. i <= j + 1 => i <= j \/ i = j + 1
      BY <1>1
    <3>5. i <= j + 1 => g[i] <= g[j + 1]
      BY <3>2, <3>3, <3>4
    <3> QED BY <3>1, <3>5
  <2> HIDE DEF S
  <2>3. \A j \in 0..n : j \in S
    BY <1>1, <2>1, <2>2, UpTo
  <2> QED BY <2>3 DEF S
<1> DEFINE T == {i \in Nat : i = 0 \/ f[i] <= g[at[i]]}
<1>6. ASSUME NEW i \in 0..(m - 1), i \in T
      PROVE  i + 1 \in T
  <2> DEFINE k == at[i + 1]
  <2>1. i + 1 \in 1..m /\ (i + 1) - 1 = i /\ i + 1 \in Nat /\ i \in 0..m
    BY <1>1
  <2>2. /\ k \in 1..n /\ f[i + 1] = f[i] + p[i + 1].len
        /\ p[i + 1].len <= q[k].len
        /\ f[i] \in Nat /\ p[i + 1].len \in Nat
    BY <1>1, <1>2, <1>3, <2>1
  <2>3. CASE i = 0
    <3> HIDE DEF k
    <3>1. k \in 1..n /\ k - 1 \in 0..n /\ k \in 0..n
      BY <1>1, <2>2
    <3>2. g[k] = g[k - 1] + q[k].len /\ g[k - 1] \in Nat /\ q[k].len \in Nat
      BY <1>1, <1>2, <3>1
    <3>3. f[i] = 0
      BY <1>2, <2>3
    <3>4. f[i + 1] <= g[k]
      BY SMTT(30), <2>2, <3>2, <3>3
    <3> QED BY <2>1, <3>4 DEF k
  <2>4. CASE i # 0
    <3> DEFINE l == at[i]
    <3>1. i \in 1..m /\ i < i + 1
      BY <1>1, <2>4
    <3>2. l \in 1..n /\ l < k
      BY <1>3, <1>4, <2>1, <3>1
    <3>3. f[i] <= g[l]
      BY <1>6, <2>4
    <3> HIDE DEF k, l
    <3>4. l \in 0..n /\ k - 1 \in 0..n /\ l <= k - 1
      BY <1>1, <2>2, <3>2
    <3>5. g[l] <= g[k - 1]
      BY <1>5, <3>4
    <3>6. /\ g[k] = g[k - 1] + q[k].len /\ g[k - 1] \in Nat
          /\ q[k].len \in Nat /\ g[l] \in Nat
      BY <1>1, <1>2, <2>2, <3>4
    <3>7. f[i + 1] <= g[k]
      <4>1. PICK x \in Nat, y \in Nat : x = f[i] /\ y = p[i + 1].len
        BY <2>2
      <4>2. PICK z \in Nat, u \in Nat, v \in Nat :
              z = g[l] /\ u = g[k - 1] /\ v = q[k].len
        BY <3>6
      <4>3. f[i + 1] = x + y /\ g[k] = u + v
        BY <2>2, <3>6, <4>1, <4>2
      <4>4. x <= z /\ z <= u /\ y <= v
        BY <2>2, <3>3, <3>5, <4>1, <4>2
      <4>5. x + y <= u + v
        BY <4>4
      <4> QED BY <4>3, <4>5
    <3> QED BY <2>1, <3>7 DEF k
  <2> QED BY <2>3, <2>4
<1> HIDE DEF T
<1>7. m \in T
  <2>1. 0 \in T
    BY DEF T
  <2>2. \A i \in 0..m : i \in T
    BY <1>1, <1>6, <2>1, UpTo
  <2> QED BY <1>1, <2>2
<1>8. f[m] <= g[n]
  <2>1. CASE m = 0
    <3>1. f[m] = 0 /\ n \in 0..n /\ g[n] \in Nat
      BY <1>1, <1>2, <2>1
    <3> QED BY <3>1
  <2>2. CASE m # 0
    <3>1. f[m] <= g[at[m]]
      BY <1>7, <2>2 DEF T
    <3>2. m \in 1..m /\ m \in 0..m
      BY <1>1, <2>2
    <3>3. at[m] \in 1..n
      BY <1>3, <3>2
    <3> DEFINE l == at[m]
    <3> HIDE DEF l
    <3>4. l \in 0..n /\ n \in 0..n /\ l <= n
      BY <1>1, <3>3 DEF l
    <3>5. g[l] <= g[n]
      BY <1>5, <3>4
    <3>6. f[m] \in Nat /\ g[l] \in Nat /\ g[n] \in Nat
      BY <1>2, <3>2, <3>4
    <3> QED BY <3>1, <3>5, <3>6 DEF l
  <2> QED BY <2>1, <2>2
<1> QED BY <1>8, BytesIsSum DEF f, g, m, n

(* A part of q from position d on occupies what p does. *)
LEMMA SumsShift ==
  ASSUME NEW p \in Seq(Block), NEW q \in Seq(Block), NEW d \in Nat,
         d + Len(p) <= Len(q),
         \A i \in 1..Len(p) : q[d + i].len = p[i].len
  PROVE  Sums(q)[d + Len(p)] = Sums(q)[d] + Bytes(p)
<1> DEFINE f == Sums(p)
           g == Sums(q)
           m == Len(p)
           n == Len(q)
<1>1. /\ m \in Nat /\ n \in Nat /\ d + m <= n
      /\ \A i \in 1..m : p[i].len \in Nat /\ q[d + i].len = p[i].len
  BY BlockLens
<1>2. /\ f[0] = 0 /\ \A i \in 1..m : f[i] = f[i - 1] + p[i].len
      /\ \A i \in 0..m : f[i] \in Nat
      /\ \A i \in 1..n : g[i] = g[i - 1] + q[i].len
      /\ \A i \in 0..n : g[i] \in Nat
  BY SumsProps
<1> HIDE DEF f, g, m, n
<1> DEFINE S == {i \in Nat : g[d + i] = g[d] + f[i]}
<1>3. 0 \in S
  <2>1. d \in 0..n /\ d + 0 = d
    BY <1>1
  <2>2. g[d] \in Nat
    BY <1>2, <2>1
  <2> QED BY <1>2, <2>1, <2>2
<1>4. ASSUME NEW i \in 0..(m - 1), i \in S
      PROVE  i + 1 \in S
  <2>1. /\ i + 1 \in 1..m /\ (i + 1) - 1 = i /\ i + 1 \in Nat /\ i \in 0..m
        /\ d + (i + 1) \in 1..n /\ (d + (i + 1)) - 1 = d + i /\ d + i \in 0..n
        /\ d \in 0..n
    BY <1>1
  <2>2. /\ f[i + 1] = f[i] + p[i + 1].len
        /\ g[d + (i + 1)] = g[d + i] + p[i + 1].len
        /\ f[i] \in Nat /\ g[d + i] \in Nat /\ g[d] \in Nat
        /\ p[i + 1].len \in Nat
    BY <1>1, <1>2, <2>1
  <2>3. g[d + i] = g[d] + f[i]
    BY <1>4
  <2>4. g[d + (i + 1)] = g[d] + f[i + 1]
    <3>1. PICK x \in Nat, y \in Nat, z \in Nat :
            x = f[i] /\ y = p[i + 1].len /\ z = g[d]
      BY <2>2
    <3>2. f[i + 1] = x + y /\ g[d + (i + 1)] = (z + x) + y
      BY <2>2, <2>3, <3>1
    <3>3. (z + x) + y = z + (x + y)
      OBVIOUS
    <3> QED BY <3>1, <3>2, <3>3
  <2> QED BY <2>1, <2>4
<1> HIDE DEF S
<1>5. m \in S
  <2>1. \A i \in 0..m : i \in S
    BY <1>1, <1>3, <1>4, UpTo
  <2> QED BY <1>1, <2>1
<1> QED BY <1>5, BytesIsSum DEF S, f, g, m

(* The bytes of a queue that shrinks, grows or is joined to another. *)
LEMMA BytesProps ==
  ASSUME NEW q \in Seq(Block)
  PROVE  /\ Bytes(q) \in Nat
         /\ q = <<>> => Bytes(q) = 0
         /\ q # <<>> => /\ Head(q).len \in Nat
                        /\ Bytes(q) = Head(q).len + Bytes(Tail(q))
         /\ \A b \in Block : Bytes(Append(q, b)) = Bytes(q) + b.len
         /\ \A s \in Seq(Block) : Bytes(q \o s) = Bytes(q) + Bytes(s)
<1>1. Len(q) \in Nat /\ Len(q) \in 0..Len(q) /\ 0 \in 0..Len(q)
  OBVIOUS
<1>2. Bytes(q) \in Nat
  BY <1>1, BytesIsSum, SumsProps
<1>3. q = <<>> => Bytes(q) = 0
  BY BytesIsSum, SumsProps
<1>4. ASSUME q # <<>>
      PROVE  Head(q).len \in Nat /\ Bytes(q) = Head(q).len + Bytes(Tail(q))
  <2> DEFINE t == Tail(q)
  <2>1. /\ Len(q) >= 1 /\ Head(q) = q[1] /\ q[1] \in Block
        /\ t \in Seq(Block) /\ Len(t) = Len(q) - 1
        /\ \A i \in 1..Len(t) : t[i] = q[i + 1]
    BY <1>4, TailProps
  <2> HIDE DEF t
  <2>2. 1 + Len(t) = Len(q) /\ \A i \in 1..Len(t) : q[1 + i].len = t[i].len
    BY <1>1, <2>1
  <2>3. Sums(q)[1 + Len(t)] = Sums(q)[1] + Bytes(t)
    <3>1. 1 \in Nat /\ 1 + Len(t) <= Len(q)
      BY <1>1, <2>2
    <3> QED BY <2>1, <2>2, <3>1, SumsShift
  <2>4. Sums(q)[1] = q[1].len
    <3>1. 1 \in 1..Len(q) /\ 1 - 1 = 0
      BY <1>1, <2>1
    <3>2. Sums(q)[1] = Sums(q)[0] + q[1].len /\ Sums(q)[0] = 0
      BY <3>1, SumsProps
    <3> QED BY <2>1, <3>2 DEF Block
  <2> QED BY <2>1, <2>2, <2>3, <2>4, BytesIsSum DEF t, Block
<1>5. ASSUME NEW b \in Block
      PROVE  Bytes(Append(q, b)) = Bytes(q) + b.len
  <2> DEFINE t == Append(q, b)
             n == Len(q)
  <2>1. /\ t \in Seq(Block) /\ Len(t) = n + 1 /\ t[n + 1] = b
        /\ \A i \in 1..n : t[i] = q[i]
    BY AppendProps
  <2> HIDE DEF t
  <2>2. Sums(t)[0 + n] = Sums(t)[0] + Bytes(q)
    <3>1. 0 + n <= Len(t) /\ \A i \in 1..n : t[0 + i].len = q[i].len
      BY <1>1, <2>1
    <3> QED BY <2>1, <3>1, SumsShift
  <2>3. n + 1 \in 1..Len(t) /\ (n + 1) - 1 = n /\ 0 + n = n
    BY <1>1, <2>1
  <2>4. Sums(t)[n + 1] = Sums(t)[n] + b.len /\ Sums(t)[0] = 0
    BY <2>1, <2>3, SumsProps
  <2>5. Bytes(t) = Sums(t)[n + 1]
    BY <2>1, BytesIsSum
  <2> QED BY <1>2, <2>2, <2>3, <2>4, <2>5 DEF t
<1>6. ASSUME NEW s \in Seq(Block)
      PROVE  Bytes(q \o s) = Bytes(q) + Bytes(s)
  <2> DEFINE t == q \o s
             n == Len(q)
             l == Len(s)
  <2>1. /\ t \in Seq(Block) /\ Len(t) = n + l /\ n \in Nat /\ l \in Nat
        /\ \A i \in 1..n : t[i] = q[i]
        /\ \A i \in 1..l : t[n + i] = s[i]
    OBVIOUS
  <2> HIDE DEF t
  <2>2. Sums(t)[0 + n] = Sums(t)[0] + Bytes(q)
    <3>1. 0 + n <= Len(t) /\ \A i \in 1..n : t[0 + i].len = q[i].len
      BY <2>1
    <3> QED BY <2>1, <3>1, SumsShift
  <2>3. Sums(t)[n + l] = Sums(t)[n] + Bytes(s)
    <3>1. n + l <= Len(t) /\ \A i \in 1..l : t[n + i].len = s[i].len
      BY <2>1
    <3> QED BY <2>1, <3>1, SumsShift
  <2>4. Sums(t)[0] = 0
    BY <2>1, SumsProps
  <2>5. Bytes(t) = Sums(t)[Len(t)]
    BY BytesIsSum
  <2>6. Bytes(t) = Sums(t)[n + l] /\ 0 + n = n
    BY <2>1, <2>5
  <2> QED BY <1>2, <2>2, <2>3, <2>4, <2>6 DEF t
<1> QED BY <1>2, <1>3, <1>4, <1>5, <1>6

(* Short blocks. *)
LEMMA BytesBounded ==
  ASSUME NEW q \in Seq(Block), NEW c \in Nat,
         \A i \in 1..Len(q) : q[i].len <= c
  PROVE  Bytes(q) <= Len(q) * c
<1> DEFINE f == Sums(q)
           n == Len(q)
           S == {i \in Nat : f[i] <= i * c}
<1>1. n \in Nat /\ \A i \in 1..n : q[i].len \in Nat /\ q[i].len <= c
  BY BlockLens
<1>2. /\ f[0] = 0 /\ \A i \in 1..n : f[i] = f[i - 1] + q[i].len
      /\ \A i \in 0..n : f[i] \in Nat
  BY SumsProps
<1> HIDE DEF f, n
<1>3. 0 \in S
  BY <1>2
<1>4. ASSUME NEW i \in 0..(n - 1), i \in S
      PROVE  i + 1 \in S
  <2>1. /\ i + 1 \in 1..n /\ (i + 1) - 1 = i /\ i + 1 \in Nat
        /\ i \in 0..n /\ i \in Nat
    BY <1>1
  <2>2. f[i + 1] = f[i] + q[i + 1].len /\ f[i] \in Nat /\ q[i + 1].len \in Nat
        /\ q[i + 1].len <= c /\ f[i] <= i * c
    BY <1>1, <1>2, <1>4, <2>1
  <2>3. (i + 1) * c = i * c + c
    BY <2>1
  <2>4. i * c \in Nat
    BY <2>1
  <2>5. f[i + 1] <= (i + 1) * c
    BY SMTT(30), <2>2, <2>3, <2>4
  <2> QED BY <2>1, <2>5
<1> HIDE DEF S
<1>5. n \in S
  <2>1. \A i \in 0..n : i \in S
    BY <1>1, <1>3, <1>4, UpTo
  <2> QED BY <1>1, <2>1
<1> QED BY <1>5, BytesIsSum DEF S, f, n

-----------------------------------------------------------------------------
(* The receive window: whatever is lost, what is under way never exceeds what
   check_send_command counts. *)

(* A queue p is made of the queue r and the queue h behind it. *)
Joined(r, h, p) ==
  /\ p \in Seq(Block) /\ Len(p) \in Nat
  /\ Len(p) = Len(r) + Len(h)
  /\ \A i \in 1..Len(r) : p[i] = r[i]
  /\ \A i \in 1..Len(h) : p[Len(r) + i] = h[i]
  /\ \A i \in 1..Len(p) : /\ p[i] \in Block
                          /\ p[i].len \in Nat /\ p[i].id \in Nat
  /\ Bytes(p) = Bytes(h) + Bytes(r) /\ Bytes(p) \in Nat

(* A concatenation is made of its parts. *)
LEMMA JoinedQueues ==
  ASSUME NEW r \in Seq(Block), NEW h \in Seq(Block)
  PROVE  Joined(r, h, r \o h)
<1> DEFINE p == r \o h
<1>1. /\ p \in Seq(Block) /\ Len(p) \in Nat
      /\ Len(p) = Len(r) + Len(h)
      /\ \A i \in 1..Len(r) : p[i] = r[i]
      /\ \A i \in 1..Len(h) : p[Len(r) + i] = h[i]
  OBVIOUS
<1>2. \A i \in 1..Len(p) : p[i] \in Block
  BY <1>1
<1>3. \A i \in 1..Len(p) : p[i].len \in Nat /\ p[i].id \in Nat
  BY <1>2 DEF Block
<1>4. Bytes(p) = Bytes(r) + Bytes(h)
  BY BytesProps
<1>5. Bytes(r) \in Nat /\ Bytes(h) \in Nat
  BY BytesProps
<1> HIDE DEF p
<1>6. Joined(r, h, p)
  BY <1>1, <1>2, <1>3, <1>4, <1>5 DEF Joined
<1> QED BY <1>6 DEF p

(* The blocks under way, oldest first. *)
LEMMA PipeTypes ==
  ASSUME TypeOK
  PROVE  Joined(receive_buf, h2m, Pipe)
  BY Types, JoinedQueues DEF Pipe

(* The same after a step. *)
LEMMA PipeTypesNext ==
  ASSUME TypeOK'
  PROVE  Joined(receive_buf', h2m', Pipe')
  BY JoinedQueues DEF TypeOK, McuTypeOK, Pipe

(* A queue p is what is left of a queue q: from position k on, the block
   itself or less is found d places further on. *)
Place(i, k, d) == IF i < k THEN i ELSE i + d
Thinned(p, q, k, d) ==
  \A i \in 1..Len(p) :
    /\ Place(i, k, d) \in 1..Len(q)
    /\ p[i].len <= q[Place(i, k, d)].len
    /\ p[i].ok => p[i] = q[Place(i, k, d)]

(* What is left of a queue occupies no more than the queue. *)
LEMMA ThinnedBytes ==
  ASSUME NEW p \in Seq(Block), NEW q \in Seq(Block), NEW k \in Nat,
         NEW d \in Nat, Thinned(p, q, k, d)
  PROVE  Bytes(p) <= Bytes(q)
<1> DEFINE at == [i \in 1..Len(p) |-> Place(i, k, d)]
<1>1. /\ at \in [1..Len(p) -> 1..Len(q)]
      /\ \A i \in 1..Len(p) : /\ at[i] = Place(i, k, d)
                              /\ p[i].len <= q[at[i]].len
  BY DEF Thinned
<1>2. \A i, j \in 1..Len(p) : i < j => Place(i, k, d) < Place(j, k, d)
  BY DEF Place
<1> HIDE DEF at
<1>3. \A i, j \in 1..Len(p) : i < j => at[i] < at[j]
  BY <1>1, <1>2
<1> QED BY <1>1, <1>3, BytesDominated

(* The length that a number stands for. *)
LEMMA LenOfType ==
  ASSUME IInv, NEW x \in Int, base <= x, x < Limit
  PROVE  /\ LenOf(x) \in Nat
         /\ Synced /\ x < send_seq
         /\ receive_seq <= x => x - receive_seq + 1 \in 1..Len(sent_queue)
<1>1. /\ sent_queue \in Seq(Block) /\ last_ack_bytes \in Nat
      /\ send_seq \in Nat /\ receive_seq \in Nat /\ base \in Nat
  BY Types DEF IInv, TypeOK, HostTypeOK
<1>2. Len(sent_queue) = send_seq - receive_seq
  BY DEF IInv, SentQueueComplete
<1>3. Synced /\ x < send_seq
  BY <1>1 DEF Limit
<1>4. receive_seq <= x => x - receive_seq + 1 \in 1..Len(sent_queue)
  BY <1>1, <1>2, <1>3
<1>5. \A i \in 1..Len(sent_queue) : sent_queue[i].len \in Nat
  <2>1. \A i \in 1..Len(sent_queue) : sent_queue[i] \in Block
    BY <1>1
  <2> QED BY <2>1 DEF Block
<1>6. LenOf(x) \in Nat
  BY <1>1, <1>4, <1>5 DEF LenOf
<1> QED BY <1>3, <1>4, <1>6

(* Whatever the wire or the micro-controller takes away. *)
LEMMA QuietNumbers ==
  ASSUME IInv, TypeOK', NumbersInv,
         UNCHANGED <<base, NextId, send_seq, receive_seq, sent_queue,
                     last_ack_seq, last_ack_bytes>>,
         NEW k \in Nat \ {0}, NEW d \in Nat, Thinned(Pipe', Pipe, k, d),
         \A i \in 1..Len(m2h') :
           \/ m2h'[i].ack => k = 1 /\ d # 0 /\ m2h'[i].done = NextId
           \/ \E j \in 1..Len(m2h) : m2h'[i] = m2h[j]
  PROVE  NumbersInv'
<1>1. PICK n \in [1..Len(Pipe) -> (NextId - 1)..(Limit - 1)] : Numbers(n)
  BY DEF NumbersInv
<1>2. PICK p : p = Pipe'
  OBVIOUS
<1>3. PICK q : q = Pipe
  OBVIOUS
<1>4. /\ Len(p) \in Nat /\ Len(q) \in Nat
      /\ \A i \in 1..Len(p) : p[i].len \in Nat
      /\ \A i \in 1..Len(q) : q[i].len \in Nat
  <2>1. TypeOK
    BY DEF IInv
  <2> QED BY <1>2, <1>3, <2>1, PipeTypes, PipeTypesNext DEF Joined
<1>5. Limit' = Limit /\ \A x : LenOf(x)' = LenOf(x)
  BY DEF Limit, LenOf, Synced
<1>6. NextId \in Nat /\ Limit \in Nat
  BY SMTT(30), Types DEF IInv, Limit
<1> DEFINE at(i) == Place(i, k, d)
           r == [i \in 1..Len(p) |-> n[at(i)]]
<1>7. \A i \in 1..Len(p) : at(i) \in 1..Len(q) /\ p[i].len <= q[at(i)].len
                           /\ (p[i].ok => p[i] = q[at(i)])
  BY <1>2, <1>3 DEF Thinned
<1>8. \A i, j \in 1..Len(p) : i < j => at(i) < at(j)
  BY <1>4 DEF Place
<1>9. \A i \in 1..Len(p) : k = 1 /\ d # 0 => 1 < at(i)
  BY <1>4 DEF Place
<1> HIDE DEF at
<1>10. n \in [1..Len(q) -> (NextId - 1)..(Limit - 1)]
  BY <1>1, <1>3
<1>11. /\ r \in [1..Len(p) -> (NextId - 1)..(Limit - 1)]
       /\ \A i \in 1..Len(p) : /\ r[i] = n[at(i)] /\ r[i] \in Int
                               /\ NextId - 1 <= r[i] /\ r[i] < Limit
  BY <1>6, <1>7, <1>10
<1> HIDE DEF r
<1>12. /\ \A i, j \in 1..Len(q) : i < j => n[i] < n[j]
       /\ \A i \in 1..Len(q) : NumberOK(q[i], n[i])
  BY <1>1, <1>3 DEF Numbers
<1>13. \A i, j \in 1..Len(p) : i < j => r[i] < r[j]
  BY <1>7, <1>8, <1>11, <1>12
<1>14. ASSUME NEW i \in 1..Len(p)
       PROVE  NumberOK(p[i], r[i])'
  <2> DEFINE x == r[i]
             c == q[at(i)]
  <2>1. NumberOK(c, x) /\ x \in Int /\ at(i) \in 1..Len(q)
    BY <1>7, <1>11, <1>12
  <2>2. /\ p[i].len <= c.len /\ (p[i].ok => p[i] = c)
        /\ c.len \in Nat /\ p[i].len \in Nat
    BY <1>4, <1>7
  <2>3. k = 1 /\ d # 0 => NextId <= x
    <3> SUFFICES ASSUME k = 1 /\ d # 0 PROVE NextId <= x
      OBVIOUS
    <3>1. 1 < at(i) /\ at(i) \in 1..Len(q) /\ 1 \in 1..Len(q)
      BY <1>4, <1>7, <1>9
    <3>2. n[1] < x /\ n[1] \in (NextId - 1)..(Limit - 1)
      BY <1>10, <1>11, <1>12, <3>1
    <3> QED BY <1>6, <2>1, <3>2
  <2> HIDE DEF x, c
  <2>4. \A j \in 1..Len(m2h') : m2h'[j].ack => m2h'[j].done <= x
    <3> SUFFICES ASSUME NEW j \in 1..Len(m2h'), m2h'[j].ack
                 PROVE  m2h'[j].done <= x
      OBVIOUS
    <3>1. CASE \E l \in 1..Len(m2h) : m2h'[j] = m2h[l]
      BY <2>1, <3>1 DEF NumberOK
    <3>2. CASE k = 1 /\ d # 0 /\ m2h'[j].done = NextId
      BY <2>3, <3>2
    <3> QED BY <3>1, <3>2
  <2>5. p[i].ok /\ base <= p[i].id => x = p[i].id
    BY <2>1, <2>2 DEF NumberOK
  <2>6. x < base \/ p[i].len <= LenOf(x)
    <3>1. CASE x < base
      BY <3>1
    <3>2. CASE c.len <= LenOf(x)
      <4>1. base \in Int /\ x < Limit
        BY <1>6, <1>11, Types DEF x, IInv
      <4>2. base <= x => LenOf(x) \in Nat
        BY <2>1, <4>1, LenOfType
      <4> QED BY <2>1, <2>2, <3>2, <4>1, <4>2
    <3> QED BY <2>1, <3>1, <3>2 DEF NumberOK
  <2> QED BY <1>5, <2>1, <2>4, <2>5, <2>6 DEF NumberOK, x
<1>15. Numbers(r)'
  BY <1>2, <1>13, <1>14 DEF Numbers
<1> QED BY <1>2, <1>5, <1>11, <1>15 DEF NumbersInv

(* A step of the wire, or of the micro-controller other than a dispatch, adds
   one frame at most, an acknowledgement only when it removes a block. *)
NewFrames(k, d) ==
  \A i \in 1..Len(m2h') :
    \/ \E j \in 1..Len(m2h) : m2h'[i] = m2h[j]
    \/ /\ m2h'[i].src \in {0, dispatching}
       /\ m2h'[i].ack => /\ k = 1 /\ d # 0 /\ m2h'[i].done = NextId
                         /\ Pipe # <<>>

(* Such a step keeps the window. *)
LEMMA QuietStep ==
  ASSUME IInv, TypeOK', WindowInv,
         UNCHANGED <<base, delivered, send_seq, receive_seq, sent_queue,
                     last_ack_seq, last_ack_bytes, identify, retransmit_seq>>,
         dispatching' \in {0, dispatching},
         NEW k \in Nat \ {0}, NEW d \in Nat, Thinned(Pipe', Pipe, k, d),
         NewFrames(k, d)
  PROVE  WindowInv'
<1> SUFFICES ASSUME retransmit_seq' = 0
             PROVE  NumbersInv' /\ SessionInv' /\ Bytes(Pipe') <= RcvWindow
  BY DEF WindowInv
<1>1. NumbersInv /\ SessionInv /\ Bytes(Pipe) <= RcvWindow
  BY DEF WindowInv
<1>2. NextId' = NextId /\ (Synced' <=> Synced)
  BY DEF NextId, Synced
<1>3. Joined(receive_buf, h2m, Pipe) /\ Joined(receive_buf', h2m', Pipe')
  BY PipeTypes, PipeTypesNext DEF IInv
<1>4. NumbersInv'
  <2>1. \A i \in 1..Len(m2h') :
           \/ m2h'[i].ack => k = 1 /\ d # 0 /\ m2h'[i].done = NextId
           \/ \E j \in 1..Len(m2h) : m2h'[i] = m2h[j]
    BY Zenon DEF NewFrames
  <2> QED BY <1>1, <1>2, <2>1, QuietNumbers
<1>5. Bytes(Pipe') <= RcvWindow
  <2>1. Bytes(Pipe') <= Bytes(Pipe)
    <3>1. Pipe \in Seq(Block) /\ Pipe' \in Seq(Block)
      BY <1>3 DEF Joined
    <3> QED BY <3>1, ThinnedBytes
  <2>2. Bytes(Pipe') \in Nat /\ Bytes(Pipe) \in Nat
    BY <1>3 DEF Joined
  <2> QED BY <1>1, <2>1, <2>2, SizeAssumption
<1>6. SessionInv'
  <2>1. identify' # "done" => \A i \in 1..Len(Pipe') : Pipe'[i].len <= ProbeMax
    <3> SUFFICES ASSUME identify # "done", NEW i \in 1..Len(Pipe')
                 PROVE  Pipe'[i].len <= ProbeMax
      OBVIOUS
    <3> DEFINE j == Place(i, k, d)
    <3>1. j \in 1..Len(Pipe) /\ Pipe'[i].len <= Pipe[j].len
      BY DEF Thinned
    <3> HIDE DEF j
    <3>2. /\ Pipe[j].len <= ProbeMax /\ Pipe[j].len \in Nat
          /\ Pipe'[i].len \in Nat
      BY <1>1, <1>3, <3>1 DEF SessionInv, Joined
    <3> QED BY SMTT(30), <3>1, <3>2, SizeAssumption
  <2>2. identify' # "asked" => base' < receive_seq'
    BY <1>1 DEF SessionInv
  <2>3. dispatching' # 0 => base' <= dispatching'
    BY <1>1 DEF SessionInv
  <2>4. \A i \in 1..Len(m2h') : m2h'[i].src # 0 => base' <= m2h'[i].src
    <3> SUFFICES ASSUME NEW i \in 1..Len(m2h'), m2h'[i].src # 0
                 PROVE  base <= m2h'[i].src
      OBVIOUS
    <3>1. CASE \E j \in 1..Len(m2h) : m2h'[i] = m2h[j]
      BY <1>1, <3>1 DEF SessionInv
    <3>2. CASE m2h'[i].src = dispatching
      BY <1>1, <3>2 DEF SessionInv
    <3> QED BY <3>1, <3>2 DEF NewFrames
  <2>5. ~Synced' /\ send_seq' = 1 =>
          Pipe' = <<>> /\ \A i \in 1..Len(m2h') : ~m2h'[i].ack
    <3> SUFFICES ASSUME ~Synced, send_seq = 1
                 PROVE  Pipe' = <<>> /\ \A i \in 1..Len(m2h') : ~m2h'[i].ack
      BY <1>2
    <3>1. Pipe = <<>> /\ \A i \in 1..Len(m2h) : ~m2h[i].ack
      BY <1>1 DEF SessionInv
    <3>2. Pipe' = <<>>
      <4>1. Len(Pipe) = 0
        BY <3>1
      <4>2. \A i \in 1..Len(Pipe') : FALSE
        BY <4>1 DEF Thinned
      <4>3. Pipe' \in Seq(Block) /\ Len(Pipe') \in Nat
        BY <1>3 DEF Joined
      <4> QED BY <4>2, <4>3
    <3>3. \A i \in 1..Len(m2h') : ~m2h'[i].ack
      BY <3>1, Zenon DEF NewFrames
    <3> QED BY <3>2, <3>3
  <2>6. /\ last_ack_seq' <= receive_seq'
        /\ \A i \in 1..Len(sent_queue') : sent_queue'[i].len <= MsgMax
        /\ last_ack_bytes' <= MsgMax
    BY <1>1 DEF SessionInv
  <2> QED BY <2>1, <2>2, <2>3, <2>4, <2>5, <2>6 DEF SessionInv
<1> QED BY <1>4, <1>5, <1>6

(* No frame is sent or lost. *)
LEMMA FramesKept ==
  ASSUME m2h' = m2h, NEW k, NEW d
  PROVE  NewFrames(k, d)
  BY Zenon DEF NewFrames

(* A frame is lost. *)
LEMMA FramesTail ==
  ASSUME m2h \in Seq(Frame), m2h # <<>>, m2h' = Tail(m2h), NEW k, NEW d
  PROVE  NewFrames(k, d)
<1>1. \A i \in 1..Len(m2h') : i + 1 \in 1..Len(m2h) /\ m2h'[i] = m2h[i + 1]
  BY TailProps
<1> QED BY <1>1 DEF NewFrames

(* A frame is sent. *)
LEMMA FramesSent ==
  ASSUME TypeOK, NEW ack \in BOOLEAN, NEW k, NEW d,
         console_sendf(ack, next_sequence, NextId),
         ack => k = 1 /\ d # 0 /\ Pipe # <<>>
  PROVE  NewFrames(k, d)
<1>1. /\ m2h \in Seq(Frame) /\ dispatching \in Nat /\ NextId \in Nat
      /\ next_sequence \in 0..(SeqMod - 1)
  BY Types
<1>2. CASE m2h' = m2h
  BY <1>2, FramesKept
<1>3. CASE /\ Len(m2h') = Len(m2h) + 1
           /\ \A i \in 1..Len(m2h) : m2h'[i] = m2h[i]
           /\ m2h'[Len(m2h) + 1].ack = ack
           /\ m2h'[Len(m2h) + 1].done = NextId
           /\ m2h'[Len(m2h) + 1].src = IF ack THEN 0 ELSE dispatching
  <2> SUFFICES ASSUME NEW i \in 1..Len(m2h')
               PROVE  \/ \E j \in 1..Len(m2h) : m2h'[i] = m2h[j]
                      \/ /\ m2h'[i].src \in {0, dispatching}
                         /\ m2h'[i].ack => /\ k = 1 /\ d # 0
                                           /\ m2h'[i].done = NextId
                                           /\ Pipe # <<>>
    BY DEF NewFrames
  <2>1. Len(m2h) \in Nat
    BY <1>1
  <2>2. CASE i \in 1..Len(m2h)
    BY <1>3, <2>2
  <2>3. CASE i = Len(m2h) + 1
    <3>1. /\ m2h'[i].src \in {0, dispatching} /\ m2h'[i].done = NextId
          /\ m2h'[i].ack = ack
      BY <1>3, <2>3, Zenon
    <3> QED BY <3>1, Zenon
  <2> QED BY <1>3, <2>1, <2>2, <2>3
<1> QED BY <1>1, <1>2, <1>3, SendfFrame

(* The first d blocks of the buffer are removed. *)
LEMMA FrontRemoved ==
  ASSUME NEW r, NEW h, NEW p, NEW s, NEW q,
         Joined(r, h, p), Joined(s, h, q),
         Len(h) \in Nat, Len(s) \in Nat, NEW d \in Nat, Len(r) = Len(s) + d,
         \A i \in 1..Len(s) : s[i] = r[i + d]
  PROVE  Thinned(q, p, 1, d)
<1>2. /\ Len(q) = Len(s) + Len(h) /\ Len(p) = Len(r) + Len(h)
      /\ Len(p) \in Nat /\ Len(q) \in Nat
      /\ \A i \in 1..Len(s) : q[i] = s[i]
      /\ \A i \in 1..Len(r) : p[i] = r[i]
      /\ \A i \in 1..Len(h) : q[Len(s) + i] = h[i] /\ p[Len(r) + i] = h[i]
      /\ \A i \in 1..Len(p) : p[i].len \in Nat
  BY DEF Joined
<1>3. ASSUME NEW i \in 1..Len(q)
      PROVE  i + d \in 1..Len(p) /\ q[i] = p[i + d]
  <2>1. i + d \in 1..Len(p)
    BY <1>2
  <2>2. CASE i \in 1..Len(s)
    <3>1. i + d \in 1..Len(r)
      BY <2>2
    <3>2. q[i] = s[i] /\ s[i] = r[i + d] /\ p[i + d] = r[i + d]
      BY <1>2, <2>2, <3>1
    <3> QED BY <2>1, <3>2
  <2>3. CASE i \notin 1..Len(s)
    <3> DEFINE j == i - Len(s)
    <3>1. j \in 1..Len(h) /\ Len(s) + j = i /\ Len(r) + j = i + d
      BY <1>2, <2>3
    <3> HIDE DEF j
    <3>2. q[Len(s) + j] = h[j] /\ p[Len(r) + j] = h[j]
      BY <1>2, <3>1
    <3> QED BY <2>1, <3>1, <3>2
  <2> QED BY <2>2, <2>3
<1>4. \A i \in 1..Len(q) : Place(i, 1, d) = i + d
  BY <1>2 DEF Place
<1>5. \A i \in 1..Len(q) : p[i + d].len <= p[i + d].len
  BY <1>2, <1>3
<1> QED BY <1>3, <1>4, <1>5 DEF Thinned

(* The oldest block on the wire is lost. *)
LEMMA HeadLost ==
  ASSUME NEW r, NEW h, NEW p, NEW t, NEW q,
         h \in Seq(Block), h # <<>>, Joined(r, h, p), Joined(r, t, q),
         Len(r) \in Nat, t = Tail(h)
  PROVE  Thinned(q, p, Len(r) + 1, 1)
<1>1. /\ Len(h) \in Nat /\ Len(t) = Len(h) - 1 /\ Len(h) >= 1
      /\ \A i \in 1..Len(t) : t[i] = h[i + 1]
  BY TailProps
<1>2. /\ Len(q) = Len(r) + Len(t) /\ Len(p) = Len(r) + Len(h)
      /\ Len(p) \in Nat /\ Len(q) \in Nat
      /\ \A i \in 1..Len(r) : q[i] = r[i] /\ p[i] = r[i]
      /\ \A i \in 1..Len(t) : q[Len(r) + i] = t[i]
      /\ \A i \in 1..Len(h) : p[Len(r) + i] = h[i]
      /\ \A i \in 1..Len(p) : p[i].len \in Nat
  BY DEF Joined
<1>3. ASSUME NEW i \in 1..Len(q)
      PROVE  /\ Place(i, Len(r) + 1, 1) \in 1..Len(p)
             /\ q[i] = p[Place(i, Len(r) + 1, 1)]
  <2>1. CASE i \in 1..Len(r)
    <3>1. Place(i, Len(r) + 1, 1) = i /\ i \in 1..Len(p)
      BY <1>1, <1>2, <2>1 DEF Place
    <3> QED BY <1>2, <2>1, <3>1
  <2>2. CASE i \notin 1..Len(r)
    <3> DEFINE j == i - Len(r)
    <3>1. /\ j \in 1..Len(t) /\ j + 1 \in 1..Len(h) /\ Len(r) + j = i
          /\ Place(i, Len(r) + 1, 1) = Len(r) + (j + 1)
          /\ Len(r) + (j + 1) \in 1..Len(p)
      BY <1>1, <1>2, <2>2 DEF Place
    <3> HIDE DEF j
    <3>2. /\ q[Len(r) + j] = t[j] /\ p[Len(r) + (j + 1)] = h[j + 1]
          /\ t[j] = h[j + 1]
      BY <1>1, <1>2, <3>1
    <3> QED BY <3>1, <3>2
  <2> QED BY <2>1, <2>2
<1> QED BY <1>2, <1>3 DEF Thinned

(* Every block stays or shrinks. *)
LEMMA EachShrinks ==
  ASSUME NEW p, NEW q, Len(p) \in Nat, Len(q) = Len(p),
         \A i \in 1..Len(p) : q[i].len <= p[i].len /\ (q[i].ok => q[i] = p[i])
  PROVE  Thinned(q, p, 1, 0)
<1>1. \A i \in 1..Len(q) : Place(i, 1, 0) = i
  BY DEF Place
<1> QED BY <1>1 DEF Thinned

(* Nothing changes on the way. *)
LEMMA SamePipe ==
  ASSUME TypeOK, Pipe' = Pipe
  PROVE  Thinned(Pipe', Pipe, 1, 0)
<1>1. Len(Pipe) \in Nat /\ \A i \in 1..Len(Pipe) : Pipe[i].len \in Nat
  BY PipeTypes DEF Joined
<1>2. PICK p : p = Pipe
  OBVIOUS
<1>3. Thinned(p, p, 1, 0)
  BY <1>1, <1>2, EachShrinks
<1> QED BY <1>2, <1>3

(* Faults take blocks and frames away. *)
LEMMA WireWindow ==
  ASSUME IInv, IInv', WindowInv, WireNext
  PROVE  WindowInv'
<1>1. /\ UNCHANGED <<base, delivered, send_seq, receive_seq, sent_queue,
                     last_ack_seq, last_ack_bytes, identify, retransmit_seq,
                     receive_buf>>
      /\ dispatching' \in {0, dispatching}
  BY DEF WireNext, LoseBlock, CorruptBlock, LoseFrame, Fault, hostVars,
         mcuVars
<1>2. /\ Joined(receive_buf, h2m, Pipe) /\ Joined(receive_buf', h2m', Pipe')
      /\ TypeOK /\ TypeOK'
  BY PipeTypes, PipeTypesNext DEF IInv
<1>3. /\ receive_buf \in Seq(Block) /\ h2m \in Seq(Block)
      /\ m2h \in Seq(Frame) /\ Len(receive_buf) \in Nat
  BY <1>2, Types
<1>4. Len(receive_buf) + 1 \in Nat \ {0} /\ 1 \in Nat \ {0}
      /\ 1 \in Nat /\ 0 \in Nat
  BY <1>3
<1>5. CASE LoseBlock
  <2>1. h2m # <<>> /\ h2m' = Tail(h2m) /\ m2h' = m2h
    BY <1>5 DEF LoseBlock
  <2>2. Joined(receive_buf, h2m', Pipe')
    BY <1>1, <1>2
  <2>3. Thinned(Pipe', Pipe, Len(receive_buf) + 1, 1)
    BY <1>2, <1>3, <2>1, <2>2, HeadLost
  <2>4. NewFrames(Len(receive_buf) + 1, 1)
    BY <2>1, FramesKept
  <2> QED BY <1>1, <1>2, <1>4, <2>3, <2>4, QuietStep
<1>6. CASE CorruptBlock
  <2>1. /\ h2m # <<>> /\ m2h' = m2h
        /\ h2m' = <<Bad(Head(h2m).len)>> \o Tail(h2m)
    BY <1>6 DEF CorruptBlock
  <2>2. /\ Len(h2m) >= 1 /\ Head(h2m) = h2m[1] /\ Len(h2m) \in Nat
        /\ Tail(h2m) \in Seq(Block) /\ Len(Tail(h2m)) = Len(h2m) - 1
        /\ \A i \in 1..Len(Tail(h2m)) : Tail(h2m)[i] = h2m[i + 1]
    BY <1>3, <2>1, TailProps
  <2>3. /\ Len(h2m') = Len(h2m) /\ h2m'[1] = Bad(h2m[1].len)
        /\ \A i \in 2..Len(h2m) : h2m'[i] = h2m[i]
    <3> DEFINE t == Tail(h2m)
    <3> HIDE DEF t
    <3>1. h2m' = <<Bad(Head(h2m).len)>> \o t
      BY <2>1 DEF t
    <3>2. /\ Len(h2m') = 1 + Len(t) /\ h2m'[1] = Bad(Head(h2m).len)
          /\ \A i \in 1..Len(t) : h2m'[1 + i] = t[i]
      BY <2>2, <3>1 DEF t
    <3>3. \A i \in 2..Len(h2m) : /\ i - 1 \in 1..Len(t) /\ 1 + (i - 1) = i
                                 /\ (i - 1) + 1 = i
      BY <2>2 DEF t
    <3>4. \A i \in 2..Len(h2m) : h2m'[i] = h2m[i]
      <4> TAKE i \in 2..Len(h2m)
      <4> DEFINE j == i - 1
      <4>1. j \in 1..Len(t) /\ 1 + j = i /\ j + 1 = i
        BY <3>3
      <4> HIDE DEF j
      <4>2. h2m'[1 + j] = t[j] /\ t[j] = h2m[j + 1]
        BY <2>2, <3>2, <4>1 DEF t
      <4> QED BY <4>1, <4>2
    <3> QED BY <2>2, <3>2, <3>4 DEF t
  <2>4. ASSUME NEW i \in 1..Len(Pipe)
        PROVE  /\ Pipe'[i].len <= Pipe[i].len
               /\ Pipe'[i].ok => Pipe'[i] = Pipe[i]
    <3>1. /\ Len(Pipe) = Len(receive_buf) + Len(h2m)
          /\ Pipe[i].len \in Nat
          /\ \A j \in 1..Len(receive_buf) : Pipe[j] = receive_buf[j]
          /\ \A j \in 1..Len(h2m) : Pipe[Len(receive_buf) + j] = h2m[j]
          /\ \A j \in 1..Len(receive_buf) : Pipe'[j] = receive_buf[j]
          /\ \A j \in 1..Len(h2m) : Pipe'[Len(receive_buf) + j] = h2m'[j]
      BY <1>1, <1>2, <2>3 DEF Joined
    <3>2. CASE i \in 1..Len(receive_buf)
      BY <3>1, <3>2
    <3>3. CASE i = Len(receive_buf) + 1
      <4>1. Pipe[i] = h2m[1] /\ Pipe'[i] = Bad(h2m[1].len)
        BY <2>2, <2>3, <3>1, <3>3
      <4> QED BY <3>1, <4>1 DEF Bad
    <3>4. CASE i \notin 1..(Len(receive_buf) + 1)
      <4> DEFINE j == i - Len(receive_buf)
      <4>1. j \in 2..Len(h2m) /\ j \in 1..Len(h2m) /\ Len(receive_buf) + j = i
        BY <1>3, <2>2, <3>1, <3>4
      <4> HIDE DEF j
      <4>2. Pipe'[i] = Pipe[i]
        BY <2>3, <3>1, <4>1
      <4> QED BY <3>1, <4>2
    <3> QED BY <1>3, <3>2, <3>3, <3>4
  <2>5. Len(Pipe) \in Nat /\ Len(Pipe') = Len(Pipe)
    BY <1>1, <1>2, <2>3 DEF Joined
  <2>6. Thinned(Pipe', Pipe, 1, 0)
    BY <2>4, <2>5, EachShrinks
  <2>7. NewFrames(1, 0)
    BY <2>1, FramesKept
  <2> QED BY <1>1, <1>2, <1>4, <2>6, <2>7, QuietStep
<1>7. CASE LoseFrame
  <2>1. m2h # <<>> /\ m2h' = Tail(m2h) /\ h2m' = h2m
    BY <1>7 DEF LoseFrame
  <2>2. Pipe' = Pipe
    BY <1>1, <2>1 DEF Pipe
  <2>3. Thinned(Pipe', Pipe, 1, 0)
    BY <1>2, <2>2, SamePipe
  <2>4. NewFrames(1, 0)
    BY <1>3, <2>1, FramesTail
  <2> QED BY <1>1, <1>2, <1>4, <2>3, <2>4, QuietStep
<1> QED BY <1>5, <1>6, <1>7 DEF WireNext

(* Responses, and a command that shuts down. *)
LEMMA RespondWindow ==
  ASSUME IInv, IInv', WindowInv, Respond \/ DispatchShutdown
  PROVE  WindowInv'
<1>1. /\ UNCHANGED <<base, delivered, send_seq, receive_seq, sent_queue,
                     last_ack_seq, last_ack_bytes, identify, retransmit_seq,
                     receive_buf, h2m>>
      /\ dispatching' \in {0, dispatching}
      /\ m2h' = m2h \/ console_sendf(FALSE, next_sequence, NextId)
  BY DEF Respond, sendf, DispatchShutdown, dispatch_shutdown, hostVars,
         mcuVars, wireVars
<1>2. TypeOK /\ TypeOK'
  BY DEF IInv
<1>3. Pipe' = Pipe
  BY <1>1 DEF Pipe
<1>4. Thinned(Pipe', Pipe, 1, 0)
  BY <1>2, <1>3, SamePipe
<1>5. NewFrames(1, 0)
  <2>1. CASE m2h' = m2h
    BY <2>1, FramesKept
  <2>2. CASE console_sendf(FALSE, next_sequence, NextId)
    <3>1. FALSE \in BOOLEAN /\ (FALSE => 1 = 1 /\ 0 # 0 /\ Pipe # <<>>)
      OBVIOUS
    <3> QED BY <1>2, <2>2, <3>1, FramesSent
  <2> QED BY <1>1, <2>1, <2>2
<1>6. 1 \in Nat \ {0} /\ 0 \in Nat
  OBVIOUS
<1> QED BY <1>1, <1>2, <1>4, <1>5, <1>6, QuietStep

(* The console removes blocks that it cannot use, or that are done, and
   acknowledges what was dispatched. *)
LEMMA ConsumeWindow ==
  ASSUME IInv, IInv', WindowInv, FindGarbage \/ FindUnexpected \/ SendAck
  PROVE  WindowInv'
<1>1. /\ UNCHANGED <<base, delivered, send_seq, receive_seq, sent_queue,
                     last_ack_seq, last_ack_bytes, identify, retransmit_seq,
                     h2m>>
      /\ dispatching' \in {0, dispatching}
      /\ m2h' = m2h \/ console_sendf(TRUE, next_sequence, NextId)
  BY DEF FindGarbage, find_garbage, FindUnexpected, find_unexpected, SendAck,
         command_send_ack, hostVars
<1>2. /\ Joined(receive_buf, h2m, Pipe) /\ Joined(receive_buf', h2m', Pipe')
      /\ TypeOK /\ TypeOK'
  BY PipeTypes, PipeTypesNext DEF IInv
<1>3. /\ receive_buf \in Seq(Block) /\ h2m \in Seq(Block)
      /\ Len(receive_buf) \in Nat /\ Len(h2m) \in Nat
  BY <1>2, Types
<1>4. receive_buf # <<>>
  BY DEF FindGarbage, find_garbage, FindUnexpected, find_unexpected, SendAck,
         command_send_ack, IInv, CounterInv
<1>5. \E d \in 1..2 : /\ Len(receive_buf') \in Nat
                      /\ Len(receive_buf) = Len(receive_buf') + d
                      /\ \A i \in 1..Len(receive_buf') :
                           receive_buf'[i] = receive_buf[i + d]
  <2>1. CASE receive_buf' = Tail(receive_buf)
    BY <1>3, <1>4, <2>1, TailProps
  <2>2. CASE FindGarbage
    <3>1. PICK d \in 1..2 : /\ d <= Len(receive_buf)
                            /\ receive_buf' =
                                 SubSeq(receive_buf, d + 1, Len(receive_buf))
      BY <2>2 DEF FindGarbage, find_garbage
    <3>2. d \in 0..Len(receive_buf)
      BY <1>3, <3>1
    <3>3. /\ Len(receive_buf') = Len(receive_buf) - d
          /\ \A i \in 1..(Len(receive_buf) - d) :
               receive_buf'[i] = receive_buf[i + d]
      BY <1>3, <3>1, <3>2, RestProps
    <3> QED BY <1>3, <3>2, <3>3
  <2> QED BY <2>1, <2>2 DEF FindUnexpected, find_unexpected, SendAck,
             command_send_ack
<1>6. PICK d \in 1..2 : /\ Len(receive_buf') \in Nat
                        /\ Len(receive_buf) = Len(receive_buf') + d
                        /\ \A i \in 1..Len(receive_buf') :
                             receive_buf'[i] = receive_buf[i + d]
  BY <1>5
<1>7. d \in Nat /\ d # 0 /\ 1 \in Nat \ {0}
  OBVIOUS
<1>8. Thinned(Pipe', Pipe, 1, d)
  <2>1. Joined(receive_buf', h2m, Pipe')
    BY <1>1, <1>2
  <2> QED BY <1>2, <1>3, <1>6, <1>7, <2>1, FrontRemoved
<1>9. NewFrames(1, d)
  <2>1. CASE m2h' = m2h
    BY <2>1, FramesKept
  <2>2. CASE console_sendf(TRUE, next_sequence, NextId)
    <3>1. Pipe # <<>>
      <4>1. Len(Pipe) = Len(receive_buf) + Len(h2m) /\ Len(receive_buf) > 0
        BY <1>2, <1>3, <1>4 DEF Joined
      <4>2. Len(Pipe) # 0
        BY <1>3, <4>1
      <4> QED BY <4>2
    <3>2. PICK ack \in BOOLEAN : ack = TRUE
      OBVIOUS
    <3>3. console_sendf(ack, next_sequence, NextId)
      BY <2>2, <3>2
    <3> HIDE <3>2
    <3> QED BY <1>2, <1>7, <3>1, <3>3, FramesSent
  <2> QED BY <1>1, <2>1, <2>2
<1> QED BY <1>1, <1>2, <1>7, <1>8, <1>9, QuietStep

(* The oldest block on the wire becomes the youngest in the buffer. *)
LEMMA HeadMoved ==
  ASSUME NEW r \in Seq(Block), NEW h \in Seq(Block), h # <<>>, NEW p, NEW q,
         NEW s, NEW t, NEW b \in Block,
         Joined(r, h, p), Joined(s, t, q),
         s = Append(r, b), t = Tail(h),
         b.len <= h[1].len, b.ok => b = h[1]
  PROVE  Thinned(q, p, 1, 0)
<1>1. /\ Len(s) = Len(r) + 1 /\ s[Len(r) + 1] = b
      /\ \A i \in 1..Len(r) : s[i] = r[i]
  BY AppendProps
<1>2. /\ Len(t) = Len(h) - 1 /\ Len(h) >= 1
      /\ \A i \in 1..Len(t) : t[i] = h[i + 1]
  BY TailProps
<1>3. Len(r) \in Nat /\ Len(h) \in Nat
  OBVIOUS
<1>4. /\ Len(q) = Len(s) + Len(t) /\ Len(p) = Len(r) + Len(h)
      /\ Len(p) \in Nat
      /\ \A i \in 1..Len(s) : q[i] = s[i]
      /\ \A i \in 1..Len(t) : q[Len(s) + i] = t[i]
      /\ \A i \in 1..Len(r) : p[i] = r[i]
      /\ \A i \in 1..Len(h) : p[Len(r) + i] = h[i]
      /\ \A i \in 1..Len(p) : p[i].len \in Nat
  BY DEF Joined
<1>5. PICK m \in Nat, n \in Nat : m = Len(r) /\ n = Len(h)
  BY <1>3
<1>6. /\ Len(s) = m + 1 /\ Len(t) = n - 1 /\ n >= 1
      /\ Len(p) = m + n /\ Len(q) = m + n
  BY <1>1, <1>2, <1>4, <1>5
<1>7. ASSUME NEW i \in 1..Len(p)
      PROVE  q[i].len <= p[i].len /\ (q[i].ok => q[i] = p[i])
  <2>1. p[i].len \in Nat
    BY <1>4
  <2>2. CASE i \in 1..m
    <3>1. i \in 1..Len(s)
      BY <1>6, <2>2
    <3>2. q[i] = p[i]
      BY <1>1, <1>4, <1>5, <2>2, <3>1
    <3> QED BY <2>1, <3>2
  <2>3. CASE i = m + 1
    <3>1. m + 1 \in 1..Len(s) /\ 1 \in 1..Len(h)
      BY <1>5, <1>6
    <3>2. q[i] = b /\ p[i] = h[1]
      BY <1>1, <1>4, <1>5, <2>3, <3>1
    <3> QED BY <3>2
  <2>4. CASE i \notin 1..(m + 1)
    <3>1. PICK j \in Int : j = i - (m + 1)
      OBVIOUS
    <3>2. /\ j \in 1..(n - 1) /\ j + 1 \in 1..n
          /\ (m + 1) + j = i /\ m + (j + 1) = i
      BY <1>6, <2>4, <3>1
    <3>3. q[(m + 1) + j] = t[j]
      BY <1>4, <1>6, <3>2
    <3>4. t[j] = h[j + 1] /\ p[m + (j + 1)] = h[j + 1]
      BY <1>2, <1>4, <1>5, <1>6, <3>2
    <3>5. q[i] = p[i]
      BY <3>2, <3>3, <3>4
    <3> QED BY <2>1, <3>5
  <2> QED BY <1>6, <2>2, <2>3, <2>4
<1> QED BY <1>4, <1>6, <1>7, EachShrinks

(* The receive interrupt takes a block from the wire. *)
LEMMA ReceiveWindow ==
  ASSUME IInv, IInv', WindowInv, ReceiveData
  PROVE  WindowInv'
<1>1. /\ UNCHANGED <<base, delivered, send_seq, receive_seq, sent_queue,
                     last_ack_seq, last_ack_bytes, identify, retransmit_seq,
                     m2h>>
      /\ dispatching' \in {0, dispatching}
      /\ h2m # <<>> /\ h2m' = Tail(h2m)
  BY DEF ReceiveData, canserial_process_data, hostVars
<1>2. /\ Joined(receive_buf, h2m, Pipe) /\ Joined(receive_buf', h2m', Pipe')
      /\ TypeOK /\ TypeOK'
  BY PipeTypes, PipeTypesNext DEF IInv
<1>3. /\ receive_buf \in Seq(Block) /\ h2m \in Seq(Block)
      /\ Len(receive_buf) \in Nat
      /\ Head(h2m) = h2m[1] /\ h2m[1] \in Block
  BY <1>1, <1>2, Types, TailProps
<1>4. h2m[1].len \in Nat
  BY <1>3 DEF Block
<1>5. CASE receive_buf' = receive_buf
  <2>1. Joined(receive_buf, h2m', Pipe')
    BY <1>2, <1>5
  <2>2. Thinned(Pipe', Pipe, Len(receive_buf) + 1, 1)
    BY <1>1, <1>2, <1>3, <2>1, HeadLost
  <2>3. NewFrames(Len(receive_buf) + 1, 1)
    BY <1>1, FramesKept
  <2>4. Len(receive_buf) + 1 \in Nat \ {0} /\ 1 \in Nat
    BY <1>3
  <2> QED BY <1>1, <1>2, <2>2, <2>3, <2>4, QuietStep
<1>6. ASSUME NEW b \in Block, receive_buf' = Append(receive_buf, b),
             b.len <= h2m[1].len, b.ok => b = h2m[1]
      PROVE  WindowInv'
  <2>1. Thinned(Pipe', Pipe, 1, 0)
    BY <1>1, <1>2, <1>3, <1>6, HeadMoved
  <2>2. NewFrames(1, 0)
    BY <1>1, FramesKept
  <2>3. 1 \in Nat \ {0} /\ 0 \in Nat
    OBVIOUS
  <2> QED BY <1>1, <1>2, <2>1, <2>2, <2>3, QuietStep
<1>7. CASE receive_buf' = Append(receive_buf, Head(h2m))
  BY <1>3, <1>4, <1>6, <1>7
<1>8. ASSUME NEW part \in 1..Head(h2m).len,
             receive_buf' = Append(receive_buf, Bad(part))
      PROVE  WindowInv'
  <2>1. /\ Bad(part) \in Block /\ ~Bad(part).ok
        /\ Bad(part).len <= h2m[1].len
    BY <1>3, <1>4, SeqAssumption DEF Bad, Block
  <2> QED BY <1>6, <1>8, <2>1
<1> QED BY <1>5, <1>7, <1>8 DEF ReceiveData, canserial_process_data

(* The block that is dispatched has a number of its own, so every block
   behind it has a larger one. *)
LEMMA DispatchWindow ==
  ASSUME IInv, IInv', WindowInv, Dispatch
  PROVE  WindowInv'
<1> SUFFICES ASSUME retransmit_seq' = 0
             PROVE  NumbersInv' /\ SessionInv' /\ Bytes(Pipe') <= RcvWindow
  BY DEF WindowInv
<1> DEFINE b == Head(receive_buf)
<1>1. /\ UNCHANGED <<base, send_seq, receive_seq, sent_queue, last_ack_seq,
                     last_ack_bytes, identify, retransmit_seq, receive_buf,
                     h2m, m2h>>
      /\ receive_buf # <<>> /\ b.ok /\ b.seq = next_sequence
      /\ dispatching' = b.id /\ delivered' = Append(delivered, b.id)
  BY DEF Dispatch, command_dispatch, hostVars, wireVars
<1>2. NumbersInv /\ SessionInv /\ Bytes(Pipe) <= RcvWindow
  BY <1>1 DEF WindowInv
<1>3. /\ b.id = NextId /\ Synced /\ NextId < send_seq
  BY <1>1, DispatchedIsNext
<1>4. /\ Joined(receive_buf, h2m, Pipe) /\ TypeOK
      /\ receive_buf \in Seq(Block) /\ Len(receive_buf) >= 1
      /\ b = receive_buf[1] /\ b \in Block
      /\ NextId \in Nat /\ base \in Nat /\ base <= NextId /\ send_seq \in Nat
      /\ delivered \in Seq(Nat)
  BY <1>1, PipeTypes, Types, TailProps DEF IInv
<1>5. Pipe' = Pipe /\ (Synced' <=> Synced) /\ Limit' = Limit
  BY <1>1 DEF Pipe, Synced, Limit
<1>6. NextId' = NextId + 1
  <2>1. b.id \in Nat
    BY <1>3, <1>4
  <2>2. Len(delivered') = Len(delivered) + 1
    BY <1>1, <1>4, <2>1, AppendProps
  <2> QED BY <1>1, <1>4, <2>2 DEF NextId
<1>7. PICK n \in [1..Len(Pipe) -> (NextId - 1)..(Limit - 1)] : Numbers(n)
  BY <1>2 DEF NumbersInv
<1>8. /\ \A i, j \in 1..Len(Pipe) : i < j => n[i] < n[j]
      /\ \A i \in 1..Len(Pipe) : NumberOK(Pipe[i], n[i])
  BY <1>7 DEF Numbers
<1>9. n \in [1..Len(Pipe) -> (NextId' - 1)..(Limit - 1)]
  <2>1. Pipe[1] = b /\ 1 \in 1..Len(Pipe) /\ Len(Pipe) \in Nat
    BY <1>4 DEF Joined
  <2>2. n[1] = NextId
    BY <1>1, <1>3, <1>4, <1>8, <2>1 DEF NumberOK
  <2>3. \A i \in 1..Len(Pipe) : /\ n[i] \in (NextId - 1)..(Limit - 1)
                                /\ i # 1 => n[1] < n[i]
    BY <1>7, <1>8, <2>1
  <2>4. Limit \in Nat
    BY <1>4 DEF Limit
  <2>5. \A i \in 1..Len(Pipe) : n[i] \in (NextId' - 1)..(Limit - 1)
    BY <1>4, <1>6, <2>2, <2>3, <2>4
  <2> QED BY <1>7, <2>5
<1>10. Numbers(n)'
  <2>1. \A x : LenOf(x)' = LenOf(x)
    BY <1>1 DEF LenOf
  <2>2. \A i \in 1..Len(Pipe) : NumberOK(Pipe[i], n[i])'
    BY <1>1, <1>5, <1>8, <2>1 DEF NumberOK
  <2> QED BY <1>5, <1>8, <2>2 DEF Numbers
<1>11. NumbersInv'
  BY <1>5, <1>9, <1>10 DEF NumbersInv
<1>12. SessionInv'
  <2>1. dispatching' # 0 => base' <= dispatching'
    BY <1>1, <1>3, <1>4
  <2> QED BY <1>1, <1>2, <1>5, <2>1 DEF SessionInv
<1> QED BY <1>2, <1>5, <1>11, <1>12

(* What the host keeps of its queue after an acknowledgement. *)
LEMMA AckedQueue ==
  ASSUME IInv, m2h # <<>>, NEW d, d = Head(m2h).done, d # receive_seq,
         update_receive_seq(d)
  PROVE  \/ /\ d - receive_seq \in 1..Len(sent_queue)
            /\ Len(sent_queue') = Len(sent_queue) - (d - receive_seq)
            /\ \A i \in 1..Len(sent_queue') :
                 sent_queue'[i] = sent_queue[i + (d - receive_seq)]
            /\ last_ack_bytes' = sent_queue[d - receive_seq].len
         \/ ~Synced /\ sent_queue' = <<>> /\ last_ack_bytes' = last_ack_bytes
<1>1. /\ d \in Nat /\ receive_seq <= d
      /\ Synced => d <= send_seq
  BY RseqIsDone
<1>2. /\ send_seq \in Nat /\ receive_seq \in Nat /\ sent_queue \in Seq(Block)
      /\ Len(sent_queue) = send_seq - receive_seq
  BY Types DEF IInv, SentQueueComplete
<1>3. PICK a \in Nat : a = d - receive_seq /\ a >= 1
  BY <1>1, <1>2
<1>4. CASE /\ a <= Len(sent_queue)
           /\ sent_queue' = SubSeq(sent_queue, a + 1, Len(sent_queue))
           /\ last_ack_bytes' = sent_queue[a].len
  <2>1. a \in 0..Len(sent_queue) /\ a \in 1..Len(sent_queue)
    BY <1>2, <1>3, <1>4
  <2>2. /\ Len(sent_queue') = Len(sent_queue) - a
        /\ \A i \in 1..(Len(sent_queue) - a) :
             sent_queue'[i] = sent_queue[i + a]
    BY <1>2, <1>4, <2>1, RestProps
  <2> QED BY <1>3, <1>4, <2>1, <2>2
<1>5. CASE /\ a > Len(sent_queue) /\ sent_queue' = <<>>
           /\ last_ack_bytes' = last_ack_bytes
  BY <1>1, <1>2, <1>3, <1>5
<1> QED BY <1>3, <1>4, <1>5 DEF update_receive_seq

(* What handle_message does to the state that the window depends on. *)
LEMMA HandleDetails ==
  ASSUME IInv, HandleMessage
  PROVE  /\ m2h # <<>> /\ m2h' = Tail(m2h)
         /\ UNCHANGED <<h2m, receive_buf, base, delivered, dispatching,
                        retransmit_seq>>
         /\ IF Head(m2h).done # receive_seq
            THEN update_receive_seq(Head(m2h).done)
            ELSE UNCHANGED <<sent_queue, last_ack_bytes>>
         /\ \/ last_ack_seq' = last_ack_seq
            \/ Head(m2h).ack /\ last_ack_seq' = Head(m2h).done
         /\ \/ identify' = identify
            \/ /\ identify = "asked" /\ Head(m2h).src # 0
               /\ identify' = "answered"
<1> DEFINE f == Head(m2h)
           d == f.done
<1>1. m2h # <<>> /\ m2h' = Tail(m2h)
      /\ UNCHANGED <<h2m, receive_buf, base, delivered, dispatching,
                     retransmit_seq>>
  BY DEF HandleMessage, handle_message, mcuVars
<1>2. /\ Rseq(f) = d /\ d \in Nat /\ Synced => d <= send_seq
  BY <1>1, RseqIsDone
<1>3. send_seq \in Nat
  BY Types DEF IInv
<1> HIDE DEF d
<1>4. d <= send_seq \/ receive_seq = 1
  BY <1>1, RseqIsDone DEF IInv, PositionsInv, d, f
<1>5. ~(d > send_seq /\ receive_seq # 1)
  BY <1>1, <1>3, <1>4, RseqIsDone DEF d, f
<1>6. /\ IF d # receive_seq THEN update_receive_seq(d)
         ELSE UNCHANGED <<receive_seq, send_seq, sent_queue, last_ack_bytes>>
      /\ last_ack_seq' = IF f.ack /\ last_ack_seq < d THEN d ELSE last_ack_seq
      /\ identify' = IF identify = "asked" /\ f.src # 0
                     THEN "answered" ELSE identify
  <2>1. Rseq(f) = d
    BY <1>1, RseqIsDone DEF d, f
  <2> QED BY <1>5, <2>1 DEF HandleMessage, handle_message, f
<1>7. \/ last_ack_seq' = last_ack_seq
      \/ f.ack /\ last_ack_seq' = d
  BY <1>6
<1>8. \/ identify' = identify
      \/ identify = "asked" /\ f.src # 0 /\ identify' = "answered"
  BY <1>6
<1> QED BY <1>1, <1>6, <1>7, <1>8 DEF d, f

(* The length that a number stands for survives the acknowledgement. *)
LEMMA LenOfKept ==
  ASSUME IInv, HandleMessage, Synced,
         NEW x \in Int, base <= x, NextId - 1 <= x, x < Limit
  PROVE  LenOf(x)' = LenOf(x)
<1> DEFINE d == Head(m2h).done
<1>1. /\ receive_seq' = d /\ d \in Nat /\ receive_seq <= d /\ d <= NextId
  BY HandleMessageProps
<1>2. receive_seq \in Nat /\ NextId \in Nat /\ Len(sent_queue) \in Nat
  BY Types DEF IInv
<1> HIDE DEF d
<1>3. receive_seq <= x => x - receive_seq + 1 \in 1..Len(sent_queue)
  BY LenOfType
<1>4. CASE d = receive_seq
  <2>1. UNCHANGED <<sent_queue, last_ack_bytes>>
    BY <1>4, HandleDetails DEF d
  <2> QED BY <1>1, <1>4, <2>1 DEF LenOf
<1>5. CASE d # receive_seq
  <2>1. update_receive_seq(d) /\ m2h # <<>>
    BY <1>5, HandleDetails DEF d
  <2>2. /\ d - receive_seq \in 1..Len(sent_queue)
        /\ Len(sent_queue') = Len(sent_queue) - (d - receive_seq)
        /\ \A i \in 1..Len(sent_queue') :
             sent_queue'[i] = sent_queue[i + (d - receive_seq)]
        /\ last_ack_bytes' = sent_queue[d - receive_seq].len
    BY <1>5, <2>1, AckedQueue DEF d
  <2>3. x >= receive_seq /\ d - 1 <= x
    BY <1>1, <1>2, <1>5
  <2>4. LenOf(x) = sent_queue[x - receive_seq + 1].len
    BY <1>2, <2>3 DEF LenOf
  <2>5. CASE x = d - 1
    <3>1. LenOf(x)' = last_ack_bytes'
      BY <1>1, <2>5 DEF LenOf
    <3>2. x - receive_seq + 1 = d - receive_seq
      BY <1>1, <1>2, <2>5
    <3> QED BY <2>2, <2>4, <3>1, <3>2
  <2>6. CASE x >= d
    <3>1. LenOf(x)' = sent_queue'[x - d + 1].len
      BY <1>1, <2>6 DEF LenOf
    <3>2. PICK i \in Int : i = x - d + 1
      BY <1>1
    <3>3. /\ i \in 1..Len(sent_queue')
          /\ i + (d - receive_seq) = x - receive_seq + 1
      BY <1>1, <1>2, <1>3, <2>2, <2>3, <2>6, <3>2
    <3> QED BY <2>2, <2>4, <3>1, <3>2, <3>3
  <2> QED BY <1>1, <2>3, <2>5, <2>6
<1> QED BY <1>4, <1>5

(* The host never waits for more than it may build. *)
LEMMA HandleLimit ==
  ASSUME IInv, HandleMessage
  PROVE  /\ Synced' /\ Limit' = Limit /\ NextId' = NextId
         /\ Limit \in Nat /\ base' = base /\ base <= receive_seq'
<1>1. /\ base <= receive_seq' /\ base' = base /\ delivered' = delivered
      /\ send_seq' \in Nat /\ NextId <= send_seq'
      /\ send_seq' = send_seq \/ (~Synced /\ send_seq' = base)
  BY HandleMessageProps, HandleDetails
<1>2. /\ send_seq \in Nat /\ receive_seq \in Nat /\ base \in Nat
  BY Types DEF IInv
<1>3. Synced' /\ NextId' = NextId
  BY <1>1 DEF Synced, NextId
<1>4. CASE Synced
  BY <1>1, <1>2, <1>3, <1>4 DEF Limit
<1>5. CASE ~Synced
  <2>1. receive_seq = 1 /\ NextId = base /\ send_seq <= 2 /\ 1 < base
    BY <1>2, <1>5 DEF IInv, PositionsInv, Synced
  <2>2. send_seq' = base
    BY <1>1, <1>2, <2>1
  <2> QED BY <1>1, <1>2, <1>3, <1>5, <2>2 DEF Limit
<1> QED BY <1>1, <1>3, <1>4, <1>5

(* The host learns from a frame how far the micro-controller is. *)
LEMMA HandleNumbers ==
  ASSUME IInv, HandleMessage, NumbersInv
  PROVE  NumbersInv'
<1>1. PICK n \in [1..Len(Pipe) -> (NextId - 1)..(Limit - 1)] : Numbers(n)
  BY DEF NumbersInv
<1>2. /\ m2h # <<>> /\ m2h' = Tail(m2h) /\ Pipe' = Pipe
      /\ last_ack_seq' = last_ack_seq
           \/ (Head(m2h).ack /\ last_ack_seq' = Head(m2h).done)
  BY HandleDetails DEF Pipe
<1>3. /\ Synced' /\ Limit' = Limit /\ NextId' = NextId /\ Limit \in Nat
      /\ base' = base
  BY HandleLimit
<1>4. /\ Len(m2h) >= 1 /\ Head(m2h) = m2h[1] /\ Len(m2h) \in Nat
      /\ \A i \in 1..Len(m2h') : m2h'[i] = m2h[i + 1] /\ i + 1 \in 1..Len(m2h)
  BY <1>2, Types, TailProps DEF IInv
<1>5. NextId \in Nat /\ base \in Nat
  BY Types DEF IInv
<1>6. ASSUME NEW i \in 1..Len(Pipe)
      PROVE  NumberOK(Pipe[i], n[i])'
  <2>1. PICK x \in Int : x = n[i] /\ NextId - 1 <= x /\ x < Limit
    BY <1>1, <1>3, <1>5
  <2>2. PICK b : b = Pipe[i]
    OBVIOUS
  <2>3. NumberOK(b, x)
    BY <1>1, <2>1, <2>2 DEF Numbers
  <2>4. last_ack_seq' <= x
    <3>1. 1 \in 1..Len(m2h)
      BY <1>4
    <3> QED BY <1>2, <1>4, <2>3, <3>1 DEF NumberOK
  <2>5. \A j \in 1..Len(m2h') : m2h'[j].ack => m2h'[j].done <= x
    BY <1>4, <2>3 DEF NumberOK
  <2>6. base <= x => LenOf(x)' = LenOf(x)
    <3> SUFFICES ASSUME base <= x PROVE LenOf(x)' = LenOf(x)
      OBVIOUS
    <3>1. Synced
      BY <1>5, <2>1 DEF Limit
    <3> QED BY <2>1, <3>1, LenOfKept
  <2>7. x < base \/ b.len <= LenOf(x)'
    BY <1>5, <2>1, <2>3, <2>6 DEF NumberOK
  <2>8. NumberOK(b, x)'
    BY <1>3, <2>3, <2>4, <2>5, <2>7 DEF NumberOK
  <2> QED BY <1>2, <2>1, <2>2, <2>8
<1>7. Numbers(n)'
  BY <1>1, <1>2, <1>6 DEF Numbers
<1> QED BY <1>1, <1>2, <1>3, <1>7 DEF NumbersInv

(* What it learns starts and ends the set up of the session. *)
LEMMA HandleSession ==
  ASSUME IInv, ResponsesInv, HandleMessage, SessionInv
  PROVE  SessionInv'
<1> DEFINE f == Head(m2h)
<1>1. /\ m2h # <<>> /\ m2h' = Tail(m2h) /\ Pipe' = Pipe
      /\ dispatching' = dispatching
      /\ IF f.done # receive_seq THEN update_receive_seq(f.done)
         ELSE UNCHANGED <<sent_queue, last_ack_bytes>>
      /\ last_ack_seq' = last_ack_seq
           \/ (f.ack /\ last_ack_seq' = f.done)
      /\ identify' = identify
           \/ (identify = "asked" /\ f.src # 0 /\ identify' = "answered")
  BY HandleDetails DEF Pipe
<1>2. /\ Synced' /\ base' = base /\ receive_seq' = f.done
      /\ receive_seq <= receive_seq' /\ f.done \in Nat
  BY HandleLimit, HandleMessageProps
<1>3. /\ Len(m2h) >= 1 /\ f = m2h[1] /\ Len(m2h) \in Nat
      /\ \A i \in 1..Len(m2h') : m2h'[i] = m2h[i + 1] /\ i + 1 \in 1..Len(m2h)
  BY <1>1, Types, TailProps DEF IInv
<1>4. /\ receive_seq \in Nat /\ base \in Nat /\ last_ack_seq \in Nat
      /\ 1 \in 1..Len(m2h) /\ f.src \in Nat
  BY SMTT(30), <1>3, Types, ResponsesTypes DEF IInv, TypeOK, HostTypeOK
<1>5. identify' # "done" => \A i \in 1..Len(Pipe') : Pipe'[i].len <= ProbeMax
  BY <1>1 DEF SessionInv
<1>6. identify' # "asked" => base' < receive_seq'
  <2>1. CASE identify' = identify
    BY <1>2, <1>4, <2>1 DEF SessionInv
  <2>2. CASE f.src # 0
    <3>1. f.done = f.src + 1 /\ base <= f.src
      BY <1>3, <1>4, <2>2 DEF ResponsesInv, SessionInv
    <3> QED BY <1>2, <1>4, <3>1
  <2> QED BY <1>1, <2>1, <2>2
<1>7. /\ dispatching' # 0 => base' <= dispatching'
      /\ \A i \in 1..Len(m2h') : m2h'[i].src # 0 => base' <= m2h'[i].src
  BY <1>1, <1>2, <1>3 DEF SessionInv
<1>8. last_ack_seq' <= receive_seq'
  BY <1>1, <1>2, <1>4 DEF SessionInv
<1>9. /\ \A i \in 1..Len(sent_queue') : sent_queue'[i].len <= MsgMax
      /\ last_ack_bytes' <= MsgMax
  <2> DEFINE d == f.done
  <2>1. CASE d = receive_seq
    BY <1>1, <2>1 DEF SessionInv
  <2>2. CASE d # receive_seq
    <3>1. update_receive_seq(d)
      BY <1>1, <2>2
    <3>2. CASE sent_queue' = <<>> /\ last_ack_bytes' = last_ack_bytes
      BY <3>2 DEF SessionInv
    <3>3. CASE /\ d - receive_seq \in 1..Len(sent_queue)
               /\ Len(sent_queue') = Len(sent_queue) - (d - receive_seq)
               /\ \A i \in 1..Len(sent_queue') :
                    sent_queue'[i] = sent_queue[i + (d - receive_seq)]
               /\ last_ack_bytes' = sent_queue[d - receive_seq].len
      <4> HIDE DEF d
      <4>1. Len(sent_queue) \in Nat
        BY Types DEF IInv
      <4>2. PICK a \in 1..Len(sent_queue) : a = d - receive_seq
        BY <3>3
      <4>3. \A i \in 1..Len(sent_queue') : i + a \in 1..Len(sent_queue)
        BY <3>3, <4>1, <4>2
      <4> QED BY <3>3, <4>2, <4>3 DEF SessionInv
    <3> QED BY <1>1, <2>2, <3>1, <3>2, <3>3, AckedQueue
  <2> QED BY <2>1, <2>2
<1> QED BY <1>2, <1>5, <1>6, <1>7, <1>8, <1>9 DEF SessionInv

(* handle_message keeps the window. *)
LEMMA HandleWindow ==
  ASSUME IInv, ResponsesInv, WindowInv, HandleMessage
  PROVE  WindowInv'
<1>1. Pipe' = Pipe /\ retransmit_seq' = retransmit_seq
  BY HandleDetails DEF Pipe
<1> QED BY <1>1, HandleNumbers, HandleSession DEF WindowInv

(* The block of the given length that command_event builds. *)
BlockTo(len) == [ok |-> TRUE, sync |-> FALSE, id |-> send_seq,
                 seq |-> send_seq % SeqMod, len |-> len]

(* What the write of one block adds to the wire. *)
LEMMA WriteOne ==
  ASSUME TypeOK, NEW b \in Block, do_write(<<b>>)
  PROVE  \/ h2m' = h2m
         \/ \E c \in Block : /\ h2m' = Append(h2m, c) /\ c.len = b.len
                             /\ c.ok => c = b
<1>1. h2m \in Seq(Block) /\ b.len \in Nat
  BY Types DEF Block
<1>2. /\ h2m \o SubSeq(<<b>>, 1, 0) = h2m
      /\ h2m \o SubSeq(<<b>>, 1, 1) = Append(h2m, b)
  BY <1>1
<1>3. Bad(b.len) \in Block /\ Bad(b.len).len = b.len /\ ~Bad(b.len).ok
  BY <1>1, SeqAssumption DEF Bad, Block
<1> DEFINE room == TxQueueLen - Len(h2m)
           n    == IF Len(<<b>>) <= room THEN Len(<<b>>)
                   ELSE IF room > 0 THEN room ELSE 0
           out  == h2m \o SubSeq(<<b>>, 1, n)
<1>4. n = 0 \/ n = 1
  BY <1>1, WireAssumption
<1>5. \/ h2m' = out
      \/ n < 1 /\ h2m' = Append(out, Bad(<<b>>[n + 1].len))
  BY DEF do_write
<1> HIDE DEF n
<1>6. CASE n = 1
  BY <1>2, <1>5, <1>6
<1>7. CASE n = 0
  <2>1. <<b>>[n + 1] = b /\ out = h2m
    BY <1>2, <1>7
  <2> HIDE DEF out
  <2> QED BY <1>3, <1>5, <2>1
<1> QED BY <1>4, <1>6, <1>7

(* What command_event does to the state that the window depends on. *)
LEMMA CommandDetails ==
  ASSUME IInv, WindowInv, retransmit_seq = 0, CommandEvent
  PROVE  \E len \in 1..MsgMax :
           /\ check_send_command
           /\ send_seq' = send_seq + 1
           /\ BlockTo(len) \in Block
           /\ sent_queue' = Append(sent_queue, BlockTo(len))
           /\ UNCHANGED <<base, delivered, receive_seq, last_ack_seq,
                          last_ack_bytes, identify, retransmit_seq, m2h,
                          receive_buf, dispatching>>
           /\ identify # "done" => len <= ProbeMax
           /\ ~Synced => send_seq = 1 /\ receive_seq = 1 /\ Pipe = <<>>
           /\ \/ Pipe' = Pipe
              \/ \E c \in Block : /\ Pipe' = Append(Pipe, c) /\ c.len = len
                                  /\ c.ok => c = BlockTo(len)
<1>1. PICK len \in Lens, notify \in Notify : command_event(len, notify)
  BY DEF CommandEvent
<1>2. len \in 1..MsgMax /\ len \in Nat
  BY <1>1, SizeAssumption
<1>3. /\ TypeOK /\ send_seq \in Nat \ {0} /\ SeqMod \in Nat \ {0}
      /\ receive_buf \in Seq(Block) /\ h2m \in Seq(Block)
  BY Types DEF IInv
<1> DEFINE b == BlockTo(len)
<1>4. b \in Block /\ b.len = len
  <2>1. send_seq % SeqMod \in 0..(SeqMod - 1)
    BY <1>3, ModFact
  <2> QED BY <1>2, <1>3, <2>1 DEF Block, BlockTo
<1>5. /\ check_send_command /\ IdentifyDiscipline(len, notify)
      /\ send_seq' = send_seq + 1
      /\ sent_queue' = Append(sent_queue, b)
      /\ do_write(<<b>>)
      /\ UNCHANGED <<base, delivered, receive_seq, last_ack_seq,
                     last_ack_bytes, identify, retransmit_seq, m2h,
                     receive_buf, dispatching>>
  BY <1>1 DEF CommandEvent, command_event, mcuVars, BlockTo
<1>6. identify # "done" => notify_queue = <<>> /\ len <= ProbeMax
  BY <1>5 DEF IdentifyDiscipline
<1>7. ~Synced => send_seq = 1 /\ receive_seq = 1 /\ Pipe = <<>>
  <2> SUFFICES ASSUME ~Synced
               PROVE  send_seq = 1 /\ receive_seq = 1 /\ Pipe = <<>>
    OBVIOUS
  <2>1. /\ receive_seq = 1 /\ identify = "asked" /\ send_seq <= 2
        /\ send_seq = 2 => notify_queue # <<>>
    BY DEF IInv, PositionsInv
  <2>2. send_seq = 1
    BY <1>3, <1>6, <2>1
  <2> QED BY <2>1, <2>2 DEF WindowInv, SessionInv
<1> HIDE DEF b
<1>8. \/ Pipe' = Pipe
      \/ \E c \in Block : /\ Pipe' = Append(Pipe, c) /\ c.len = len
                          /\ c.ok => c = b
  <2>1. CASE h2m' = h2m
    BY <1>5, <2>1 DEF Pipe
  <2>2. ASSUME NEW c \in Block, h2m' = Append(h2m, c)
        PROVE  Pipe' = Append(Pipe, c)
    <3>1. receive_buf \o Append(h2m, c) = Append(receive_buf \o h2m, c)
      BY <1>3
    <3> QED BY <1>5, <2>2, <3>1 DEF Pipe
  <2> QED BY <1>3, <1>4, <1>5, <2>1, <2>2, WriteOne
<1> QED BY <1>2, <1>4, <1>5, <1>6, <1>7, <1>8 DEF b

(* The new block gets the number that it carries, or when the host does
   not know the micro-controller's numbers yet, the one before them. *)
LEMMA CommandNumbers ==
  ASSUME IInv, SessionInv, NumbersInv, NEW len \in 1..MsgMax,
         send_seq' = send_seq + 1,
         BlockTo(len) \in Block,
         sent_queue' = Append(sent_queue, BlockTo(len)),
         UNCHANGED <<base, delivered, receive_seq, last_ack_seq,
                     last_ack_bytes, m2h>>,
         ~Synced => send_seq = 1 /\ receive_seq = 1 /\ Pipe = <<>>,
         \/ Pipe' = Pipe
         \/ \E c \in Block : /\ Pipe' = Append(Pipe, c) /\ c.len = len
                             /\ c.ok => c = BlockTo(len)
  PROVE  NumbersInv'
<1>1. PICK n \in [1..Len(Pipe) -> (NextId - 1)..(Limit - 1)] : Numbers(n)
  BY DEF NumbersInv
<1>2. /\ send_seq \in Nat \ {0} /\ receive_seq \in Nat \ {0}
      /\ base \in Nat \ {0} /\ NextId \in Nat /\ base <= NextId
      /\ sent_queue \in Seq(Block) /\ Len(sent_queue) \in Nat
      /\ Len(sent_queue) = send_seq - receive_seq
      /\ Len(Pipe) \in Nat /\ Pipe \in Seq(Block)
      /\ last_ack_seq \in Nat
  <2>1. TypeOK /\ Len(sent_queue) = send_seq - receive_seq
    BY DEF IInv, SentQueueComplete
  <2>2. Len(Pipe) \in Nat /\ Pipe \in Seq(Block)
    BY <2>1, PipeTypes DEF Joined
  <2>3. last_ack_seq \in Nat
    BY <2>1 DEF TypeOK, HostTypeOK
  <2>4. /\ send_seq \in Nat \ {0} /\ receive_seq \in Nat \ {0}
        /\ base \in Nat \ {0} /\ NextId \in Nat /\ base <= NextId
        /\ sent_queue \in Seq(Block)
    <3>1. base \in 1..SeqMod /\ SeqMod \in Nat
      BY <2>1, Types
    <3>2. base \in Nat \ {0}
      BY <3>1
    <3> QED BY <2>1, <3>2, Types, Zenon
  <2> QED BY <2>1, <2>2, <2>3, <2>4
<1>3. /\ NextId' = NextId /\ (Synced' <=> Synced)
      /\ Limit' = IF Synced THEN send_seq + 1 ELSE base
      /\ Limit = IF Synced THEN send_seq ELSE base
  BY DEF NextId, Synced, Limit
<1>4. PICK b \in Block : /\ b = BlockTo(len)
                         /\ sent_queue' = Append(sent_queue, b)
  OBVIOUS
<1>5. /\ Len(sent_queue') = Len(sent_queue) + 1
      /\ sent_queue'[Len(sent_queue) + 1] = b
      /\ \A i \in 1..Len(sent_queue) : sent_queue'[i] = sent_queue[i]
  <2>1. PICK s \in Seq(Block) : s = sent_queue
    BY <1>2
  <2> PICK t : t = sent_queue'
    OBVIOUS
  <2>2. t = Append(s, b)
    BY <1>4, <2>1
  <2>3. /\ Len(t) = Len(s) + 1 /\ t[Len(s) + 1] = b
        /\ \A i \in 1..Len(s) : t[i] = s[i]
    BY <2>2, AppendProps
  <2> QED BY <2>1, <2>3, Zenon
<1>6. ASSUME NEW x \in Int, base <= x, x < Limit
      PROVE  LenOf(x)' = LenOf(x)
  <2>1. x >= receive_seq => x - receive_seq + 1 \in 1..Len(sent_queue)
    BY <1>6, LenOfType
  <2> QED BY <1>2, <1>5, <1>6, <2>1 DEF LenOf
<1>7. ASSUME NEW i \in 1..Len(Pipe), NEW c, c = Pipe[i]
      PROVE  NumberOK(c, n[i])'
  <2>1. PICK x \in Int : x = n[i] /\ x < Limit
    BY <1>1, <1>2, <1>3
  <2>2. NumberOK(c, x)
    BY <1>1, <1>7, <2>1 DEF Numbers
  <2>3. x < base \/ c.len <= LenOf(x)'
    BY <1>2, <1>6, <2>1, <2>2 DEF NumberOK
  <2>4. NumberOK(c, x)'
    BY <2>2, <2>3 DEF NumberOK
  <2> QED BY <2>1, <2>4
<1>8. PICK x \in Int : x = IF Synced THEN send_seq ELSE base - 1
  BY <1>2
<1>9. NextId <= send_seq \/ ~Synced
  BY DEF IInv, PositionsInv
<1>10. ~Synced => /\ NextId = base /\ 1 < base /\ send_seq = 1
                  /\ \A i \in 1..Len(m2h) : ~m2h[i].ack
  BY <1>2 DEF IInv, PositionsInv, Synced, SessionInv
<1>11. ASSUME NEW c \in Block, c.len = len, c.ok => c = b
       PROVE  NumberOK(c, x)'
  <2>1. last_ack_seq <= x
    <3>1. last_ack_seq <= receive_seq /\ receive_seq <= send_seq
      BY <1>2 DEF SessionInv
    <3> QED BY <1>2, <1>8, <1>10, <3>1
  <2>2. c.ok /\ base <= c.id => x = c.id
    <3>1. b.id = send_seq
      BY <1>4 DEF BlockTo
    <3> QED BY <1>2, <1>8, <1>10, <1>11, <3>1
  <2>3. \A j \in 1..Len(m2h) : m2h[j].ack => m2h[j].done <= x
    <3>1. \A j \in 1..Len(m2h) : m2h[j].done \in Nat /\ m2h[j].done <= NextId
      BY ResponsesTypes
    <3> QED BY <1>2, <1>8, <1>9, <1>10, <3>1
  <2>4. x < base \/ c.len <= LenOf(x)'
    <3>1. CASE Synced
      <4>1. x = send_seq /\ receive_seq <= x
            /\ x - receive_seq + 1 = Len(sent_queue) + 1
        BY <1>2, <1>8, <3>1
      <4>2. LenOf(x)' = b.len
        BY <1>2, <1>5, <4>1 DEF LenOf
      <4>3. b.len = len
        BY <1>4 DEF BlockTo
      <4> QED BY <1>11, <4>2, <4>3
    <3>2. CASE ~Synced
      BY <1>2, <1>8, <3>2
    <3> QED BY <3>1, <3>2
  <2> QED BY <2>1, <2>2, <2>3, <2>4 DEF NumberOK
<1>12. CASE Pipe' = Pipe
  <2>1. \A i \in 1..Len(Pipe) : n[i] \in (NextId' - 1)..(Limit' - 1)
    BY SMTT(30), <1>1, <1>2, <1>3
  <2>2. n \in [1..Len(Pipe') -> (NextId' - 1)..(Limit' - 1)]
    BY <1>1, <1>12, <2>1
  <2>3. Numbers(n)'
    BY <1>1, <1>7, <1>12 DEF Numbers
  <2> QED BY <2>2, <2>3 DEF NumbersInv
<1>13. ASSUME NEW c \in Block, Pipe' = Append(Pipe, c), c.len = len,
              c.ok => c = b
       PROVE  NumbersInv'
  <2>1. PICK m \in Nat : m = Len(Pipe)
    BY <1>2
  <2> PICK p : p = Pipe'
    OBVIOUS
  <2>2. /\ Len(p) = m + 1 /\ p[m + 1] = c
        /\ \A i \in 1..m : p[i] = Pipe[i]
    BY <1>2, <1>13, <2>1, AppendProps
  <2>3. \A i \in 1..m : n[i] \in Int /\ NextId - 1 <= n[i] /\ n[i] < Limit
    BY <1>1, <1>2, <1>3, <2>1
  <2>4. m # 0 => Synced
    BY <1>2, <2>1
  <2>5. /\ NextId - 1 <= x /\ x < Limit' /\ Limit' \in Int
        /\ Synced => x = Limit
    BY <1>2, <1>3, <1>8, <1>9, <1>10
  <2>6. \A i \in 1..m : n[i] < x
    BY <2>3, <2>4, <2>5
  <2>7. \A i, j \in 1..m : i < j => n[i] < n[j]
    BY <1>1, <2>1 DEF Numbers
  <2>8. \A i \in 1..m : NumberOK(p[i], n[i])'
    BY <1>7, <2>1, <2>2
  <2>9. NumberOK(c, x)'
    BY <1>11, <1>13
  <2>10. PICK r : r = [i \in 1..(m + 1) |-> IF i <= m THEN n[i] ELSE x]
    OBVIOUS
  <2>11. /\ DOMAIN r = 1..(m + 1) /\ r \in [1..(m + 1) -> Int]
         /\ \A i \in 1..m : r[i] = n[i]
         /\ r[m + 1] = x
    BY <2>3, <2>10
  <2>12. \A i \in 1..(m + 1) : i \in 1..m \/ i = m + 1
    OBVIOUS
  <2>13. r \in [1..(m + 1) -> (NextId' - 1)..(Limit' - 1)]
    <3>1. \A i \in 1..m : n[i] < Limit'
      BY <1>2, <1>3, <2>3
    <3>2. \A i \in 1..m : r[i] \in (NextId' - 1)..(Limit' - 1)
      BY <1>2, <1>3, <2>3, <2>5, <2>11, <3>1
    <3>3. x \in (NextId' - 1)..(Limit' - 1)
      BY <1>2, <1>3, <2>5
    <3>4. \A i \in 1..(m + 1) : r[i] \in (NextId' - 1)..(Limit' - 1)
      BY <2>11, <2>12, <3>2, <3>3
    <3> QED BY <2>11, <3>4
  <2>14. \A i, j \in 1..(m + 1) : i < j => r[i] < r[j]
    <3> SUFFICES ASSUME NEW i \in 1..(m + 1), NEW j \in 1..(m + 1), i < j
                 PROVE  r[i] < r[j]
      OBVIOUS
    <3>1. i \in 1..m /\ (j \in 1..m \/ j = m + 1)
      OBVIOUS
    <3> QED BY <2>6, <2>7, <2>11, <3>1
  <2>15. \A i \in 1..(m + 1) : NumberOK(p[i], r[i])'
    BY <2>2, <2>8, <2>9, <2>11, <2>12
  <2>16. Numbers(r)'
    BY <2>1, <2>2, <2>14, <2>15 DEF Numbers
  <2> QED BY <2>1, <2>2, <2>13, <2>16 DEF NumbersInv
<1> QED BY <1>4, <1>12, <1>13

(* Ascending numbers that lie between a and b are b - a + 1 at most. *)
LEMMA AscendingFit ==
  ASSUME NEW m \in Nat, NEW a \in Int, NEW b \in Int, NEW n,
         \A i \in 1..m : n[i] \in Int /\ a <= n[i] /\ n[i] <= b,
         \A i, j \in 1..m : i < j => n[i] < n[j]
  PROVE  m = 0 \/ m <= b - a + 1
<1> DEFINE S == {i \in Nat : i = 0 \/ a + i - 1 <= n[i]}
<1>1. ASSUME NEW i \in 0..(m - 1), i \in S
      PROVE  i + 1 \in S
  <2>1. i + 1 \in 1..m /\ i + 1 \in Nat
    OBVIOUS
  <2>2. n[i + 1] \in Int /\ a <= n[i + 1]
    BY <2>1
  <2>3. CASE i = 0
    <3>1. a + (i + 1) - 1 <= n[i + 1]
      BY <2>2, <2>3
    <3> QED BY <2>1, <3>1
  <2>4. CASE i # 0
    <3>1. i \in 1..m /\ i < i + 1
      BY <2>4
    <3>2. n[i] \in Int /\ n[i] < n[i + 1] /\ a + i - 1 <= n[i]
      BY <1>1, <2>1, <2>4, <3>1
    <3>3. a + (i + 1) - 1 <= n[i + 1]
      BY <2>2, <3>2
    <3> QED BY <2>1, <3>3
  <2> QED BY <2>3, <2>4
<1> HIDE DEF S
<1>2. 0 \in S
  BY DEF S
<1>3. m \in 0..m
  OBVIOUS
<1>4. m \in S
  BY <1>1, <1>2, <1>3, UpTo
<1>5. m # 0 => m \in 1..m
  OBVIOUS
<1> QED BY <1>4, <1>5 DEF S

(* The blocks under way fit into what check_send_command counts: the queue,
   and the block acknowledged last while it may still be in the buffer. *)
LEMMA CountedBytes ==
  ASSUME IInv, SessionInv, NumbersInv, base < receive_seq
  PROVE  Bytes(Pipe) <= Bytes(sent_queue)
           + (IF last_ack_seq < receive_seq THEN last_ack_bytes ELSE 0)
<1>1. PICK n \in [1..Len(Pipe) -> (NextId - 1)..(Limit - 1)] : Numbers(n)
  BY DEF NumbersInv
<1>2. /\ send_seq \in Nat /\ receive_seq \in Nat /\ base \in Nat
      /\ NextId \in Nat /\ last_ack_seq \in Nat /\ last_ack_bytes \in Nat
      /\ TypeOK
  BY SMTT(30), Types DEF IInv, TypeOK, HostTypeOK
<1>3. /\ Pipe \in Seq(Block) /\ Len(Pipe) \in Nat
      /\ \A i \in 1..Len(Pipe) : Pipe[i].len \in Nat
  BY <1>2, PipeTypes DEF Joined
<1>4. Synced /\ Limit = send_seq /\ receive_seq <= NextId
  BY <1>2 DEF Synced, Limit, IInv, PositionsInv
<1>5. /\ sent_queue \in Seq(Block) /\ Len(sent_queue) = send_seq - receive_seq
      /\ Len(sent_queue) \in Nat
  BY Types DEF IInv, SentQueueComplete
<1>6. PICK m \in Nat, l \in Nat : m = Len(Pipe) /\ l = Len(sent_queue)
  BY <1>3, <1>5
<1>7. \A i \in 1..m : /\ n[i] \in Int /\ receive_seq - 1 <= n[i]
                      /\ n[i] - receive_seq + 1 <= l
                      /\ last_ack_seq <= n[i]
                      /\ Pipe[i].len <= LenOf(n[i])
  <2> SUFFICES ASSUME NEW i \in 1..m
               PROVE  /\ n[i] \in Int /\ receive_seq - 1 <= n[i]
                      /\ n[i] - receive_seq + 1 <= l
                      /\ last_ack_seq <= n[i]
                      /\ Pipe[i].len <= LenOf(n[i])
    OBVIOUS
  <2>1. n[i] \in Int /\ NextId - 1 <= n[i] /\ n[i] < send_seq
    BY <1>1, <1>2, <1>4, <1>6
  <2>2. NumberOK(Pipe[i], n[i])
    BY <1>1, <1>6 DEF Numbers
  <2>3. ~(n[i] < base)
    BY <1>2, <1>4, <2>1
  <2>4. last_ack_seq <= n[i] /\ Pipe[i].len <= LenOf(n[i])
    BY <2>2, <2>3 DEF NumberOK
  <2> QED BY <1>2, <1>4, <1>5, <1>6, <2>1, <2>4
<1>8. \A i, j \in 1..m : i < j => n[i] < n[j]
  BY <1>1, <1>6 DEF Numbers
<1>9. CASE ~(last_ack_seq < receive_seq)
  <2>1. \A i \in 1..m : n[i] - receive_seq + 1 \in 1..l /\ receive_seq <= n[i]
    BY <1>2, <1>7, <1>9
  <2>2. PICK at : at = [i \in 1..m |-> n[i] - receive_seq + 1]
    OBVIOUS
  <2>3. at \in [1..m -> 1..l] /\ \A i \in 1..m : at[i] = n[i] - receive_seq + 1
    BY <2>1, <2>2
  <2>4. \A i, j \in 1..m : i < j => at[i] < at[j]
    BY SMTT(30), <1>2, <1>7, <1>8, <2>3
  <2>5. \A i \in 1..m : Pipe[i].len <= sent_queue[at[i]].len
    <3> TAKE i \in 1..m
    <3>1. LenOf(n[i]) = sent_queue[n[i] - receive_seq + 1].len
      BY <1>2, <1>7, <2>1 DEF LenOf
    <3> QED BY <1>7, <2>3, <3>1
  <2>6. Bytes(Pipe) <= Bytes(sent_queue)
    BY <1>3, <1>5, <1>6, <2>3, <2>4, <2>5, BytesDominated
  <2>7. Bytes(Pipe) \in Nat /\ Bytes(sent_queue) \in Nat
    BY <1>3, <1>5, BytesProps
  <2> QED BY <1>9, <2>6, <2>7
<1>10. CASE last_ack_seq < receive_seq
  <2>0. Bad(last_ack_bytes) \in Block
    BY <1>2, SeqAssumption DEF Bad, Block
  <2>1. PICK a \in Block, s \in Seq(Block) :
          a = Bad(last_ack_bytes) /\ s = <<a>>
    <3>1. PICK a \in Block : a = Bad(last_ack_bytes)
      BY <2>0
    <3>2. <<a>> \in Seq(Block)
      OBVIOUS
    <3> QED BY <3>1, <3>2
  <2>2. a.len = last_ack_bytes
    BY <2>1 DEF Bad
  <2>3. PICK q : q = s \o sent_queue
    OBVIOUS
  <2>4. Joined(s, sent_queue, q)
    BY <1>5, <2>3, JoinedQueues
  <2>5. /\ q \in Seq(Block) /\ Len(q) = l + 1 /\ q[1] = a
        /\ \A i \in 1..l : q[1 + i] = sent_queue[i]
        /\ Bytes(q) = Bytes(sent_queue) + Bytes(s)
    <3>1. Len(s) = 1 /\ s[1] = a
      BY <2>1
    <3>2. /\ q \in Seq(Block) /\ Len(q) = Len(s) + Len(sent_queue)
          /\ \A i \in 1..Len(s) : q[i] = s[i]
          /\ \A i \in 1..Len(sent_queue) : q[Len(s) + i] = sent_queue[i]
          /\ Bytes(q) = Bytes(sent_queue) + Bytes(s)
      BY <2>4 DEF Joined
    <3> QED BY <1>6, <3>1, <3>2
  <2>6. Bytes(s) = last_ack_bytes
    <3>1. /\ s # <<>> /\ Head(s) = a /\ Tail(s) = <<>> /\ <<>> \in Seq(Block)
      BY <2>1
    <3>2. Bytes(s) = Head(s).len + Bytes(Tail(s)) /\ Bytes(Tail(s)) = 0
      BY <3>1, BytesProps
    <3> QED BY <1>2, <2>2, <3>1, <3>2
  <2>7. \A i \in 1..m : n[i] - receive_seq + 2 \in 1..(l + 1)
    BY <1>2, <1>7
  <2>8. PICK at : at = [i \in 1..m |-> n[i] - receive_seq + 2]
    OBVIOUS
  <2>9. /\ at \in [1..m -> 1..(l + 1)]
        /\ \A i \in 1..m : at[i] = n[i] - receive_seq + 2
    BY <2>7, <2>8
  <2>10. \A i, j \in 1..m : i < j => at[i] < at[j]
    <3> SUFFICES ASSUME NEW i \in 1..m, NEW j \in 1..m, i < j
                 PROVE  at[i] < at[j]
      OBVIOUS
    <3>1. n[i] \in Int /\ n[j] \in Int /\ n[i] < n[j]
      BY <1>7, <1>8
    <3>2. at[i] = n[i] - receive_seq + 2 /\ at[j] = n[j] - receive_seq + 2
      BY <2>9
    <3> QED BY <1>2, <3>1, <3>2
  <2>11. \A i \in 1..m : Pipe[i].len <= q[at[i]].len
    <3> TAKE i \in 1..m
    <3>1. CASE n[i] < receive_seq
      <4>1. LenOf(n[i]) = last_ack_bytes
        BY <3>1 DEF LenOf
      <4>2. at[i] = 1
        BY SMTT(30), <1>2, <1>7, <2>9, <3>1
      <4> QED BY <1>7, <2>2, <2>5, <4>1, <4>2
    <3>2. CASE ~(n[i] < receive_seq)
      <4>1. PICK j \in Int : j = n[i] - receive_seq + 1
        BY SMTT(30), <1>2, <1>7
      <4>2. j \in 1..l /\ at[i] = 1 + j
        <5>1. /\ n[i] \in Int /\ n[i] - receive_seq + 1 <= l
              /\ at[i] = n[i] - receive_seq + 2
          BY <1>7, <2>9
        <5> QED BY <1>2, <3>2, <4>1, <5>1
      <4>3. LenOf(n[i]) = sent_queue[j].len
        BY <3>2, <4>1 DEF LenOf
      <4> QED BY <1>7, <2>5, <4>2, <4>3
    <3> QED BY <3>1, <3>2
  <2>12. Bytes(Pipe) <= Bytes(q)
    BY <1>3, <1>6, <2>5, <2>9, <2>10, <2>11, BytesDominated
  <2> QED BY <1>10, <2>5, <2>6, <2>12
<1> QED BY <1>9, <1>10

(* How many blocks are under way, and how much is left of them when the
   host waits for nothing. *)
LEMMA UnderWay ==
  ASSUME IInv, SessionInv, NumbersInv, Synced
  PROVE  /\ Len(Pipe) <= send_seq - receive_seq + 1
         /\ base < receive_seq /\ send_seq = receive_seq =>
              \A i \in 1..Len(Pipe) : Pipe[i].len <= MsgMax
<1>1. PICK n \in [1..Len(Pipe) -> (NextId - 1)..(Limit - 1)] : Numbers(n)
  BY DEF NumbersInv
<1>2. /\ send_seq \in Nat /\ receive_seq \in Nat /\ base \in Nat
      /\ NextId \in Nat /\ TypeOK /\ last_ack_bytes \in Nat
  BY Types DEF IInv, TypeOK, HostTypeOK
<1>3. Limit = send_seq /\ receive_seq <= NextId /\ NextId <= send_seq
  BY DEF Limit, IInv, PositionsInv
<1>4. Len(Pipe) \in Nat /\ \A i \in 1..Len(Pipe) : Pipe[i].len \in Nat
  BY <1>2, PipeTypes DEF Joined
<1>5. PICK m \in Nat : m = Len(Pipe)
  BY <1>4
<1>6. \A i \in 1..m : /\ n[i] \in Int /\ receive_seq - 1 <= n[i]
                      /\ n[i] <= send_seq - 1
  BY <1>1, <1>2, <1>3, <1>5
<1>7. \A i, j \in 1..m : i < j => n[i] < n[j]
  BY <1>1, <1>5 DEF Numbers
<1>8. m = 0 \/ m <= (send_seq - 1) - (receive_seq - 1) + 1
  <2>1. receive_seq - 1 \in Int /\ send_seq - 1 \in Int
    BY <1>2
  <2> QED BY <1>6, <1>7, <2>1, AscendingFit
<1>9. m <= send_seq - receive_seq + 1
  BY <1>2, <1>3, <1>8
<1>10. ASSUME base < receive_seq, send_seq = receive_seq, NEW i \in 1..m
       PROVE  Pipe[i].len <= MsgMax
  <2>1. n[i] < receive_seq /\ ~(n[i] < base)
    BY <1>2, <1>6, <1>10
  <2>2. Pipe[i].len <= LenOf(n[i])
    BY <1>1, <1>5, <2>1 DEF Numbers, NumberOK
  <2>3. LenOf(n[i]) = last_ack_bytes /\ last_ack_bytes <= MsgMax
    BY <2>1 DEF LenOf, SessionInv
  <2> QED BY <1>2, <1>4, <1>5, <2>2, <2>3, SizeAssumption
<1> QED BY <1>5, <1>9, <1>10

(* Less of what is less. *)
LEMMA TimesMonotone ==
  ASSUME NEW k \in Nat, NEW m \in Nat, NEW c \in Nat, k <= m
  PROVE  k * c <= m * c
<1>1. PICK d \in Nat : m = k + d
  <2>1. m - k \in Nat /\ m = k + (m - k)
    OBVIOUS
  <2> QED BY <2>1
<1>2. m * c = k * c + d * c
  BY <1>1
<1>3. k * c \in Nat /\ d * c \in Nat
  OBVIOUS
<1> QED BY <1>2, <1>3

(* check_send_command leaves room for the longest block that the host may
   build next. *)
LEMMA RoomForOneMore ==
  ASSUME IInv, SessionInv, NumbersInv, check_send_command,
         NEW len \in 1..MsgMax, identify # "done" => len <= ProbeMax,
         ~Synced => Pipe = <<>>
  PROVE  Bytes(Pipe) + len <= RcvWindow
<1>1. /\ send_seq \in Nat /\ receive_seq \in Nat /\ TypeOK
      /\ sent_queue \in Seq(Block) /\ Len(sent_queue) = send_seq - receive_seq
      /\ Len(sent_queue) \in Nat /\ last_ack_bytes \in Nat
  BY Types DEF IInv, SentQueueComplete, TypeOK, HostTypeOK
<1>2. /\ Pipe \in Seq(Block) /\ Len(Pipe) \in Nat /\ Bytes(Pipe) \in Nat
  BY <1>1, PipeTypes DEF Joined
<1>3. /\ MsgMax \in Nat /\ ProbeMax \in Nat /\ RcvWindow \in Nat
      /\ MaxPending \in Nat
      /\ 2 * MsgMax <= RcvWindow /\ (MaxPending + 1) * ProbeMax <= RcvWindow
  BY SizeAssumption, SeqAssumption
<1>4. CASE identify = "done" /\ send_seq > receive_seq
  <2>1. Bytes(sent_queue) + MsgMax
          + (IF last_ack_seq < receive_seq THEN last_ack_bytes ELSE 0)
            <= RcvWindow
    BY <1>4 DEF check_send_command, need_ack_bytes
  <2>2. base < receive_seq
    BY <1>4 DEF SessionInv
  <2>3. Bytes(Pipe) <= Bytes(sent_queue)
          + (IF last_ack_seq < receive_seq THEN last_ack_bytes ELSE 0)
    BY <2>2, CountedBytes
  <2>4. Bytes(sent_queue) \in Nat
    BY <1>1, BytesProps
  <2>5. PICK e \in Nat :
          e = IF last_ack_seq < receive_seq THEN last_ack_bytes ELSE 0
    BY <1>1
  <2> QED BY <1>2, <1>3, <2>1, <2>3, <2>4, <2>5
<1>5. CASE identify = "done" /\ ~(send_seq > receive_seq)
  <2>1. base < receive_seq /\ send_seq = receive_seq
    BY <1>1, <1>5 DEF SessionInv
  <2>2. Synced
    BY <1>1, <2>1, Types DEF Synced
  <2>3. Len(Pipe) <= 1 /\ \A i \in 1..Len(Pipe) : Pipe[i].len <= MsgMax
    <3>1. Len(Pipe) <= send_seq - receive_seq + 1
          /\ \A i \in 1..Len(Pipe) : Pipe[i].len <= MsgMax
      BY <2>1, <2>2, UnderWay
    <3> QED BY <1>1, <2>1, <3>1
  <2>4. Bytes(Pipe) <= Len(Pipe) * MsgMax
    BY <1>2, <1>3, <2>3, BytesBounded
  <2>5. Len(Pipe) * MsgMax <= 1 * MsgMax
    BY <1>2, <1>3, <2>3, TimesMonotone
  <2>6. Len(Pipe) * MsgMax \in Nat
    BY <1>2, <1>3
  <2>7. Bytes(Pipe) <= MsgMax
    BY <1>2, <1>3, <2>4, <2>5, <2>6
  <2> QED BY <1>2, <1>3, <2>7
<1>6. CASE identify # "done"
  <2>1. \A i \in 1..Len(Pipe) : Pipe[i].len <= ProbeMax
    BY <1>6 DEF SessionInv
  <2>2. Len(Pipe) <= MaxPending
    <3>1. send_seq - receive_seq < MaxPending
      BY DEF check_send_command
    <3>2. Synced => Len(Pipe) <= send_seq - receive_seq + 1
      BY UnderWay
    <3>3. ~Synced => Len(Pipe) = 0
      OBVIOUS
    <3> QED BY <1>1, <1>2, <1>3, <3>1, <3>2, <3>3
  <2>3. Bytes(Pipe) <= Len(Pipe) * ProbeMax
    BY <1>2, <1>3, <2>1, BytesBounded
  <2>4. Len(Pipe) * ProbeMax <= MaxPending * ProbeMax
    BY <1>2, <1>3, <2>2, TimesMonotone
  <2>5. (MaxPending + 1) * ProbeMax = MaxPending * ProbeMax + ProbeMax
    BY <1>3
  <2>6. Len(Pipe) * ProbeMax \in Nat /\ MaxPending * ProbeMax \in Nat
    BY <1>2, <1>3
  <2> QED BY <1>2, <1>3, <1>6, <2>3, <2>4, <2>5, <2>6
<1> QED BY <1>4, <1>5, <1>6

(* command_event never sends more than the window holds. *)
LEMMA CommandWindow ==
  ASSUME IInv, IInv', WindowInv, CommandEvent
  PROVE  WindowInv'
<1> SUFFICES ASSUME retransmit_seq' = 0
             PROVE  NumbersInv' /\ SessionInv' /\ Bytes(Pipe') <= RcvWindow
  BY DEF WindowInv
<1>1. retransmit_seq = 0
  BY DEF CommandEvent, command_event
<1>2. NumbersInv /\ SessionInv /\ Bytes(Pipe) <= RcvWindow
  BY <1>1 DEF WindowInv
<1>3. PICK len \in 1..MsgMax :
           /\ check_send_command
           /\ send_seq' = send_seq + 1
           /\ BlockTo(len) \in Block
           /\ sent_queue' = Append(sent_queue, BlockTo(len))
           /\ UNCHANGED <<base, delivered, receive_seq, last_ack_seq,
                          last_ack_bytes, identify, retransmit_seq, m2h,
                          receive_buf, dispatching>>
           /\ identify # "done" => len <= ProbeMax
           /\ ~Synced => send_seq = 1 /\ receive_seq = 1 /\ Pipe = <<>>
           /\ \/ Pipe' = Pipe
              \/ \E c \in Block : /\ Pipe' = Append(Pipe, c) /\ c.len = len
                                  /\ c.ok => c = BlockTo(len)
  BY <1>1, CommandDetails
<1>4. /\ send_seq \in Nat \ {0} /\ sent_queue \in Seq(Block)
      /\ Len(sent_queue) \in Nat /\ len \in Nat /\ MsgMax \in Nat
  BY Types, SizeAssumption DEF IInv
<1>5. /\ Pipe \in Seq(Block) /\ Len(Pipe) \in Nat /\ Bytes(Pipe) \in Nat
  BY PipeTypes DEF Joined, IInv
<1>6. NumbersInv'
  BY <1>2, <1>3, CommandNumbers
<1>7. Bytes(Pipe) + len <= RcvWindow
  BY <1>2, <1>3, RoomForOneMore
<1>8. Bytes(Pipe') <= RcvWindow
  <2>1. ASSUME NEW c \in Block, Pipe' = Append(Pipe, c), c.len = len
        PROVE  Bytes(Pipe') = Bytes(Pipe) + len
    BY <1>5, <2>1, BytesProps
  <2> QED BY <1>2, <1>3, <1>7, <2>1
<1>9. SessionInv'
  <2>1. identify' # "done" => \A i \in 1..Len(Pipe') : Pipe'[i].len <= ProbeMax
    <3> SUFFICES ASSUME identify # "done"
                 PROVE  \A i \in 1..Len(Pipe') : Pipe'[i].len <= ProbeMax
      BY <1>3
    <3>1. /\ len <= ProbeMax
          /\ \A i \in 1..Len(Pipe) : Pipe[i].len <= ProbeMax
      BY <1>2, <1>3 DEF SessionInv
    <3>2. ASSUME NEW c \in Block, Pipe' = Append(Pipe, c), c.len = len
          PROVE  \A i \in 1..Len(Pipe') : Pipe'[i].len <= ProbeMax
      <4>1. PICK p \in Seq(Block) : p = Pipe
        BY <1>5
      <4> PICK q : q = Pipe'
        OBVIOUS
      <4>2. q = Append(p, c)
        BY <3>2, <4>1
      <4>3. /\ Len(q) = Len(p) + 1 /\ q[Len(p) + 1] = c
            /\ \A i \in 1..Len(p) : q[i] = p[i]
        BY <4>2, AppendProps
      <4>4. Len(p) \in Nat
        BY <4>1
      <4>5. \A i \in 1..Len(q) : i \in 1..Len(p) \/ i = Len(p) + 1
        BY <4>3, <4>4
      <4>6. \A i \in 1..Len(q) : q[i].len <= ProbeMax
        BY <3>1, <3>2, <4>1, <4>3, <4>5
      <4> QED BY <4>1, <4>6
    <3> QED BY <1>3, <3>1, <3>2
  <2>2. Synced' <=> Synced
    BY <1>3 DEF Synced
  <2>3. send_seq' # 1
    BY <1>3, <1>4
  <2>4. \A i \in 1..Len(sent_queue') : sent_queue'[i].len <= MsgMax
    <3>1. PICK s \in Seq(Block) : s = sent_queue
      BY <1>4
    <3> PICK t : t = sent_queue'
      OBVIOUS
    <3> PICK b \in Block : b = BlockTo(len)
      BY <1>3
    <3>2. t = Append(s, b) /\ b.len <= MsgMax
      BY <1>3, <1>4, <3>1 DEF BlockTo
    <3>3. /\ Len(t) = Len(s) + 1 /\ t[Len(s) + 1] = b /\ Len(s) \in Nat
          /\ \A i \in 1..Len(s) : t[i] = s[i]
      BY <3>2, AppendProps
    <3>4. \A i \in 1..Len(t) : i \in 1..Len(s) \/ i = Len(s) + 1
      BY <3>3
    <3>5. \A i \in 1..Len(s) : s[i].len <= MsgMax
      BY <1>2, <3>1 DEF SessionInv
    <3>6. \A i \in 1..Len(t) : t[i].len <= MsgMax
      BY <3>2, <3>3, <3>4, <3>5
    <3> QED BY <3>1, <3>6
  <2> QED BY <1>2, <1>3, <2>1, <2>2, <2>3, <2>4 DEF SessionInv
<1> QED BY <1>6, <1>8, <1>9

(* Every step keeps the window. *)
LEMMA NextWindow ==
  ASSUME IInv, IInv', ResponsesInv, WindowInv, [Next]_vars
  PROVE  WindowInv'
<1>1. CASE RetransmitEvent
  <2>1. retransmit_seq' = send_seq /\ send_seq # 0
    BY <1>1, Types DEF RetransmitEvent, retransmit_event, IInv
  <2> QED BY <2>1 DEF WindowInv
<1>2. CASE StartSession
  <2>1. /\ UNCHANGED <<base, delivered, send_seq, receive_seq, sent_queue,
                       last_ack_seq, last_ack_bytes, retransmit_seq,
                       receive_buf, h2m, m2h, dispatching>>
        /\ identify = "answered" /\ identify' = "done"
    BY <1>2 DEF StartSession, start_session, mcuVars, wireVars
  <2>2. /\ Pipe' = Pipe /\ NextId' = NextId /\ Limit' = Limit
        /\ (Synced' <=> Synced)
    BY <2>1 DEF Pipe, NextId, Limit, Synced
  <2>3. NumbersInv => NumbersInv'
    <3>1. \A b, x : NumberOK(b, x) => NumberOK(b, x)'
      BY <2>1 DEF NumberOK, LenOf
    <3> QED BY <2>2, <3>1 DEF NumbersInv, Numbers
  <2>4. SessionInv => SessionInv'
    BY <2>1, <2>2 DEF SessionInv
  <2> QED BY <2>1, <2>2, <2>3, <2>4 DEF WindowInv
<1>3. CASE UNCHANGED vars
  <2>1. /\ UNCHANGED hostVars /\ UNCHANGED mcuVars /\ UNCHANGED wireVars
    BY <1>3 DEF vars
  <2>2. /\ UNCHANGED <<base, delivered, send_seq, receive_seq, sent_queue,
                       last_ack_seq, last_ack_bytes, retransmit_seq,
                       receive_buf, h2m, m2h, dispatching, identify>>
    BY <2>1 DEF hostVars, mcuVars, wireVars
  <2>3. /\ TypeOK /\ TypeOK' /\ Pipe' = Pipe
        /\ dispatching' \in {0, dispatching}
    BY <2>2 DEF IInv, Pipe
  <2>4. Thinned(Pipe', Pipe, 1, 0)
    BY <2>3, SamePipe
  <2>5. NewFrames(1, 0)
    BY <2>2, FramesKept
  <2>6. 1 \in Nat \ {0} /\ 0 \in Nat
    OBVIOUS
  <2> QED BY <2>2, <2>3, <2>4, <2>5, <2>6, QuietStep
<1> QED BY <1>1, <1>2, <1>3, CommandWindow, HandleWindow, ReceiveWindow,
           ConsumeWindow, DispatchWindow, RespondWindow, WireWindow
        DEF Next, HostNext, McuNext

(* Nothing is under way when the host connects. *)
LEMMA InitWindow == Init => WindowInv
<1> SUFFICES ASSUME Init PROVE WindowInv
  OBVIOUS
<1>1. /\ h2m = <<>> /\ m2h = <<>> /\ receive_buf = <<>> /\ dispatching = 0
      /\ identify = "asked" /\ sent_queue = <<>> /\ last_ack_bytes = 0
      /\ last_ack_seq = 0 /\ receive_seq = 1 /\ delivered = <<>>
  BY DEF Init, HostInit, McuInit
<1>2. Pipe = <<>>
  BY <1>1 DEF Pipe
<1>3. SessionInv
  BY <1>1, <1>2, SizeAssumption DEF SessionInv
<1>4. NumbersInv
  <2>1. PICK n : n = [i \in {} |-> 0]
    OBVIOUS
  <2>2. 1..Len(Pipe) = {}
    BY <1>2
  <2>3. n \in [1..Len(Pipe) -> (NextId - 1)..(Limit - 1)]
    BY <2>1, <2>2
  <2>4. Numbers(n)
    BY <2>2 DEF Numbers
  <2> QED BY <2>3, <2>4 DEF NumbersInv
<1>5. Bytes(Pipe) <= RcvWindow
  <2>1. <<>> \in Seq(Block)
    OBVIOUS
  <2>2. Bytes(<<>>) = 0
    BY <2>1, BytesProps
  <2> QED BY <1>2, <2>2, SizeAssumption
<1> QED BY <1>3, <1>4, <1>5 DEF WindowInv

(* check_send_command keeps what is under way within the receive window of
   the micro-controller, so canserial_process_data has room for every block
   until the host first sends something again. *)
THEOREM WindowRespected == Spec => []NoReceiveOverflow
<1>1. Init => WindowInv
  BY InitWindow
<1>2. IInv /\ IInv' /\ ResponsesInv /\ WindowInv /\ [Next]_vars => WindowInv'
  BY NextWindow
<1>3. IInv /\ WindowInv => NoReceiveOverflow
  <2> SUFFICES ASSUME IInv, WindowInv, retransmit_seq = 0
               PROVE  Bytes(h2m) + Bytes(receive_buf) <= RcvWindow
    BY DEF NoReceiveOverflow
  <2>1. Joined(receive_buf, h2m, Pipe)
    BY PipeTypes DEF IInv
  <2> QED BY <2>1 DEF Joined, WindowInv
<1>4. Init => ResponsesInv
  BY InitResponses
<1>5. IInv /\ ResponsesInv /\ [Next]_vars => ResponsesInv'
  BY NextResponses
<1>6. Spec => []IInv
  BY InductiveInvariant
<1> QED BY <1>1, <1>2, <1>3, <1>4, <1>5, <1>6, PTL DEF Spec
=============================================================================
