--------------------------- MODULE BlockAck_proofs ---------------------------
(***************************************************************************)
(* Proofs about the reorder buffer, Block Ack sessions, and what the two   *)
(* promise to the stack.                                                   *)
(*                                                                         *)
(* RxReorder, for any sequence space, windows, starting numbers and        *)
(* frames: the count, the slots and the range of the buffer, and the order *)
(* of frames.  Windows have to be of 2 and more: with a window of 1 a      *)
(* frame half the sequence space ahead is placed out of range, because     *)
(* seq_less calls neither of two such numbers less, and the argument       *)
(* below, which keeps every stored frame in range at each step, does not   *)
(* cover it.  That the slot at the head is empty needs windows that divide *)
(* the sequence space.  Sound is inductive by itself; the work is in the   *)
(* arithmetic of sequence numbers and in the loops, which are operators.   *)
(*                                                                         *)
(* RxSessions: wil_reset leaves no ADDBA request of the firmware that it   *)
(* restarts, except late ones, for any windows, any number of requests and *)
(* of resets, and whatever happens to the session; and whatever happens to *)
(* the session, its buffer is consistent, frames go up in order, and none  *)
(* is lost but in the one step that overwrites a session.  The             *)
(* invariant follows requests from the event worker through the queue, and *)
(* says of each stage of wil_reset what it has emptied.                    *)
(*                                                                         *)
(* BaSession: the buffer, between a peer that keeps to its window and the  *)
(* stack, implements in-order delivery of frames with unbounded numbers.   *)
(***************************************************************************)
EXTENDS RxSessions, BaSession, TLAPS, FiniteSetTheorems

-----------------------------------------------------------------------------
(* Arithmetic. *)

\* A remainder is in range.
LEMMA ModRange ==
  ASSUME NEW m \in Nat, m > 0, NEW a \in Int
  PROVE  a % m \in 0..(m - 1)
OBVIOUS

\* The remainder of a number near the range.
LEMMA ModNear ==
  ASSUME NEW m \in Nat, m > 0, NEW a \in Int, -2 * m <= a, a < 2 * m
  PROVE  a % m = IF a < -m THEN a + 2 * m ELSE IF a < 0 THEN a + m ELSE IF a < m THEN a ELSE a - m
OBVIOUS

\* One round at most is taken off.
LEMMA ModOnce ==
  ASSUME NEW m \in Nat, m > 0, NEW a \in Nat, a < 2 * m
  PROVE  a % m = IF a < m THEN a ELSE a - m
OBVIOUS

\* Half the sequence space.
LEMMA HalfRange ==
  ASSUME NEW m \in Nat
  PROVE  2 * (m \div 2) <= m /\ m <= 2 * (m \div 2) + 1 /\ m \div 2 \in Nat
OBVIOUS

\* How far s is ahead of h.
LEMMA SubIs ==
  ASSUME NEW s \in SeqNums, NEW h \in SeqNums
  PROVE  /\ seq_sub(s, h) = IF s >= h THEN s - h ELSE s - h + SeqModulo
         /\ seq_sub(s, h) \in SeqNums
BY ModNear, SeqModuloAssumption DEF seq_sub, SeqNums

\* A head that moves on is that much nearer to what is ahead of it.
LEMMA Advance ==
  ASSUME NEW s \in SeqNums, NEW h \in SeqNums, NEW n \in 0..seq_sub(s, h)
  PROVE  /\ (h + n) % SeqModulo \in SeqNums
         /\ seq_sub(s, (h + n) % SeqModulo) = seq_sub(s, h) - n
<1>1. seq_sub(s, h) \in SeqNums /\ n \in Int /\ h \in Int
  BY SubIs, SeqModuloAssumption DEF SeqNums
<1>2. (h + n) % SeqModulo = IF h + n < SeqModulo THEN h + n ELSE h + n - SeqModulo
  BY <1>1, ModNear, SeqModuloAssumption DEF SeqNums
<1>3. (h + n) % SeqModulo \in SeqNums
  BY <1>1, ModRange, SeqModuloAssumption DEF SeqNums
<1> DEFINE t == (h + n) % SeqModulo
<1>4. seq_sub(s, t) = IF s >= t THEN s - t ELSE s - t + SeqModulo
  BY <1>3, SubIs
<1>5. seq_sub(s, h) = IF s >= h THEN s - h ELSE s - h + SeqModulo
  BY SubIs
<1> HIDE DEF t
<1>6. t = IF h + n < SeqModulo THEN h + n ELSE h + n - SeqModulo
  BY <1>2 DEF t
<1>7. seq_sub(s, t) = seq_sub(s, h) - n
  <2> DEFINE a == seq_sub(s, h)
             b == seq_sub(s, t)
  <2>1. n >= 0 /\ n <= a /\ a \in Int
    BY <1>1, SeqModuloAssumption DEF SeqNums
  <2>2. (a = IF s >= h THEN s - h ELSE s - h + SeqModulo) /\ (b = IF s >= t THEN s - t ELSE s - t + SeqModulo)
    BY <1>4, <1>5
  <2>3. s \in 0..(SeqModulo - 1) /\ h \in 0..(SeqModulo - 1) /\ SeqModulo \in Nat
    BY SeqModuloAssumption DEF SeqNums
  <2> HIDE DEF a, b
  <2>4. b = a - n
    BY <1>6, <2>1, <2>2, <2>3
  <2>5. QED
    BY <2>4 DEF a, b
<1>8. QED
  BY <1>3, <1>7 DEF t

\* The head gets there.
LEMMA Reach ==
  ASSUME NEW s \in SeqNums, NEW h \in SeqNums
  PROVE  (h + seq_sub(s, h)) % SeqModulo = s
<1>1. seq_sub(s, h) \in SeqNums
  BY SubIs
<1> DEFINE a == seq_sub(s, h)
<1>2. a = IF s >= h THEN s - h ELSE s - h + SeqModulo
  BY SubIs
<1>3. s \in 0..(SeqModulo - 1) /\ h \in 0..(SeqModulo - 1) /\ SeqModulo \in Nat /\ SeqModulo > 0
      /\ a \in 0..(SeqModulo - 1)
  BY <1>1, SeqModuloAssumption DEF SeqNums
<1> HIDE DEF a
<1>4. (h + a) % SeqModulo = IF h + a < SeqModulo THEN h + a ELSE h + a - SeqModulo
  BY <1>3, ModNear
<1>5. (h + a) % SeqModulo = s
  BY <1>2, <1>3, <1>4
<1>6. QED
  BY <1>5 DEF a

\* A set of numbers that is not empty has a least element.
LEMMA LeastNat ==
  ASSUME NEW S \in SUBSET Nat, S # {}
  PROVE  \E x \in S : \A y \in S : x <= y
<1> DEFINE T == {0..x : x \in S}
<1>1. T \subseteq FiniteSubsetsOf(Nat) /\ T # {}
  <2>1. ASSUME NEW x \in S PROVE 0..x \in FiniteSubsetsOf(Nat)
    <3>1. IsFiniteSet(0..x)
      BY FS_Interval
    <3>2. 0..x \in SUBSET Nat
      OBVIOUS
    <3>3. QED
      BY <3>1, <3>2 DEF FiniteSubsetsOf
  <2>2. QED
    BY <2>1
<1>2. PICK m \in T : \A k \in T : <<k, m>> \notin StrictSubsetOrdering(Nat)
  <2> HIDE DEF T
  <2>1. QED
    BY <1>1, FS_StrictSubsetOrderingWellFounded, WFMin
<1>3. PICK x \in S : m = 0..x
  OBVIOUS
<1>4. \A y \in S : x <= y
  <2>1. SUFFICES ASSUME NEW y \in S, y < x PROVE FALSE
    OBVIOUS
  <2>2. 0..y \subseteq 0..x /\ 0..y # 0..x /\ 0..y \in SUBSET Nat /\ 0..x \in SUBSET Nat
    BY <2>1
  <2>3. <<0..y, 0..x>> \in StrictSubsetOrdering(Nat)
    BY <2>2 DEF StrictSubsetOrdering
  <2>4. QED
    BY <2>3, <1>2, <1>3
<1>5. QED
  BY <1>4

-----------------------------------------------------------------------------
(* The buffer. *)

\* A session whose count is right and whose frames are in their slots and in
\* range.
InRange(r) ==
  \A i \in Stored(r) :
    /\ reorder_index(r, wil_rxdesc_seq(r.reorder_buf[i])) = i
    /\ Ahead(r.reorder_buf[i], r.head_seq_num) < r.buf_size

Sound(r) ==
  /\ r.buf_size \in WSizes
  /\ r \in Session(r.buf_size)
  /\ r.stored_mpdu_num = Cardinality(Stored(r))
  /\ InRange(r)

\* What a session consists of.
LEMMA Fields ==
  ASSUME NEW r, r.buf_size \in WSizes, r \in Session(r.buf_size)
  PROVE  /\ r.ssn \in SeqNums /\ r.head_seq_num \in SeqNums
         /\ r.buf_size \in Nat /\ r.buf_size > 0 /\ 2 * r.buf_size < SeqModulo
         /\ r.stored_mpdu_num \in Nat
         /\ r.reorder_buf \in [Slots(r) -> Frames \cup {NULL}]
         /\ Slots(r) = 0..(r.buf_size - 1)
BY WSizesAssumption, SeqModuloAssumption DEF Session, Slots

\* There are buf_size slots.
LEMMA SlotCount ==
  ASSUME NEW r, r.buf_size \in WSizes, r \in Session(r.buf_size)
  PROVE  IsFiniteSet(Slots(r)) /\ Cardinality(Slots(r)) = r.buf_size
<1>1. r.buf_size \in Nat /\ Slots(r) = 0..(r.buf_size - 1)
  BY Fields
<1>2. QED
  BY <1>1, FS_Interval

\* The slots that hold a frame are finitely many.
LEMMA StoredFinite ==
  ASSUME NEW r, r.buf_size \in WSizes, r \in Session(r.buf_size)
  PROVE  /\ IsFiniteSet(Stored(r)) /\ Cardinality(Stored(r)) \in 0..r.buf_size
<1>1. r.buf_size \in Nat /\ Slots(r) = 0..(r.buf_size - 1)
  BY Fields
<1>2. IsFiniteSet(Slots(r)) /\ Cardinality(Slots(r)) = r.buf_size
  BY SlotCount
<1>3. Stored(r) \in SUBSET Slots(r)
  BY DEF Stored
<1>4. QED
  BY <1>1, <1>2, <1>3, FS_Subset, FS_CardinalityType

\* A slot number is a slot number.
LEMMA IndexType ==
  ASSUME NEW r, r.buf_size \in WSizes, r \in Session(r.buf_size), NEW s \in Nat
  PROVE  reorder_index(r, s) \in Slots(r)
<1>1. seq_sub(s, r.ssn) \in Int
  BY Fields, ModRange, SeqModuloAssumption DEF seq_sub, SeqNums
<1>2. QED
  BY <1>1, Fields, ModRange DEF reorder_index

\* So is the one that a loop visits.
LEMMA SlotAtType ==
  ASSUME NEW r, r.buf_size \in WSizes, r \in Session(r.buf_size), NEW k \in Nat
  PROVE  SlotAt(r, k) \in Slots(r)
<1>1. (r.head_seq_num + k) % SeqModulo \in Nat
  BY Fields, ModRange, SeqModuloAssumption DEF SeqNums
<1>2. QED
  BY <1>1, IndexType DEF SlotAt

\* A slot that a loop visits has a first visit.
LEMMA FirstVisit ==
  ASSUME NEW r, NEW k \in Nat
  PROVE  \E j \in 0..k : SlotAt(r, j) = SlotAt(r, k) /\ ~Revisits(r, j)
<1> DEFINE V == {j \in 0..k : SlotAt(r, j) = SlotAt(r, k)}
<1>1. V \in SUBSET Nat /\ k \in V
  OBVIOUS
<1>2. PICK j \in V : \A y \in V : j <= y
  <2> HIDE DEF V
  <2>1. QED
    BY <1>1, LeastNat
<1>3. j \in 0..k /\ SlotAt(r, j) = SlotAt(r, k)
  BY <1>2
<1>4. ~Revisits(r, j)
  <2>1. SUFFICES ASSUME NEW i \in 0..(j - 1), SlotAt(r, i) = SlotAt(r, j) PROVE FALSE
    BY DEF Revisits
  <2>2. i \in V /\ i < j
    BY <1>3, <2>1
  <2>3. QED
    BY <1>2, <1>3, <2>2
<1>5. QED
  BY <1>3, <1>4

\* The slots that a loop of n iterations visits.
Visited(r, n) == {i \in Slots(r) : \E k \in 0..(n - 1) : SlotAt(r, k) = i}

\* A loop finds a frame in each occupied slot that it visits, once.
LEMMA HitSlots ==
  ASSUME NEW r, r.buf_size \in WSizes, r \in Session(r.buf_size), NEW n \in Nat
  PROVE  /\ \A i \in Slots(r) :
              (\E k \in Hits(r, n) : SlotAt(r, k) = i) <=> i \in Stored(r) \cap Visited(r, n)
         /\ Cardinality(Hits(r, n)) = Cardinality(Stored(r) \cap Visited(r, n))
<1>1. \A k \in Hits(r, n) :
        k \in 0..(n - 1) /\ k \in Nat /\ SlotAt(r, k) \in Slots(r) /\ SlotAt(r, k) \in Stored(r) \cap Visited(r, n)
  BY SlotAtType DEF Hits, Stored, Visited
<1>2. ASSUME NEW i \in Stored(r) \cap Visited(r, n) PROVE \E k \in Hits(r, n) : SlotAt(r, k) = i
  <2>1. PICK k \in 0..(n - 1) : SlotAt(r, k) = i
    BY DEF Visited
  <2>2. PICK j \in 0..k : SlotAt(r, j) = SlotAt(r, k) /\ ~Revisits(r, j)
    BY FirstVisit
  <2>3. j \in Hits(r, n) /\ SlotAt(r, j) = i
    BY <2>1, <2>2 DEF Hits, Stored
  <2>4. QED
    BY <2>3
<1> DEFINE g == [k \in Hits(r, n) |-> SlotAt(r, k)]
<1>3. g \in [Hits(r, n) -> Stored(r) \cap Visited(r, n)]
  BY <1>1
<1>4. ASSUME NEW j \in Hits(r, n), NEW k \in Hits(r, n), SlotAt(r, j) = SlotAt(r, k) PROVE j = k
  <2>1. j \in 0..(n - 1) /\ k \in 0..(n - 1) /\ ~Revisits(r, j) /\ ~Revisits(r, k)
    BY DEF Hits
  <2>2. ~(j < k)
    BY <1>4, <2>1 DEF Revisits
  <2>3. ~(k < j)
    BY <1>4, <2>1 DEF Revisits
  <2>4. QED
    BY <2>1, <2>2, <2>3
<1>5. g \in Bijection(Hits(r, n), Stored(r) \cap Visited(r, n))
  BY <1>2, <1>3, <1>4 DEF Bijection, Injection, Surjection, IsInjective
<1>6. IsFiniteSet(Hits(r, n))
  <2>1. IsFiniteSet(0..(n - 1)) /\ Hits(r, n) \in SUBSET (0..(n - 1))
    BY FS_Interval DEF Hits
  <2>2. QED
    BY <2>1, FS_Subset
<1>7. Cardinality(Hits(r, n)) = Cardinality(Stored(r) \cap Visited(r, n))
  BY <1>5, <1>6, FS_Bijection DEF ExistsBijection
<1>8. QED
  BY <1>1, <1>2, <1>7

\* What a loop of wil_release_reorder_frame leaves.
LEMMA Release ==
  ASSUME NEW r, Sound(r), NEW n \in Nat, n <= SeqModulo,
         NEW s, s = wil_release_reorder_frame(r, n)
  PROVE  /\ Sound(s)
         /\ s.buf_size = r.buf_size /\ s.ssn = r.ssn
         /\ s.head_seq_num = (r.head_seq_num + n) % SeqModulo
         /\ \A i \in Slots(r) :
              s.reorder_buf[i] = IF i \in Visited(r, n) THEN NULL ELSE r.reorder_buf[i]
         /\ Stored(s) = Stored(r) \ Visited(r, n)
<1>1. r.buf_size \in WSizes /\ r \in Session(r.buf_size)
  BY DEF Sound
<1> DEFINE buf == [i \in Slots(r) |-> IF \E k \in Hits(r, n) : SlotAt(r, k) = i
                                      THEN NULL ELSE r.reorder_buf[i]]
<1>2. s = [r EXCEPT !.reorder_buf = buf,
                    !.stored_mpdu_num = @ - Cardinality(Hits(r, n)),
                    !.head_seq_num = (@ + n) % SeqModulo]
  BY DEF wil_release_reorder_frame
<1>3. /\ s.buf_size = r.buf_size /\ s.ssn = r.ssn /\ s.reorder_buf = buf
      /\ s.head_seq_num = (r.head_seq_num + n) % SeqModulo
      /\ s.stored_mpdu_num = r.stored_mpdu_num - Cardinality(Hits(r, n))
  BY <1>1, <1>2 DEF Session
<1>4. \A i \in Slots(r) : buf[i] = IF i \in Visited(r, n) THEN NULL ELSE r.reorder_buf[i]
  BY <1>1, HitSlots DEF Stored
<1>5. buf \in [Slots(r) -> Frames \cup {NULL}]
  BY <1>1, Fields
<1> HIDE DEF buf
<1>6. Slots(s) = Slots(r)
  BY <1>3 DEF Slots
<1>7. Stored(s) = Stored(r) \ Visited(r, n)
  BY <1>3, <1>4, <1>6 DEF Stored
<1>8. s.stored_mpdu_num = Cardinality(Stored(s))
  <2>1. IsFiniteSet(Stored(r))
    BY <1>1, StoredFinite
  <2>2. Cardinality(Stored(r) \ Visited(r, n)) =
          Cardinality(Stored(r)) - Cardinality(Stored(r) \cap Visited(r, n))
    BY <2>1, FS_Difference
  <2>3. Cardinality(Hits(r, n)) = Cardinality(Stored(r) \cap Visited(r, n))
    BY <1>1, HitSlots
  <2>4. r.stored_mpdu_num = Cardinality(Stored(r))
    BY DEF Sound
  <2>5. QED
    BY <1>3, <1>7, <2>2, <2>3, <2>4
<1>9. s.head_seq_num \in SeqNums
  <2>1. r.head_seq_num + n \in Int
    BY <1>1, Fields DEF SeqNums
  <2>2. QED
    BY <1>3, <2>1, ModRange, SeqModuloAssumption DEF SeqNums
<1>10. s.stored_mpdu_num \in 0..r.buf_size
  <2>1. IsFiniteSet(Stored(r)) /\ Cardinality(Stored(r)) \in 0..r.buf_size
    BY <1>1, StoredFinite
  <2>2. Cardinality(Stored(s)) \in Nat /\ Cardinality(Stored(s)) <= Cardinality(Stored(r))
    BY <1>7, <2>1, FS_Subset, FS_CardinalityType
  <2>3. QED
    BY <1>1, <1>8, <2>1, <2>2, Fields
<1>11. s \in Session(s.buf_size)
  BY <1>1, <1>2, <1>3, <1>5, <1>9, <1>10 DEF Session, Slots
<1>12. InRange(s)
  <2>1. SUFFICES ASSUME NEW i \in Stored(s)
                 PROVE  /\ reorder_index(s, wil_rxdesc_seq(s.reorder_buf[i])) = i
                        /\ Ahead(s.reorder_buf[i], s.head_seq_num) < s.buf_size
    BY DEF InRange
  <2>2. /\ i \in Stored(r) /\ i \notin Visited(r, n) /\ i \in Slots(r)
        /\ s.reorder_buf[i] = r.reorder_buf[i]
    BY <1>3, <1>4, <1>7 DEF Stored
  <2> DEFINE q == wil_rxdesc_seq(r.reorder_buf[i])
             h == r.head_seq_num
             a == seq_sub(q, h)
  <2>3. reorder_index(r, q) = i /\ a < r.buf_size
    BY <2>2 DEF Sound, InRange, Ahead
  <2>4. r.reorder_buf[i] \in Nat
    BY <1>1, <2>2, Fields, FramesAssumption DEF Stored
  <2>5. q \in SeqNums /\ h \in SeqNums
    BY <1>1, <2>4, Fields, ModRange, SeqModuloAssumption DEF wil_rxdesc_seq, SeqNums
  <2> HIDE DEF q
  <2>6. a \in SeqNums /\ (h + a) % SeqModulo = q
    BY <2>5, SubIs, Reach
  <2>7. SlotAt(r, a) = i
    BY <2>3, <2>6 DEF SlotAt
  <2>8. n <= a /\ a \in Nat
    <3>1. a \in Nat
      BY <2>6, SeqModuloAssumption DEF SeqNums
    <3>2. ~(a \in 0..(n - 1))
      BY <2>2, <2>7 DEF Visited
    <3>3. QED
      BY <3>1, <3>2
  <2>9. seq_sub(q, s.head_seq_num) = a - n
    BY <1>3, <2>5, <2>8, Advance
  <2>10. a - n < r.buf_size
    BY <1>1, <2>3, <2>8, Fields
  <2>11. reorder_index(s, q) = reorder_index(r, q)
    BY <1>3 DEF reorder_index
  <2>12. QED
    BY <1>3, <2>2, <2>3, <2>9, <2>10, <2>11 DEF q, Ahead
<1>13. QED
  BY <1>1, <1>3, <1>4, <1>7, <1>8, <1>11, <1>12 DEF Sound

\* More loop positions than slots: two of them share one.
LEMMA Collide ==
  ASSUME NEW A, NEW B, NEW f \in [A -> B], IsFiniteSet(A), IsFiniteSet(B),
         Cardinality(B) < Cardinality(A)
  PROVE  \E x, y \in A : x # y /\ f[x] = f[y]
BY FS_PigeonHole, Zenon

\* wil_reorder_release stops: its loop meets an empty slot, or one it has been at.
LEMMA RunStops ==
  ASSUME NEW r, r.buf_size \in WSizes, r \in Session(r.buf_size)
  PROVE  /\ Run(r) \in 0..r.buf_size
         /\ r.reorder_buf[SlotAt(r, Run(r))] = NULL \/ Revisits(r, Run(r))
         /\ \A k \in 0..(Run(r) - 1) : r.reorder_buf[SlotAt(r, k)] # NULL
<1> DEFINE b == r.buf_size
           Stop(n) == r.reorder_buf[SlotAt(r, n)] = NULL \/ Revisits(r, n)
           S == {n \in 0..b : Stop(n)}
<1>1. b \in Nat /\ b > 0 /\ Slots(r) = 0..(b - 1)
  BY Fields
<1>2. \E n \in 0..b : Revisits(r, n)
  <2> DEFINE g == [k \in 0..b |-> SlotAt(r, k)]
  <2>1. g \in [0..b -> Slots(r)]
    <3>1. ASSUME NEW k \in 0..b PROVE SlotAt(r, k) \in Slots(r)
      <4>1. k \in Nat
        BY <1>1, <3>1
      <4>2. QED
        BY <4>1, SlotAtType, Zenon
    <3> HIDE DEF b
    <3>2. QED
      BY <3>1, Zenon
  <2>2. /\ IsFiniteSet(0..b) /\ Cardinality(0..b) = b + 1
        /\ IsFiniteSet(Slots(r)) /\ Cardinality(Slots(r)) = b
    BY <1>1, FS_Interval
  <2>3. \E x, y \in 0..b : x # y /\ g[x] = g[y]
    <3> HIDE DEF g, b
    <3>1. Cardinality(Slots(r)) < Cardinality(0..b)
      BY <1>1, <2>2
    <3>2. IsFiniteSet(0..b) /\ IsFiniteSet(Slots(r))
      BY <2>2
    <3> DEFINE A == 0..b
    <3> HIDE DEF A
    <3>3. g \in [A -> Slots(r)] /\ IsFiniteSet(A) /\ Cardinality(Slots(r)) < Cardinality(A)
      BY <2>1, <3>1, <3>2 DEF A
    <3>4. \E x, y \in A : x # y /\ g[x] = g[y]
      BY <3>2, <3>3, Collide, Zenon
    <3>5. QED
      BY <3>4 DEF A
  <2>4. PICK x \in 0..b, y \in 0..b : x < y /\ SlotAt(r, x) = SlotAt(r, y)
    BY <1>1, <2>3
  <2>5. x \in 0..(y - 1)
    BY <1>1, <2>4
  <2>6. QED
    BY <2>4, <2>5 DEF Revisits
<1>3. S \in SUBSET Nat /\ S # {}
  BY <1>1, <1>2
<1>4. PICK n \in S : \A m \in S : n <= m
  <2> HIDE DEF S
  <2>1. QED
    BY <1>3, LeastNat
<1>5. n \in 0..b /\ Stop(n) /\ \A k \in 0..(n - 1) : ~Stop(k)
  <2>1. n \in 0..b /\ Stop(n)
    BY <1>4
  <2>2. ASSUME NEW k \in 0..(n - 1), Stop(k) PROVE FALSE
    <3>1. k \in S /\ k < n
      BY <1>1, <2>1, <2>2
    <3>2. QED
      BY <1>1, <1>4, <2>1, <3>1
  <2>3. QED
    BY <2>1, <2>2
<1>6. \E m \in 0..r.buf_size :
        /\ r.reorder_buf[SlotAt(r, m)] = NULL \/ Revisits(r, m)
        /\ \A k \in 0..(m - 1) : r.reorder_buf[SlotAt(r, k)] # NULL /\ ~Revisits(r, k)
  BY <1>5
<1>7. QED
  BY <1>6 DEF Run

\* The slot at the head is empty.
HeadEmpty(r) == r.reorder_buf[SlotAt(r, 0)] = NULL

\* The first slot of what a loop leaves is the slot where it stopped.
LEMMA HeadMoved ==
  ASSUME NEW r, Sound(r), NEW n \in Nat, NEW s,
         s.ssn = r.ssn, s.buf_size = r.buf_size,
         s.head_seq_num = (r.head_seq_num + n) % SeqModulo
  PROVE  SlotAt(s, 0) = SlotAt(r, n)
<1>1. r.head_seq_num + n \in Int
  BY Fields DEF Sound, SeqNums
<1>2. s.head_seq_num \in 0..(SeqModulo - 1)
  BY <1>1, ModRange, SeqModuloAssumption
<1>3. (s.head_seq_num + 0) % SeqModulo = s.head_seq_num
  BY <1>2, ModNear, SeqModuloAssumption
<1>4. QED
  BY <1>3 DEF SlotAt, reorder_index

\* wil_reorder_release leaves nothing at the head.
LEMMA RunLeavesHeadEmpty ==
  ASSUME NEW r, Sound(r), NEW s, s = wil_release_reorder_frame(r, Run(r))
  PROVE  Sound(s) /\ HeadEmpty(s)
<1>1. r.buf_size \in WSizes /\ r \in Session(r.buf_size)
  BY DEF Sound
<1> DEFINE n == Run(r)
<1>2. n \in Nat /\ n <= SeqModulo /\ (r.reorder_buf[SlotAt(r, n)] = NULL \/ Revisits(r, n))
  BY <1>1, RunStops, Fields, SeqModuloAssumption
<1> HIDE DEF n
<1>3. /\ Sound(s) /\ s.buf_size = r.buf_size /\ s.ssn = r.ssn
      /\ s.head_seq_num = (r.head_seq_num + n) % SeqModulo
      /\ \A i \in Slots(r) : s.reorder_buf[i] = IF i \in Visited(r, n) THEN NULL ELSE r.reorder_buf[i]
  <2>1. s = wil_release_reorder_frame(r, n)
    BY DEF n
  <2>2. QED
    BY <1>2, <2>1, Release
<1>4. SlotAt(s, 0) = SlotAt(r, n)
  BY <1>2, <1>3, HeadMoved
<1>5. SlotAt(r, n) \in Slots(r)
  BY <1>1, <1>2, SlotAtType
<1>6. Revisits(r, n) => SlotAt(r, n) \in Visited(r, n)
  BY <1>5 DEF Revisits, Visited
<1>7. QED
  BY <1>2, <1>3, <1>4, <1>5, <1>6 DEF HeadEmpty

\* A frame in range that is put into its slot.
LEMMA Insert ==
  ASSUME NEW r, Sound(r), NEW f \in Frames, Ahead(f, r.head_seq_num) < r.buf_size,
         NEW i, i = reorder_index(r, wil_rxdesc_seq(f)), r.reorder_buf[i] = NULL,
         NEW s, s = [r EXCEPT !.reorder_buf[i] = f, !.stored_mpdu_num = @ + 1]
  PROVE  Sound(s)
<1>1. r.buf_size \in WSizes /\ r \in Session(r.buf_size)
  BY DEF Sound
<1>2. f \in Nat /\ f # NULL
  BY FramesAssumption
<1>3. wil_rxdesc_seq(f) \in Nat
  BY <1>2, ModRange, SeqModuloAssumption DEF wil_rxdesc_seq
<1>4. i \in Slots(r)
  BY <1>1, <1>3, IndexType
<1>5. /\ s.buf_size = r.buf_size /\ s.ssn = r.ssn /\ s.head_seq_num = r.head_seq_num
      /\ s.stored_mpdu_num = r.stored_mpdu_num + 1
      /\ s.reorder_buf = [r.reorder_buf EXCEPT ![i] = f]
  BY <1>1 DEF Session
<1>6. r.reorder_buf \in [Slots(r) -> Frames \cup {NULL}] /\ Slots(s) = Slots(r)
  BY <1>1, <1>5, Fields DEF Slots
<1>7. /\ s.reorder_buf \in [Slots(r) -> Frames \cup {NULL}]
      /\ s.reorder_buf[i] = f /\ \A j \in Slots(r) \ {i} : s.reorder_buf[j] = r.reorder_buf[j]
  BY <1>4, <1>5, <1>6
<1>8. Stored(s) = Stored(r) \cup {i} /\ i \notin Stored(r)
  BY <1>2, <1>4, <1>6, <1>7 DEF Stored
<1>9. Cardinality(Stored(s)) = s.stored_mpdu_num
  <2>1. IsFiniteSet(Stored(r))
    BY <1>1, StoredFinite
  <2>2. QED
    BY <1>5, <1>8, <2>1, FS_AddElement DEF Sound
<1>10. s.stored_mpdu_num \in 0..r.buf_size
  <2>1. IsFiniteSet(Slots(r)) /\ Cardinality(Slots(r)) = r.buf_size
    BY <1>1, SlotCount
  <2>2. Stored(s) \in SUBSET Slots(r)
    BY <1>6 DEF Stored
  <2>3. QED
    BY <1>1, <1>9, <2>1, <2>2, FS_Subset, FS_CardinalityType, Fields
<1>11. s \in Session(s.buf_size)
  <2>1. s = [r EXCEPT !.reorder_buf = s.reorder_buf, !.stored_mpdu_num = s.stored_mpdu_num]
    BY <1>1, <1>5 DEF Session
  <2>2. QED
    BY <1>1, <1>5, <1>7, <1>10, <2>1 DEF Session, Slots
<1>12. InRange(s)
  <2>1. \A j \in Stored(r) : j # i /\ s.reorder_buf[j] = r.reorder_buf[j]
    BY <1>7, <1>8 DEF Stored
  <2>2. \A q : reorder_index(s, q) = reorder_index(r, q)
    BY <1>5 DEF reorder_index
  <2>3. QED
    BY <1>5, <1>7, <1>8, <2>1, <2>2 DEF InRange, Sound
<1>13. QED
  BY <1>1, <1>5, <1>9, <1>11, <1>12 DEF Sound

\* The rest of wil_rx_reorder keeps the buffer sound, and the slot at the head
\* empty, if the frame is in range.
LEMMA PlaceSound ==
  ASSUME NEW r, Sound(r), NEW f \in Frames, NEW done,
         Ahead(f, r.head_seq_num) < r.buf_size, Place(r, f, done)
  PROVE  /\ Sound(tid_rx')
         /\ HeadEmpty(r) \/ r.reorder_buf[reorder_index(r, wil_rxdesc_seq(f))] = NULL =>
              HeadEmpty(tid_rx')
<1> DEFINE seq == wil_rxdesc_seq(f)
           index == reorder_index(r, seq)
           with == [r EXCEPT !.reorder_buf[index] = f, !.stored_mpdu_num = @ + 1]
<1>1. CASE r.reorder_buf[index] # NULL
  <2>1. tid_rx' = r
    BY <1>1 DEF Place
  <2>2. QED
    BY <1>1, <2>1
<1>2. CASE r.reorder_buf[index] = NULL /\ seq = r.head_seq_num /\ r.stored_mpdu_num = 0
  <2>1. tid_rx' = [r EXCEPT !.head_seq_num = seq_inc(@)]
    BY <1>2 DEF Place
  <2>2. r.buf_size \in WSizes /\ r \in Session(r.buf_size)
    BY DEF Sound
  <2>3. Stored(r) = {}
    BY <1>2, <2>2, StoredFinite, FS_EmptySet DEF Sound
  <2>4. seq_inc(r.head_seq_num) \in SeqNums
    BY <2>2, Fields, ModRange, SeqModuloAssumption DEF seq_inc, SeqNums
  <2>5. /\ tid_rx'.buf_size = r.buf_size /\ tid_rx'.reorder_buf = r.reorder_buf
        /\ tid_rx'.stored_mpdu_num = 0 /\ tid_rx' \in Session(r.buf_size)
    BY <1>2, <2>1, <2>2, <2>4 DEF Session
  <2>6. Stored(tid_rx') = {}
    BY <2>3, <2>5 DEF Stored, Slots
  <2>7. Sound(tid_rx')
    BY <2>2, <2>5, <2>6, FS_EmptySet DEF Sound, InRange
  <2>8. SlotAt(tid_rx', 0) \in Slots(tid_rx')
    BY <2>2, <2>5, SlotAtType
  <2>9. HeadEmpty(tid_rx')
    BY <2>6, <2>8 DEF HeadEmpty, Stored
  <2>10. QED
    BY <2>7, <2>9
<1>3. CASE r.reorder_buf[index] = NULL /\ ~(seq = r.head_seq_num /\ r.stored_mpdu_num = 0)
  <2>1. tid_rx' = wil_release_reorder_frame(with, Run(with))
    BY <1>3 DEF Place
  <2>2. Sound(with)
    BY <1>3, Insert
  <2> HIDE DEF with
  <2>3. QED
    BY <2>1, <2>2, RunLeavesHeadEmpty
<1>4. QED
  BY <1>1, <1>2, <1>3

-----------------------------------------------------------------------------
\* Where the head goes to make room, and that the frame is then in range: at its
\* end, if the head moved.  A window of 1 does not do.
LEMMA RoomMade ==
  ASSUME NEW r, Sound(r), r.buf_size >= 2, NEW f \in Frames,
         ~seq_less(wil_rxdesc_seq(f), r.head_seq_num)
  PROVE  LET n == MakeRoom(r, wil_rxdesc_seq(f))
             a == Ahead(f, r.head_seq_num)
         IN  /\ n \in Nat /\ n <= SeqModulo /\ n <= a /\ a \in SeqNums
             /\ a - n < r.buf_size
             /\ n > 0 => a - n = r.buf_size - 1
<1> DEFINE M == SeqModulo
           H == M \div 2
           q == wil_rxdesc_seq(f)
           h == r.head_seq_num
           b == r.buf_size
           a == seq_sub(q, h)
           n == MakeRoom(r, q)
           t == seq_inc(seq_sub(q, b))
<1>1. /\ h \in SeqNums /\ b \in Nat /\ b >= 2 /\ 2 * b < M
  BY Fields DEF Sound
<1>2. q \in SeqNums
  <2>1. f \in Int
    BY FramesAssumption
  <2>2. QED
    BY <2>1, ModRange, SeqModuloAssumption DEF wil_rxdesc_seq, SeqNums
<1>3. M \in Nat /\ M > 2 /\ 2 * H <= M /\ M <= 2 * H + 1 /\ H \in Nat
  BY SeqModuloAssumption, HalfRange
<1> HIDE DEF q, h, b, H, M
<1>4. h \in 0..(M - 1) /\ q \in 0..(M - 1) /\ (a = IF q >= h THEN q - h ELSE q - h + M) /\ a \in 0..(M - 1)
  BY <1>1, <1>2, SubIs DEF SeqNums, M
<1>5. a <= H
  <2>1. ~(seq_sub(q, h) > H)
    BY DEF seq_less, q, h, H, M
  <2>2. QED
    BY <1>3, <1>4, <2>1
<1> DEFINE past == seq_sub(q, h + b)
<1>6. past = (IF a >= b THEN a - b ELSE a - b + M)
  <2>1. past = (q - (h + b)) % M
    BY DEF seq_sub, M
  <2> HIDE DEF past, a
  <2>2. -2 * M <= q - (h + b) /\ q - (h + b) < 2 * M /\ q - (h + b) \in Int
    BY <1>1, <1>3, <1>4
  <2>3. past = LET x == q - (h + b)
               IN  IF x < -M THEN x + 2 * M ELSE IF x < 0 THEN x + M ELSE IF x < M THEN x ELSE x - M
    BY <1>3, <2>1, <2>2, ModNear
  <2>4. QED
    BY <1>1, <1>3, <1>4, <1>5, <2>3
<1>7. seq_less(q, h + b) <=> a < b
  <2>1. seq_less(q, h + b) <=> past > H
    BY DEF seq_less, H, M
  <2> HIDE DEF past, a
  <2>2. QED
    BY <1>1, <1>3, <1>4, <1>5, <1>6, <2>1
<1>8. t \in SeqNums /\ (a >= b => t = (h + (a - b + 1)) % M)
  <2> DEFINE u == seq_sub(q, b)
  <2>1. u = (IF q >= b THEN q - b ELSE q - b + M) /\ u \in 0..(M - 1)
    <3>1. b \in SeqNums
      BY <1>1, <1>3 DEF SeqNums, M
    <3>2. QED
      BY <1>2, <3>1, SubIs DEF SeqNums, M
  <2>2. t = (u + 1) % M
    BY DEF seq_inc, M
  <2> HIDE DEF u, t, a
  <2>3. t = (IF u + 1 < M THEN u + 1 ELSE u + 1 - M)
    <3>1. u + 1 \in Nat /\ u + 1 < 2 * M /\ M > 0
      BY <1>3, <2>1
    <3>2. (u + 1) % M = IF u + 1 < M THEN u + 1 ELSE u + 1 - M
      BY <1>3, <2>1, <3>1, ModOnce
    <3>3. QED
      BY <2>2, <3>2
  <2>4. t \in SeqNums
    BY <1>3, <2>1, <2>3 DEF SeqNums, M
  <2>5. ASSUME a >= b PROVE t = (h + (a - b + 1)) % M
    <3> DEFINE v == h + (a - b + 1)
    <3>1. v \in Nat /\ v < 2 * M /\ M > 0
      BY <1>1, <1>3, <1>4, <2>5
    <3>2. v % M = IF v < M THEN v ELSE v - M
      <4> HIDE DEF v
      <4>1. QED
        BY <1>3, <3>1, ModOnce
    <3>3. QED
      BY <1>1, <1>3, <1>4, <2>1, <2>3, <2>5, <3>2
  <2>6. QED
    BY <2>4, <2>5
<1>9. CASE a < b
  <2>1. n = 0
    BY <1>7, <1>9 DEF MakeRoom, q, h, b
  <2> HIDE DEF n, a
  <2>2. n \in Nat /\ n <= M /\ n <= a /\ a \in SeqNums /\ a - n < b /\ (n > 0 => a - n = b - 1)
    BY <1>3, <1>4, <1>9, <2>1 DEF SeqNums, M
  <2>3. QED
    BY <2>2 DEF n, a, q, h, b, M, Ahead
<1>10. CASE a >= b
  <2> DEFINE k == a - b + 1
  <2>1. k \in 1..(M - 1) /\ k <= a /\ k <= H
    <3> HIDE DEF a
    <3>1. QED
      BY <1>1, <1>3, <1>4, <1>5, <1>10
  <2>2. t = (h + k) % M /\ t \in SeqNums
    BY <1>8, <1>10
  <2> HIDE DEF t
  <2>3. seq_sub(t, h) = k /\ seq_sub(h, t) = M - k
    <3>1. t = IF h + k < M THEN h + k ELSE h + k - M
      <4>1. h + k \in Nat /\ h + k < 2 * M /\ M > 0
        BY <1>3, <1>4, <2>1
      <4> HIDE DEF k
      <4>2. QED
        BY <1>3, <1>4, <2>1, <2>2, <4>1, ModOnce
    <3>2. /\ seq_sub(t, h) = IF t >= h THEN t - h ELSE t - h + M
          /\ seq_sub(h, t) = IF h >= t THEN h - t ELSE h - t + M
      BY <1>1, <2>2, SubIs DEF M, h
    <3> HIDE DEF k
    <3>3. QED
      BY <1>3, <1>4, <2>1, <3>1, <3>2
  <2>4. seq_less(h, t)
    <3>1. M - k > H
      <4> HIDE DEF a
      <4>1. QED
        BY <1>1, <1>3, <1>4, <1>5, <1>10
    <3>2. QED
      BY <2>3, <3>1 DEF seq_less, H, M
  <2>5. n = StepsTo(r, t)
    <3>1. ~seq_less(q, h + b)
      <4> HIDE DEF a
      <4>1. QED
        BY <1>1, <1>4, <1>7, <1>10
    <3>2. QED
      BY <3>1 DEF MakeRoom, q, h, b, t
  <2>6. n = k
    BY <2>3, <2>4, <2>5 DEF StepsTo, h
  <2> HIDE DEF n, a
  <2>7. n \in Nat /\ n <= M /\ n <= a /\ a \in SeqNums /\ a - n < b /\ (n > 0 => a - n = b - 1)
    BY <1>1, <1>3, <1>4, <2>1, <2>6 DEF SeqNums, M
  <2>8. QED
    BY <2>7 DEF n, a, q, h, b, M, Ahead
<1>11. QED
  <2> HIDE DEF a
  <2>1. QED
    BY <1>1, <1>4, <1>9, <1>10

\* Numbers that differ by a multiple of b have one remainder.
LEMMA ModMultiple ==
  ASSUME NEW b \in Nat, b > 0, NEW x \in Int, NEW z \in Int
  PROVE  (x + b * z) % b = x % b
<1> DEFINE y == x + b * z
<1>1. b * z \in Int /\ y \in Int
  OBVIOUS
<1>2. x = b * (x \div b) + (x % b) /\ x \div b \in Int /\ x % b \in 0..(b - 1)
  OBVIOUS
<1> HIDE DEF y
<1>3. y = b * (y \div b) + (y % b) /\ y \div b \in Int /\ y % b \in 0..(b - 1)
  BY <1>1
<1> USE DEF y
<1>4. PICK i \in Int, j \in Int, d \in Int, e \in Int :
        i = x \div b /\ j = y \div b /\ d = x % b /\ e = y % b
  BY <1>2, <1>3
<1>5. b * j + e = b * i + d + b * z /\ d \in 0..(b - 1) /\ e \in 0..(b - 1)
  BY <1>2, <1>3, <1>4
<1>6. b * (j - i - z) = d - e
  BY <1>5
<1>7. PICK k \in Int : k = j - i - z
  OBVIOUS
<1>8. b * k = d - e
  BY <1>6, <1>7
<1>9. k >= 1 => b * k >= b
  BY <1>7
<1>10. k <= -1 => b * k <= -b
  BY <1>7
<1>11. k = 0
  BY <1>5, <1>8, <1>9, <1>10
<1>12. d = e
  BY <1>5, <1>8, <1>11
<1>13. QED
  BY <1>4, <1>12

\* The slot of a position, without the modulus of the sequence space, which a
\* window that divides that does not see.
LEMMA SlotAtIs ==
  ASSUME NEW r, r.buf_size \in WSizes, r \in Session(r.buf_size),
         SeqModulo % r.buf_size = 0, NEW j \in Nat
  PROVE  SlotAt(r, j) = (r.head_seq_num + j - r.ssn) % r.buf_size
<1> DEFINE M == SeqModulo
           b == r.buf_size
           h == r.head_seq_num
           c == M \div b
<1>1. b \in Nat /\ b > 0 /\ M \in Nat /\ M > 0 /\ h \in Int /\ r.ssn \in Int
  BY Fields, SeqModuloAssumption DEF SeqNums
<1>2. c \in Int /\ M = b * c
  <2>1. M = b * (M \div b) + (M % b) /\ M \div b \in Int
    BY <1>1
  <2>2. QED
    BY <1>1, <2>1
<1> HIDE DEF M, b, h, c
<1>3. ASSUME NEW x \in Int PROVE \E z \in Int : x % M = x + b * z
  <2>1. PICK d \in Int : d = x \div M /\ x = M * d + (x % M)
    BY <1>1
  <2>2. PICK e \in Int : e = x % M
    BY <1>1
  <2>3. M * d = b * (c * d)
    BY <1>1, <1>2
  <2>4. PICK z \in Int : z = -(c * d)
    BY <1>2
  <2>5. b * z = -(b * (c * d))
    BY <1>1, <1>2, <2>4
  <2>6. e = x + b * z
    BY <1>1, <1>2, <2>1, <2>2, <2>3, <2>5
  <2>7. QED
    BY <2>2, <2>6
<1>4. PICK u \in Int : u = (h + j) % M
  BY <1>1
<1>5. SlotAt(r, j) = ((u - r.ssn) % M) % b
  BY <1>4 DEF SlotAt, reorder_index, seq_sub, M, h, b
<1>6. PICK x \in Int : x = h + j - r.ssn
  BY <1>1
<1>7. PICK z \in Int : u = h + j + b * z
  <2>1. h + j \in Int
    BY <1>1
  <2>2. QED
    BY <1>3, <1>4, <2>1
<1>8. PICK v \in Int : v = u - r.ssn
  BY <1>1
<1>9. PICK y \in Int : v % M = v + b * y
  BY <1>3
<1>10. v = x + b * z
  BY <1>1, <1>6, <1>7, <1>8
<1>11. v % b = x % b
  BY <1>1, <1>10, ModMultiple
<1>12. (v % M) % b = v % b
  <2>1. (v + b * y) % b = v % b
    BY <1>1, ModMultiple
  <2>2. QED
    BY <1>9, <2>1
<1>13. QED
  BY <1>5, <1>6, <1>8, <1>11, <1>12 DEF h, b

\* Division by b.
LEMMA Quotient ==
  ASSUME NEW b \in Nat, b > 0, NEW x \in Int
  PROVE  \E d \in Int : x = b * d + (x % b) /\ x % b \in Int
<1>1. x = b * (x \div b) + (x % b) /\ x \div b \in Int /\ x % b \in Int
  OBVIOUS
<1>2. QED
  BY <1>1

\* A window that divides the sequence space meets each slot again after
\* buf_size numbers, also across the wrap.
LEMMA SlotAgain ==
  ASSUME NEW r, r.buf_size \in WSizes, r \in Session(r.buf_size),
         SeqModulo % r.buf_size = 0, NEW k \in Nat
  PROVE  SlotAt(r, k + r.buf_size) = SlotAt(r, k)
<1>1. PICK b \in Nat, h \in Int, s \in Int :
        b = r.buf_size /\ h = r.head_seq_num /\ s = r.ssn /\ b > 0
  BY Fields DEF SeqNums
<1>2. PICK x \in Int : x = h + k - s
  BY <1>1
<1>3. PICK z \in Int, y \in Int : z = 1 /\ y = x + b * z
  BY <1>1
<1>4. y % b = x % b
  BY <1>1, <1>3, ModMultiple
<1>5. SlotAt(r, k + b) = y % b
  <2>1. k + b \in Nat /\ h + (k + b) - s = y
    BY <1>1, <1>2, <1>3
  <2>2. SlotAt(r, k + b) = (h + (k + b) - s) % b
    BY <1>1, <2>1, SlotAtIs
  <2>3. QED
    BY <2>1, <2>2
<1>6. SlotAt(r, k) = x % b
  BY <1>1, <1>2, SlotAtIs
<1>7. QED
  BY <1>1, <1>4, <1>5, <1>6

\* The number at distance k from the head is in the slot of that distance.
LEMMA SlotOfFrame ==
  ASSUME NEW r, Sound(r), NEW q \in SeqNums
  PROVE  SlotAt(r, seq_sub(q, r.head_seq_num)) = reorder_index(r, q)
<1>1. r.head_seq_num \in SeqNums
  BY Fields DEF Sound
<1>2. QED
  BY <1>1, Reach DEF SlotAt

-----------------------------------------------------------------------------
(* Sorting. *)

\* Ranks are below the size of the set and go up with the elements.
LEMMA RankBelow ==
  ASSUME NEW S \in SUBSET Int, IsFiniteSet(S), NEW x \in S
  PROVE  /\ Rank(S, x) \in 0..(Cardinality(S) - 1)
         /\ \A y \in S : x < y => Rank(S, x) < Rank(S, y)
<1>1. ASSUME NEW T \in SUBSET S, NEW U \in SUBSET T, NEW z \in T, z \notin U
      PROVE  Cardinality(U) < Cardinality(T) /\ Cardinality(U) \in Nat /\ Cardinality(T) \in Nat
  <2>1. IsFiniteSet(T)
    BY FS_Subset
  <2>2. /\ IsFiniteSet(U) /\ Cardinality(U) <= Cardinality(T)
        /\ Cardinality(T) = Cardinality(U) => T = U
    BY <2>1, FS_Subset
  <2>3. Cardinality(T) # Cardinality(U)
    BY <1>1, <2>2
  <2>4. QED
    BY <2>1, <2>2, <2>3, FS_CardinalityType
<1>2. Rank(S, x) \in 0..(Cardinality(S) - 1)
  <2>1. {y \in S : y < x} \in SUBSET S /\ x \notin {y \in S : y < x}
    OBVIOUS
  <2>2. Cardinality({y \in S : y < x}) < Cardinality(S) /\ Cardinality({y \in S : y < x}) \in Nat
        /\ Cardinality(S) \in Nat
    BY <1>1, <2>1
  <2>3. QED
    BY <2>2 DEF Rank
<1>3. ASSUME NEW y \in S, x < y PROVE Rank(S, x) < Rank(S, y)
  <2>1. \A z \in S : z < x => z < y
    BY <1>3
  <2>2. ~(x < x)
    OBVIOUS
  <2> DEFINE T == {z \in S : z < y}
             U == {z \in S : z < x}
  <2>3. T \in SUBSET S /\ U \in SUBSET T /\ x \in T /\ x \notin U
    BY <1>3, <2>1, <2>2, Zenon
  <2> HIDE DEF T, U
  <2>4. Cardinality(U) < Cardinality(T)
    BY <1>1, <2>3
  <2>5. QED
    BY <2>4 DEF Rank, T, U
<1>4. QED
  BY <1>2, <1>3

\* The numbers below n.
LEMMA CountUpTo ==
  ASSUME NEW n \in Nat
  PROVE  IsFiniteSet(0..(n - 1)) /\ Cardinality(0..(n - 1)) = n
BY FS_Interval

\* Every rank is somebody's.
LEMMA RankTaken ==
  ASSUME NEW S \in SUBSET Int, IsFiniteSet(S), NEW j \in 1..Cardinality(S)
  PROVE  \E x \in S : Rank(S, x) = j - 1
<1> DEFINE T == 0..(Cardinality(S) - 1)
           g == [x \in S |-> Rank(S, x)]
<1>1. Cardinality(S) \in Nat
  BY FS_CardinalityType
<1>2. g \in [S -> T]
  BY RankBelow
<1>3. ASSUME NEW x \in S, NEW y \in S, g[x] = g[y] PROVE x = y
  <2>1. g[x] = Rank(S, x) /\ g[y] = Rank(S, y) /\ g[x] \in Int
    BY <1>2
  <2>2. ~(x < y) /\ ~(y < x)
    BY <1>3, <2>1, RankBelow
  <2>3. QED
    BY <2>2
<1> HIDE DEF g
<1>4. g \in Injection(S, T)
  BY <1>2, <1>3 DEF Injection, IsInjective
<1>5. IsFiniteSet(T) /\ Cardinality(T) = Cardinality(S)
  BY <1>1, CountUpTo, Zenon
<1>6. g \in Surjection(S, T)
  <2> HIDE DEF T
  <2>1. QED
    BY <1>4, <1>5, FS_Injection
<1>7. j - 1 \in T
  BY <1>1
<1>8. PICK x \in S : g[x] = j - 1
  BY <1>6, <1>7 DEF Surjection
<1>9. QED
  BY <1>8 DEF g

\* The elements of a set, each once, in ascending order.
LEMMA AscendingIs ==
  ASSUME NEW S \in SUBSET Int, IsFiniteSet(S)
  PROVE  /\ Cardinality(S) \in Nat /\ DOMAIN Ascending(S) = 1..Cardinality(S)
         /\ \A j \in 1..Cardinality(S) : Ascending(S)[j] \in S
         /\ \A x \in S : \E j \in 1..Cardinality(S) : Ascending(S)[j] = x
         /\ \A i, j \in 1..Cardinality(S) : i < j => Ascending(S)[i] < Ascending(S)[j]
<1>1. Cardinality(S) \in Nat
  BY FS_CardinalityType
<1>2. ASSUME NEW j \in 1..Cardinality(S)
      PROVE  Ascending(S)[j] \in S /\ Rank(S, Ascending(S)[j]) = j - 1
  <2>1. Ascending(S)[j] = CHOOSE x \in S : Rank(S, x) = j - 1
    BY DEF Ascending
  <2>2. \E x \in S : Rank(S, x) = j - 1
    BY RankTaken
  <2>3. QED
    BY <2>1, <2>2
<1>3. ASSUME NEW x \in S PROVE \E j \in 1..Cardinality(S) : Ascending(S)[j] = x
  <2>1. PICK j \in Int : j = Rank(S, x) + 1 /\ j \in 1..Cardinality(S)
    BY <1>1, RankBelow
  <2>2. PICK y \in S : y = Ascending(S)[j] /\ Rank(S, y) = Rank(S, x)
    <3>1. Rank(S, Ascending(S)[j]) = j - 1 /\ Ascending(S)[j] \in S
      BY <1>2, <2>1
    <3>2. Rank(S, x) \in Int
      BY RankBelow
    <3>3. Rank(S, Ascending(S)[j]) = Rank(S, x)
      BY <2>1, <3>1, <3>2
    <3>4. QED
      BY <3>1, <3>3, Zenon
  <2>3. Rank(S, x) \in Int /\ ~(x < y) /\ ~(y < x)
    BY <2>2, RankBelow
  <2>4. x = y
    BY <2>2, <2>3
  <2>5. QED
    BY <2>1, <2>2, <2>4
<1>4. ASSUME NEW i \in 1..Cardinality(S), NEW j \in 1..Cardinality(S), i < j
      PROVE  Ascending(S)[i] < Ascending(S)[j]
  <2>1. PICK x \in S, y \in S : /\ x = Ascending(S)[i] /\ y = Ascending(S)[j]
                                /\ Rank(S, x) = i - 1 /\ Rank(S, y) = j - 1
    BY <1>2
  <2>2. Rank(S, x) < Rank(S, y)
    BY <1>4, <2>1
  <2>3. ~(y < x) /\ x # y
    BY <2>2, RankBelow, <2>1
  <2>4. QED
    BY <2>1, <2>3
<1>5. QED
  BY <1>1, <1>2, <1>3, <1>4 DEF Ascending

\* A set that is numbered from 1 to n has n elements.
LEMMA Numbered ==
  ASSUME NEW T, NEW n \in Nat, NEW g \in [1..n -> T],
         \A i, j \in 1..n : g[i] = g[j] => i = j,
         \A x \in T : \E j \in 1..n : g[j] = x
  PROVE  IsFiniteSet(T) /\ Cardinality(T) = n
<1>1. IsFiniteSet(1..n) /\ Cardinality(1..n) = n
  BY FS_Interval
<1>2. g \in Bijection(1..n, T)
  BY DEF Bijection, Injection, Surjection, IsInjective
<1> DEFINE D == 1..n
<1>3. g \in Bijection(D, T) /\ IsFiniteSet(D) /\ Cardinality(D) = n
  BY <1>1, <1>2
<1> HIDE DEF D
<1>4. ExistsBijection(D, T)
  BY <1>3 DEF ExistsBijection
<1>5. QED
  BY <1>3, <1>4, FS_Bijection

\* There is one ascending sequence of the elements of a set.
LEMMA AscendingUnique ==
  ASSUME NEW S \in SUBSET Int, NEW Q \in Seq(Int),
         \A i, j \in 1..Len(Q) : i < j => Q[i] < Q[j],
         \A j \in 1..Len(Q) : Q[j] \in S,
         \A x \in S : \E j \in 1..Len(Q) : Q[j] = x
  PROVE  Q = Ascending(S)
<1>1. PICK N \in Nat : N = Len(Q) /\ DOMAIN Q = 1..N
  OBVIOUS
<1>2. \A i, j \in 1..N : Q[i] = Q[j] => i = j
  <2>1. SUFFICES ASSUME NEW i \in 1..N, NEW j \in 1..N, Q[i] = Q[j] PROVE i = j
    OBVIOUS
  <2>2. Q[i] \in Int /\ Q[j] \in Int
    BY <1>1
  <2>3. ~(i < j) /\ ~(j < i)
    BY <1>1, <2>1, <2>2
  <2>4. QED
    BY <2>3
<1>3. Q \in [1..N -> S]
  BY <1>1
<1>4. IsFiniteSet(S) /\ Cardinality(S) = N
  <2> DEFINE g == [j \in 1..N |-> Q[j]]
  <2>1. \A x \in S : \E j \in 1..N : g[j] = x
    BY <1>1
  <2>2. g \in [1..N -> S]
    BY <1>3
  <2>3. \A i, j \in 1..N : g[i] = g[j] => i = j
    BY <1>2
  <2> HIDE DEF g
  <2>4. QED
    BY <2>1, <2>2, <2>3, Numbered
<1>5. ASSUME NEW j \in 1..N PROVE Rank(S, Q[j]) = j - 1
  <2> DEFINE T == {y \in S : y < Q[j]}
             g == [i \in 1..(j - 1) |-> Q[i]]
  <2>1. j - 1 \in Nat /\ \A i \in 1..(j - 1) : i \in 1..N /\ i < j
    BY <1>1
  <2>2. g \in [1..(j - 1) -> T]
    <3>1. \A i \in 1..(j - 1) : Q[i] \in T
      BY <1>1, <2>1
    <3> HIDE DEF T
    <3>2. QED
      BY <3>1
  <2>3. \A i, k \in 1..(j - 1) : g[i] = g[k] => i = k
    BY <1>2, <2>1
  <2>4. ASSUME NEW x \in T PROVE \E i \in 1..(j - 1) : g[i] = x
    <3>1. x \in S /\ x < Q[j]
      OBVIOUS
    <3>2. PICK i \in 1..N : Q[i] = x
      BY <1>1, <3>1
    <3>3. ~(j < i) /\ i # j
      <4>1. Q[i] \in Int /\ Q[j] \in Int
        BY <1>1
      <4>2. QED
        BY <1>1, <3>1, <3>2, <4>1
    <3>4. i \in 1..(j - 1)
      BY <1>1, <3>3
    <3>5. QED
      BY <3>2, <3>4
  <2> HIDE DEF T, g
  <2>5. Cardinality(T) = j - 1
    BY <2>1, <2>2, <2>3, <2>4, Numbered
  <2>6. QED
    BY <2>5 DEF Rank, T
<1>6. ASSUME NEW j \in 1..N PROVE Ascending(S)[j] = Q[j]
  <2>1. Q[j] \in S /\ Rank(S, Q[j]) = j - 1
    BY <1>1, <1>5
  <2>2. ASSUME NEW x \in S, Rank(S, x) = j - 1 PROVE x = Q[j]
    <3>1. PICK y \in S : y = Q[j] /\ Rank(S, y) = Rank(S, x)
      BY <2>1, <2>2
    <3>2. Rank(S, x) \in Int
      BY <2>2
    <3>3. ~(x < y) /\ ~(y < x)
      BY <1>4, <3>1, <3>2, RankBelow
    <3>4. x = y
      BY <3>3
    <3>5. QED
      BY <3>1, <3>4
  <2>3. Ascending(S)[j] = CHOOSE x \in S : Rank(S, x) = j - 1
    BY <1>4 DEF Ascending
  <2>4. QED
    BY <2>1, <2>2, <2>3
<1>7. DOMAIN Ascending(S) = 1..N /\ Ascending(S) = [j \in 1..N |-> Ascending(S)[j]]
  BY <1>4 DEF Ascending
<1>8. Q = [j \in 1..N |-> Q[j]]
  BY <1>3
<1>9. QED
  BY <1>6, <1>7, <1>8

-----------------------------------------------------------------------------
(* What the loops give to the stack. *)

\* The positions at which a loop finds a frame.
LEMMA HitsFinite ==
  ASSUME NEW r, NEW n \in Nat
  PROVE  IsFiniteSet(Hits(r, n)) /\ Hits(r, n) \in SUBSET Int
<1>1. Hits(r, n) \in SUBSET (0..(n - 1))
  BY DEF Hits
<1>2. IsFiniteSet(0..(n - 1))
  BY FS_Interval
<1>3. QED
  BY <1>1, <1>2, FS_Subset

\* Released gives the frames at these positions, in their order.
LEMMA ReleasedIs ==
  ASSUME NEW r, r.buf_size \in WSizes, r \in Session(r.buf_size), NEW n \in Nat
  PROVE  LET R == Released(r, n)
             A == Ascending(Hits(r, n))
         IN  /\ R \in Seq(Frames) /\ Len(R) = Cardinality(Hits(r, n))
             /\ \A j \in 1..Len(R) : /\ A[j] \in Hits(r, n)
                                     /\ R[j] = r.reorder_buf[SlotAt(r, A[j])]
             /\ \A k \in Hits(r, n) : \E j \in 1..Len(R) : A[j] = k
             /\ \A i, j \in 1..Len(R) : i < j => A[i] < A[j]
<1> DEFINE R == Released(r, n)
           H == Hits(r, n)
           A == Ascending(H)
           N == Cardinality(H)
<1>1. IsFiniteSet(H) /\ H \in SUBSET Int
  BY HitsFinite
<1>2. /\ N \in Nat /\ DOMAIN A = 1..N
      /\ \A j \in 1..N : A[j] \in H
      /\ \A k \in H : \E j \in 1..N : A[j] = k
      /\ \A i, j \in 1..N : i < j => A[i] < A[j]
  <2> HIDE DEF H
  <2>1. QED
    BY <1>1, AscendingIs
<1>3. R = [j \in 1..N |-> r.reorder_buf[SlotAt(r, A[j])]]
  <2>1. R = [j \in DOMAIN A |-> r.reorder_buf[SlotAt(r, A[j])]]
    BY DEF Released
  <2>2. QED
    BY <1>2, <2>1, Zenon
<1>4. \A k \in H : r.reorder_buf[SlotAt(r, k)] \in Frames
  <2>1. SUFFICES ASSUME NEW k \in H PROVE r.reorder_buf[SlotAt(r, k)] \in Frames
    OBVIOUS
  <2>2. k \in Nat /\ r.reorder_buf[SlotAt(r, k)] # NULL
    BY DEF Hits
  <2>3. SlotAt(r, k) \in Slots(r)
    BY <2>2, SlotAtType
  <2>4. r.reorder_buf \in [Slots(r) -> Frames \cup {NULL}]
    BY Fields
  <2>5. QED
    BY <2>2, <2>3, <2>4
<1> HIDE DEF R, H, A, N
<1>5. \A j \in 1..N : r.reorder_buf[SlotAt(r, A[j])] \in Frames
  BY <1>2, <1>4
<1>6. R \in Seq(Frames) /\ Len(R) = N
  BY <1>2, <1>3, <1>5
<1>7. QED
  BY <1>2, <1>3, <1>6 DEF R, H, A, N

\* A held frame in a slot that a loop visits is given to the stack.
LEMMA ReleasedAll ==
  ASSUME NEW r, r.buf_size \in WSizes, r \in Session(r.buf_size), NEW n \in Nat,
         NEW i \in Stored(r) \cap Visited(r, n)
  PROVE  \E j \in 1..Len(Released(r, n)) : Released(r, n)[j] = r.reorder_buf[i]
<1>1. PICK k \in Hits(r, n) : SlotAt(r, k) = i
  BY HitSlots DEF Stored
<1>2. PICK j \in 1..Len(Released(r, n)) : Ascending(Hits(r, n))[j] = k
  BY ReleasedIs
<1>3. Released(r, n)[j] = r.reorder_buf[SlotAt(r, k)]
  BY <1>2, ReleasedIs
<1>4. QED
  BY <1>1, <1>3

\* Within a window no slot is met twice.
LEMMA SlotOnce ==
  ASSUME NEW r, r.buf_size \in WSizes, r \in Session(r.buf_size),
         SeqModulo % r.buf_size = 0,
         NEW j \in 0..(r.buf_size - 1), NEW k \in 0..(r.buf_size - 1),
         SlotAt(r, j) = SlotAt(r, k)
  PROVE  j = k
<1>1. PICK b \in Nat, c \in Int : b = r.buf_size /\ c = r.head_seq_num - r.ssn /\ b > 0
  BY Fields DEF SeqNums
<1>2. SlotAt(r, j) = (c + j) % b /\ SlotAt(r, k) = (c + k) % b
  <2>1. /\ SlotAt(r, j) = (r.head_seq_num + j - r.ssn) % r.buf_size
        /\ SlotAt(r, k) = (r.head_seq_num + k - r.ssn) % r.buf_size
    BY SlotAtIs, <1>1
  <2>2. r.head_seq_num \in Int /\ r.ssn \in Int
    BY Fields DEF SeqNums
  <2>3. c + j = r.head_seq_num + j - r.ssn /\ c + k = r.head_seq_num + k - r.ssn
    BY <1>1, <2>2
  <2>4. QED
    BY <1>1, <2>1, <2>3
<1>3. PICK x \in Int, y \in Int : x = c + j /\ y = c + k
  BY <1>1
<1>4. PICK d \in Int, e \in Int, m \in Int :
        x = b * d + m /\ y = b * e + m
  <2>1. PICK d \in Int : x = b * d + (x % b) /\ x % b \in Int
    BY <1>1, Quotient
  <2>2. PICK e \in Int : y = b * e + (y % b)
    BY <1>1, Quotient
  <2>3. x % b = y % b
    BY <1>2, <1>3
  <2>4. QED
    BY <2>1, <2>2, <2>3
<1>5. b * (d - e) = j - k
  <2>1. b * (d - e) = b * d - b * e
    BY <1>1
  <2>2. x - y = j - k
    BY <1>1, <1>3
  <2>3. QED
    BY <1>1, <1>4, <2>1, <2>2
<1>6. PICK z \in Int : z = d - e
  OBVIOUS
<1>7. b * z = j - k /\ j - k < b /\ k - j < b
  BY <1>1, <1>5, <1>6
<1>8. z >= 1 => b * z >= b
  BY <1>1, <1>6
<1>9. z <= -1 => b * z <= -b
  BY <1>1, <1>6
<1>10. z = 0
  BY <1>1, <1>7, <1>8, <1>9
<1>11. QED
  BY <1>1, <1>7, <1>10

\* The frame that a loop finds at position k is k ahead of the head.
LEMMA FrameAtSlot ==
  ASSUME NEW r, Sound(r), SeqModulo % r.buf_size = 0, NEW k \in 0..(r.buf_size - 1),
         NEW f, f = r.reorder_buf[SlotAt(r, k)], f # NULL
  PROVE  f \in Frames /\ Ahead(f, r.head_seq_num) = k
<1>1. /\ r.buf_size \in WSizes /\ r \in Session(r.buf_size)
      /\ r.buf_size \in Nat /\ r.reorder_buf \in [Slots(r) -> Frames \cup {NULL}]
  BY Fields DEF Sound
<1> DEFINE i == SlotAt(r, k)
           a == Ahead(f, r.head_seq_num)
           q == wil_rxdesc_seq(f)
<1>2. i \in Slots(r)
  BY <1>1, SlotAtType
<1>3. f \in Frames /\ i \in Stored(r)
  BY <1>1, <1>2 DEF Stored
<1>4. reorder_index(r, q) = i /\ a < r.buf_size
  BY <1>3 DEF Sound, InRange
<1>5. q \in SeqNums /\ r.head_seq_num \in SeqNums
  <2>1. f \in Int
    BY <1>3, FramesAssumption
  <2>2. QED
    BY <1>1, <2>1, Fields, ModRange, SeqModuloAssumption DEF wil_rxdesc_seq, SeqNums
<1>6. a \in SeqNums /\ SlotAt(r, a) = i
  <2>1. a = seq_sub(q, r.head_seq_num)
    BY DEF Ahead
  <2> HIDE DEF q
  <2>2. QED
    BY <1>4, <1>5, <2>1, SlotOfFrame, SubIs
<1>7. a \in 0..(r.buf_size - 1)
  BY <1>1, <1>4, <1>6, SeqModuloAssumption DEF SeqNums
<1> HIDE DEF a
<1>8. a = k
  BY <1>1, <1>6, <1>7, SlotOnce
<1>9. QED
  BY <1>3, <1>8 DEF a

\* A loop finds frames within one window only.
LEMMA HitsWithin ==
  ASSUME NEW r, r.buf_size \in WSizes, r \in Session(r.buf_size),
         SeqModulo % r.buf_size = 0, NEW n \in Nat
  PROVE  \A k \in Hits(r, n) : k \in 0..(r.buf_size - 1) /\ k < n
<1>1. SUFFICES ASSUME NEW k \in Hits(r, n) PROVE k \in 0..(r.buf_size - 1) /\ k < n
  OBVIOUS
<1>2. k \in 0..(n - 1) /\ ~Revisits(r, k)
  BY DEF Hits
<1>3. r.buf_size \in Nat /\ r.buf_size > 0
  BY Fields
<1>4. k < r.buf_size
  <2>1. SUFFICES ASSUME k >= r.buf_size PROVE FALSE
    BY <1>2, <1>3
  <2>2. PICK j \in Nat : j = k - r.buf_size /\ k = j + r.buf_size
    BY <1>2, <1>3, <2>1
  <2>3. SlotAt(r, j) = SlotAt(r, k)
    BY <2>2, SlotAgain
  <2>4. j \in 0..(k - 1)
    BY <1>2, <1>3, <2>2
  <2>5. QED
    BY <1>2, <2>3, <2>4 DEF Revisits
<1>5. QED
  BY <1>2, <1>3, <1>4

\* A loop of n turns gives frames less than n ahead of the head, in ascending order.
LEMMA ReleasedOrder ==
  ASSUME NEW r, Sound(r), SeqModulo % r.buf_size = 0, NEW n \in Nat
  PROVE  LET R == Released(r, n)
         IN  /\ R \in Seq(Frames)
             /\ \A j \in 1..Len(R) : Ahead(R[j], r.head_seq_num) \in 0..(n - 1)
             /\ \A i, j \in 1..Len(R) :
                  i < j => Ahead(R[i], r.head_seq_num) < Ahead(R[j], r.head_seq_num)
<1> DEFINE R == Released(r, n)
           A == Ascending(Hits(r, n))
<1>1. r.buf_size \in WSizes /\ r \in Session(r.buf_size)
  BY DEF Sound
<1>2. /\ R \in Seq(Frames)
      /\ \A j \in 1..Len(R) : A[j] \in Hits(r, n) /\ R[j] = r.reorder_buf[SlotAt(r, A[j])]
      /\ \A i, j \in 1..Len(R) : i < j => A[i] < A[j]
  BY <1>1, ReleasedIs
<1>3. \A j \in 1..Len(R) : Ahead(R[j], r.head_seq_num) = A[j] /\ A[j] \in 0..(n - 1)
  <2>1. SUFFICES ASSUME NEW j \in 1..Len(R)
                 PROVE  Ahead(R[j], r.head_seq_num) = A[j] /\ A[j] \in 0..(n - 1)
    OBVIOUS
  <2>2. A[j] \in Hits(r, n) /\ R[j] = r.reorder_buf[SlotAt(r, A[j])]
    BY <1>2
  <2>3. A[j] \in 0..(n - 1) /\ R[j] # NULL
    BY <2>2 DEF Hits
  <2>4. A[j] \in 0..(r.buf_size - 1)
    BY <1>1, <2>2, HitsWithin
  <2> HIDE DEF R, A
  <2>5. Ahead(R[j], r.head_seq_num) = A[j]
    BY <2>2, <2>3, <2>4, FrameAtSlot
  <2>6. QED
    BY <2>3, <2>5
<1> HIDE DEF R, A
<1>4. QED
  BY <1>2, <1>3 DEF R

\* Some position of a sequence holds x.
In(x, sq) == \E j \in DOMAIN sq : sq[j] = x

\* The numbers of the frames of sq are less than n ahead of h, and go up.
Between(sq, h, n) ==
  /\ \A j \in 1..Len(sq) : Ahead(sq[j], h) \in 0..(n - 1)
  /\ \A i, j \in 1..Len(sq) : i < j => Ahead(sq[i], h) < Ahead(sq[j], h)

\* A frame's number.
LEMMA SeqType ==
  ASSUME NEW f \in Frames
  PROVE  wil_rxdesc_seq(f) \in SeqNums
<1>1. f \in Int
  BY FramesAssumption
<1>2. QED
  BY <1>1, ModRange, SeqModuloAssumption DEF wil_rxdesc_seq, SeqNums

\* What is less than a round ahead of a head is that much farther from where the
\* head came from.
LEMMA MovedBack ==
  ASSUME NEW s \in SeqNums, NEW h \in SeqNums, NEW n \in Nat, NEW t, t = (h + n) % SeqModulo,
         n + seq_sub(s, t) < SeqModulo
  PROVE  seq_sub(s, h) = n + seq_sub(s, t)
<1> DEFINE M == SeqModulo
           a == seq_sub(s, h)
           b == seq_sub(s, t)
<1>1. M \in Nat /\ M > 0 /\ h \in 0..(M - 1) /\ s \in 0..(M - 1)
  BY SeqModuloAssumption DEF SeqNums
<1>2. t \in SeqNums
  BY <1>1, ModRange DEF SeqNums
<1>3. /\ b = IF s >= t THEN s - t ELSE s - t + M
      /\ a = IF s >= h THEN s - h ELSE s - h + M
      /\ b \in 0..(M - 1)
  BY <1>2, SubIs DEF SeqNums
<1>4. n + b < M
  OBVIOUS
<1> HIDE DEF M, a, b
<1>5. t = IF h + n < M THEN h + n ELSE h + n - M
  <2>1. t = (h + n) % M
    BY DEF M
  <2>2. h + n \in Nat /\ h + n < 2 * M
    BY <1>1, <1>3, <1>4
  <2>3. (h + n) % M = IF h + n < M THEN h + n ELSE h + n - M
    BY <1>1, <2>2, ModOnce
  <2>4. QED
    BY <2>1, <2>3
<1>6. a = n + b
  BY <1>1, <1>3, <1>4, <1>5
<1>7. QED
  BY <1>6 DEF a, b

\* The frames of two loops, one after the other.
LEMMA BetweenJoin ==
  ASSUME NEW h \in SeqNums, NEW n \in Nat, NEW m \in Nat, n + m <= SeqModulo,
         NEW P \in Seq(Frames), Between(P, h, n),
         NEW R \in Seq(Frames), Between(R, (h + n) % SeqModulo, m)
  PROVE  P \o R \in Seq(Frames) /\ Between(P \o R, h, n + m)
<1> DEFINE Q == P \o R
           t == (h + n) % SeqModulo
<1>1. /\ Q \in Seq(Frames) /\ Len(Q) = Len(P) + Len(R) /\ Len(P) \in Nat /\ Len(R) \in Nat
      /\ \A j \in 1..Len(P) : Q[j] = P[j]
      /\ \A j \in 1..Len(R) : Q[Len(P) + j] = R[j]
  OBVIOUS
<1> HIDE DEF Q
<1>2. ASSUME NEW j \in 1..Len(R)
      PROVE  Ahead(R[j], h) = n + Ahead(R[j], t) /\ Ahead(R[j], t) \in 0..(m - 1)
  <2>1. Ahead(R[j], t) \in 0..(m - 1)
    BY DEF Between
  <2>2. wil_rxdesc_seq(R[j]) \in SeqNums
    BY SeqType
  <2>3. n + Ahead(R[j], t) < SeqModulo
    BY <2>1, SeqModuloAssumption
  <2> HIDE DEF t
  <2>4. Ahead(R[j], h) = n + Ahead(R[j], t)
    <3>1. t = (h + n) % SeqModulo
      BY DEF t
    <3>2. QED
      BY <2>2, <2>3, <3>1, MovedBack DEF Ahead
  <2>5. QED
    BY <2>1, <2>4
<1>3. ASSUME NEW j \in 1..Len(P) PROVE Ahead(P[j], h) \in 0..(n - 1)
  BY DEF Between
<1>4. ASSUME NEW j \in 1..Len(Q)
      PROVE  \/ j \in 1..Len(P) /\ Q[j] = P[j]
             \/ \E k \in 1..Len(R) : j = Len(P) + k /\ Q[j] = R[k]
  <2>1. CASE j <= Len(P)
    BY <1>1, <2>1
  <2>2. CASE j > Len(P)
    <3>1. j - Len(P) \in 1..Len(R) /\ j = Len(P) + (j - Len(P))
      BY <1>1, <2>2
    <3>2. QED
      BY <1>1, <3>1
  <2>3. QED
    BY <1>1, <2>1, <2>2
<1> HIDE DEF t
<1>5. ASSUME NEW j \in 1..Len(Q) PROVE Ahead(Q[j], h) \in 0..(n + m - 1)
  <2>1. CASE j \in 1..Len(P) /\ Q[j] = P[j]
    BY <1>3, <2>1
  <2>2. CASE \E k \in 1..Len(R) : j = Len(P) + k /\ Q[j] = R[k]
    BY <1>2, <2>2
  <2>3. QED
    BY <1>4, <2>1, <2>2
<1>6. ASSUME NEW i \in 1..Len(Q), NEW j \in 1..Len(Q), i < j
      PROVE  Ahead(Q[i], h) < Ahead(Q[j], h)
  <2>1. CASE j \in 1..Len(P) /\ Q[j] = P[j]
    <3>1. i \in 1..Len(P) /\ Q[i] = P[i]
      BY <1>1, <1>6, <2>1
    <3>2. QED
      BY <1>6, <2>1, <3>1 DEF Between
  <2>2. ASSUME NEW k \in 1..Len(R), j = Len(P) + k, Q[j] = R[k]
        PROVE  Ahead(Q[i], h) < Ahead(Q[j], h)
    <3>1. CASE i \in 1..Len(P) /\ Q[i] = P[i]
      BY <1>2, <1>3, <2>2, <3>1
    <3>2. ASSUME NEW l \in 1..Len(R), i = Len(P) + l, Q[i] = R[l]
          PROVE  Ahead(Q[i], h) < Ahead(Q[j], h)
      <4>1. l < k
        BY <1>1, <1>6, <2>2, <3>2
      <4>2. Ahead(R[l], t) < Ahead(R[k], t)
        BY <4>1 DEF Between, t
      <4>3. QED
        BY <1>2, <2>2, <3>2, <4>2
    <3>3. QED
      BY <1>4, <3>1, <3>2
  <2>3. QED
    BY <1>4, <2>1, <2>2
<1>7. QED
  BY <1>1, <1>5, <1>6 DEF Between, Q

\* A loop gives a held frame to the stack or leaves it where it is.
LEMMA KeptOrReleased ==
  ASSUME NEW r, Sound(r), NEW n \in Nat, n <= SeqModulo,
         NEW s, s = wil_release_reorder_frame(r, n), NEW g \in Held(r)
  PROVE  In(g, Released(r, n)) \/ g \in Held(s)
<1>1. r.buf_size \in WSizes /\ r \in Session(r.buf_size)
  BY DEF Sound
<1>2. PICK i \in Stored(r) : g = r.reorder_buf[i]
  BY DEF Held
<1>3. CASE i \in Visited(r, n)
  <2>1. PICK j \in 1..Len(Released(r, n)) : Released(r, n)[j] = g
    BY <1>1, <1>2, <1>3, ReleasedAll
  <2>2. Released(r, n) \in Seq(Frames)
    BY <1>1, ReleasedIs
  <2>3. QED
    BY <2>1, <2>2 DEF In
<1>4. CASE i \notin Visited(r, n)
  <2>1. /\ Stored(s) = Stored(r) \ Visited(r, n)
        /\ \A k \in Slots(r) : s.reorder_buf[k] = IF k \in Visited(r, n) THEN NULL ELSE r.reorder_buf[k]
    BY Release
  <2>2. i \in Stored(s) /\ s.reorder_buf[i] = g
    BY <1>2, <1>4, <2>1 DEF Stored
  <2>3. QED
    BY <2>2 DEF Held
<1>5. QED
  BY <1>3, <1>4

\* It gives nothing else, and leaves nothing else.
LEMMA OnlyHeld ==
  ASSUME NEW r, Sound(r), NEW n \in Nat, n <= SeqModulo,
         NEW s, s = wil_release_reorder_frame(r, n)
  PROVE  Held(s) \subseteq Held(r) /\ \A x : In(x, Released(r, n)) => x \in Held(r)
<1>1. r.buf_size \in WSizes /\ r \in Session(r.buf_size)
  BY DEF Sound
<1>2. Held(s) \subseteq Held(r)
  <2>1. /\ Stored(s) = Stored(r) \ Visited(r, n)
        /\ \A i \in Slots(r) : s.reorder_buf[i] = IF i \in Visited(r, n) THEN NULL ELSE r.reorder_buf[i]
    BY Release
  <2>2. QED
    BY <2>1 DEF Held, Stored
<1>3. ASSUME NEW x, In(x, Released(r, n)) PROVE x \in Held(r)
  <2>1. PICK j \in DOMAIN Released(r, n) : Released(r, n)[j] = x
    BY <1>3 DEF In
  <2>2. j \in 1..Len(Released(r, n))
    BY <1>1, <2>1, ReleasedIs
  <2>3. PICK k \in Hits(r, n) : x = r.reorder_buf[SlotAt(r, k)]
    BY <1>1, <2>1, <2>2, ReleasedIs
  <2>4. k \in Nat /\ r.reorder_buf[SlotAt(r, k)] # NULL
    BY DEF Hits
  <2>5. SlotAt(r, k) \in Stored(r)
    BY <1>1, <2>4, SlotAtType DEF Stored
  <2>6. QED
    BY <2>3, <2>5 DEF Held
<1>4. QED
  BY <1>2, <1>3

\* The loop that makes room for frame f moves the head by n and brings f into the
\* window, to its end if n is positive.
LEMMA RoomStep ==
  ASSUME NEW r, Sound(r), r.buf_size >= 2, NEW f \in Frames,
         ~seq_less(wil_rxdesc_seq(f), r.head_seq_num),
         NEW n, n = MakeRoom(r, wil_rxdesc_seq(f)),
         NEW s, s = wil_release_reorder_frame(r, n),
         NEW a, a = Ahead(f, r.head_seq_num)
  PROVE  /\ n \in Nat /\ n <= SeqModulo
         /\ a \in Nat /\ a <= SeqModulo \div 2 /\ n <= a
         /\ a - n < r.buf_size /\ (n > 0 => a - n = r.buf_size - 1)
         /\ Sound(s) /\ s.buf_size = r.buf_size
         /\ s.head_seq_num = (r.head_seq_num + n) % SeqModulo
         /\ Ahead(f, s.head_seq_num) = a - n
<1> DEFINE q == wil_rxdesc_seq(f)
<1>1. q \in SeqNums /\ r.head_seq_num \in SeqNums
  BY SeqType, Fields DEF Sound
<1>2. /\ n \in Nat /\ n <= SeqModulo /\ n <= a /\ a \in SeqNums
      /\ a - n < r.buf_size /\ (n > 0 => a - n = r.buf_size - 1)
  BY RoomMade
<1>3. a \in Nat
  BY <1>2, SeqModuloAssumption DEF SeqNums
<1>4. a <= SeqModulo \div 2
  <2>1. ~(seq_sub(q, r.head_seq_num) > SeqModulo \div 2)
    BY DEF seq_less
  <2>2. SeqModulo \div 2 \in Nat
    BY SeqModuloAssumption
  <2>3. QED
    BY <1>3, <2>1, <2>2 DEF Ahead
<1>5. /\ Sound(s) /\ s.buf_size = r.buf_size
      /\ s.head_seq_num = (r.head_seq_num + n) % SeqModulo
  BY <1>2, Release
<1>6. Ahead(f, s.head_seq_num) = a - n
  <2>1. a = seq_sub(q, r.head_seq_num) /\ Ahead(f, s.head_seq_num) = seq_sub(q, s.head_seq_num)
    BY DEF Ahead
  <2> HIDE DEF q
  <2>2. n \in 0..seq_sub(q, r.head_seq_num)
    BY <1>2, <1>3, <2>1
  <2>3. QED
    BY <1>1, <1>5, <2>1, <2>2, Advance
<1>7. QED
  BY <1>2, <1>3, <1>4, <1>5, <1>6

\* What becomes of r when frame f comes and its head moves by m, giving R to the
\* stack: R is in order, nothing is missing from n on, nothing is lost, frame f
\* included, and nothing is made up.
Delivers(r, f, new, R, n, m) ==
  /\ new.buf_size = r.buf_size
  /\ new.head_seq_num = (r.head_seq_num + m) % SeqModulo
  /\ Between(R, r.head_seq_num, m)
  /\ \A k \in n..(m - 1) : \E g \in Held(r) \cup {f} : Ahead(g, r.head_seq_num) = k
  /\ Held(new) \subseteq Held(r) \cup {f}
  /\ \A x : In(x, R) => x \in Held(r) \cup {f}
  /\ \A g \in Held(r) : In(g, R) \/ g \in Held(new)
  /\ \/ In(f, R) \/ f \in Held(new)
     \/ \E g \in Held(r) : wil_rxdesc_seq(g) = wil_rxdesc_seq(f)

\* A frame whose slot is taken has the sequence number of the frame there.
LEMMA SameNumber ==
  ASSUME NEW r, Sound(r), SeqModulo % r.buf_size = 0,
         NEW f \in Frames, Ahead(f, r.head_seq_num) < r.buf_size,
         NEW g, g = r.reorder_buf[reorder_index(r, wil_rxdesc_seq(f))], g # NULL
  PROVE  g \in Held(r) /\ wil_rxdesc_seq(g) = wil_rxdesc_seq(f)
<1> DEFINE h == r.head_seq_num
           q == wil_rxdesc_seq(f)
           a == seq_sub(q, h)
<1>1. h \in SeqNums /\ r.buf_size \in WSizes /\ r \in Session(r.buf_size) /\ r.buf_size \in Nat
  BY Fields DEF Sound
<1>2. q \in SeqNums /\ q \in Nat
  BY SeqType, SeqModuloAssumption DEF SeqNums
<1>3. a \in SeqNums /\ SlotAt(r, a) = reorder_index(r, q)
  <2> HIDE DEF q
  <2>1. QED
    BY <1>1, <1>2, SubIs, SlotOfFrame
<1>4. a \in 0..(r.buf_size - 1)
  <2>1. a < r.buf_size
    BY DEF Ahead
  <2> HIDE DEF a
  <2>2. QED
    BY <1>1, <1>3, <2>1, SeqModuloAssumption DEF SeqNums
<1> HIDE DEF a
<1>5. g \in Frames /\ Ahead(g, h) = a
  BY <1>3, <1>4, FrameAtSlot
<1>6. wil_rxdesc_seq(g) = q
  <2>1. wil_rxdesc_seq(g) \in SeqNums
    BY <1>5, SeqType
  <2>2. (h + a) % SeqModulo = wil_rxdesc_seq(g)
    BY <1>1, <1>5, <2>1, Reach DEF Ahead
  <2>3. (h + a) % SeqModulo = q
    <3> HIDE DEF q
    <3>1. QED
      BY <1>1, <1>2, Reach DEF a
  <2>4. QED
    BY <2>2, <2>3
<1>7. g \in Held(r)
  <2>1. reorder_index(r, q) \in Slots(r)
    BY <1>1, <1>2, IndexType
  <2>2. QED
    BY <2>1 DEF Held, Stored
<1>8. QED
  BY <1>6, <1>7

\* The rest of wil_rx_reorder.
LEMMA PlaceOrder ==
  ASSUME NEW r, Sound(r), SeqModulo % r.buf_size = 0,
         NEW f \in Frames, Ahead(f, r.head_seq_num) < r.buf_size,
         NEW done \in Seq(Frames), Place(r, f, done)
  PROVE  \E m \in 0..r.buf_size, R \in Seq(Frames) :
           out' = done \o R /\ Delivers(r, f, tid_rx', R, 0, m)
<1> DEFINE q == wil_rxdesc_seq(f)
           h == r.head_seq_num
           i == reorder_index(r, q)
           with == [r EXCEPT !.reorder_buf[i] = f, !.stored_mpdu_num = @ + 1]
<1>1. /\ r.buf_size \in WSizes /\ r \in Session(r.buf_size) /\ h \in SeqNums
      /\ r.buf_size \in Nat /\ r.buf_size > 0
  BY Fields DEF Sound
<1>2. q \in SeqNums /\ q \in Nat
  BY SeqType, SeqModuloAssumption DEF SeqNums
<1>3. i \in Slots(r)
  BY <1>1, <1>2, IndexType
<1>4. CASE r.reorder_buf[i] # NULL
  <2>1. tid_rx' = r /\ out' = done
    BY <1>4 DEF Place
  <2>2. 0 \in 0..r.buf_size /\ <<>> \in Seq(Frames) /\ done \o <<>> = done
    BY <1>1
  <2>3. (h + 0) % SeqModulo = h
    BY <1>1, ModNear, SeqModuloAssumption DEF SeqNums
  <2>4. \E g \in Held(r) : wil_rxdesc_seq(g) = q
    BY <1>4, SameNumber
  <2>5. Between(<<>>, h, 0)
    BY DEF Between
  <2>6. Delivers(r, f, tid_rx', <<>>, 0, 0)
    BY <2>1, <2>3, <2>4, <2>5 DEF Delivers, In
  <2>7. QED
    BY <2>1, <2>2, <2>6
<1>5. CASE r.reorder_buf[i] = NULL /\ q = h /\ r.stored_mpdu_num = 0
  <2>1. tid_rx' = [r EXCEPT !.head_seq_num = seq_inc(@)] /\ out' = Append(done, f)
    BY <1>5 DEF Place
  <2>2. 1 \in 0..r.buf_size /\ <<f>> \in Seq(Frames) /\ out' = done \o <<f>>
    <3>1. Append(done, f) = done \o <<f>>
      OBVIOUS
    <3>2. <<f>> \in Seq(Frames) /\ 1 \in 0..r.buf_size
      BY <1>1
    <3>3. QED
      BY <2>1, <3>1, <3>2
  <2>3. tid_rx'.head_seq_num = (h + 1) % SeqModulo
    BY <1>1, <2>1 DEF Session, seq_inc
  <2>4. Held(r) = {} /\ Held(tid_rx') = {} /\ tid_rx'.buf_size = r.buf_size
    <3>1. Stored(r) = {}
      BY <1>1, <1>5, StoredFinite, FS_EmptySet DEF Sound
    <3>2. tid_rx'.buf_size = r.buf_size /\ tid_rx'.reorder_buf = r.reorder_buf
      BY <1>1, <2>1 DEF Session
    <3>3. Stored(tid_rx') = {}
      BY <3>1, <3>2 DEF Stored, Slots
    <3>4. QED
      BY <3>1, <3>2, <3>3 DEF Held
  <2>5. Between(<<f>>, h, 1) /\ Ahead(f, h) = 0
    <3>1. Ahead(f, h) = 0
      BY <1>1, <1>5, SubIs DEF Ahead, SeqNums
    <3>2. Len(<<f>>) = 1 /\ <<f>>[1] = f
      OBVIOUS
    <3>3. QED
      BY <3>1, <3>2 DEF Between
  <2>6. In(f, <<f>>) /\ \A x : In(x, <<f>>) => x = f
    BY DEF In
  <2>7. Delivers(r, f, tid_rx', <<f>>, 0, 1)
    BY <2>3, <2>4, <2>5, <2>6 DEF Delivers
  <2>8. QED
    BY <2>2, <2>7
<1>6. CASE r.reorder_buf[i] = NULL /\ ~(q = h /\ r.stored_mpdu_num = 0)
  <2> DEFINE m == Run(with)
             R == Released(with, m)
  <2>1. tid_rx' = wil_release_reorder_frame(with, m) /\ out' = done \o R
    BY <1>6 DEF Place
  <2>2. Sound(with)
    BY <1>6, Insert
  <2>3. with.buf_size = r.buf_size /\ with.head_seq_num = h
    BY <1>1 DEF Session
  <2>4. /\ f \in Held(with) /\ \A g \in Held(r) : g \in Held(with)
        /\ Held(with) \subseteq Held(r) \cup {f}
    <3>1. r.reorder_buf \in [Slots(r) -> Frames \cup {NULL}] /\ f # NULL
      BY <1>1, Fields, FramesAssumption
    <3>2. with.reorder_buf = [r.reorder_buf EXCEPT ![i] = f] /\ Slots(with) = Slots(r)
      BY <1>1, <2>3 DEF Session, Slots
    <3> HIDE DEF with, i
    <3>3. with.reorder_buf[i] = f /\ \A j \in Slots(r) \ {i} : with.reorder_buf[j] = r.reorder_buf[j]
      BY <1>3, <3>1, <3>2
    <3>4. i \in Stored(with)
      BY <1>3, <3>1, <3>2, <3>3 DEF Stored
    <3>5. ASSUME NEW j \in Stored(r) PROVE j \in Stored(with) /\ with.reorder_buf[j] = r.reorder_buf[j]
      <4>1. j # i /\ j \in Slots(r)
        BY <1>6 DEF Stored, i
      <4>2. QED
        BY <3>2, <3>3, <4>1 DEF Stored
    <3>6. ASSUME NEW j \in Stored(with), j # i
          PROVE  j \in Stored(r) /\ with.reorder_buf[j] = r.reorder_buf[j]
      BY <3>2, <3>3, <3>6 DEF Stored
    <3>7. QED
      BY <3>3, <3>4, <3>5, <3>6 DEF Held
  <2> HIDE DEF with, i
  <2>5. with.buf_size \in WSizes /\ with \in Session(with.buf_size)
    BY <2>2 DEF Sound
  <2>6. /\ m \in 0..r.buf_size /\ m \in Nat /\ m <= SeqModulo
        /\ \A k \in 0..(m - 1) : with.reorder_buf[SlotAt(with, k)] # NULL
    <3>1. /\ m \in 0..with.buf_size
          /\ \A k \in 0..(m - 1) : with.reorder_buf[SlotAt(with, k)] # NULL
      BY <2>5, RunStops
    <3>2. 2 * r.buf_size < SeqModulo
      BY <1>1, Fields
    <3> HIDE DEF m
    <3>3. QED
      BY <1>1, <2>3, <3>1, <3>2, SeqModuloAssumption
  <2> HIDE DEF m
  <2>7. R \in Seq(Frames) /\ Between(R, h, m)
    <3>1. SeqModulo % with.buf_size = 0
      BY <2>3
    <3>2. /\ R \in Seq(Frames)
          /\ \A j \in 1..Len(R) : Ahead(R[j], with.head_seq_num) \in 0..(m - 1)
          /\ \A k, j \in 1..Len(R) :
               k < j => Ahead(R[k], with.head_seq_num) < Ahead(R[j], with.head_seq_num)
      BY <2>2, <2>6, <3>1, ReleasedOrder
    <3> HIDE DEF R, h
    <3>3. QED
      BY <2>3, <3>2 DEF Between
  <2>8. tid_rx'.head_seq_num = (h + m) % SeqModulo /\ tid_rx'.buf_size = r.buf_size
    BY <2>1, <2>2, <2>3, <2>6, Release
  <2>9. \A g \in Held(with) : In(g, R) \/ g \in Held(tid_rx')
    BY <2>1, <2>2, <2>6, KeptOrReleased
  <2>10. Held(tid_rx') \subseteq Held(with) /\ \A x : In(x, R) => x \in Held(with)
    BY <2>1, <2>2, <2>6, OnlyHeld
  <2>11. ASSUME NEW k \in 0..(m - 1) PROVE \E g \in Held(with) : Ahead(g, h) = k
    <3>1. k \in 0..(with.buf_size - 1) /\ k \in Nat /\ SeqModulo % with.buf_size = 0
      BY <1>1, <2>3, <2>6
    <3> DEFINE g == with.reorder_buf[SlotAt(with, k)]
    <3>2. g # NULL
      BY <2>6
    <3>3. Ahead(g, with.head_seq_num) = k
      BY <2>2, <3>1, <3>2, FrameAtSlot
    <3>4. g \in Held(with)
      BY <2>5, <3>1, <3>2, SlotAtType DEF Held, Stored
    <3>5. QED
      BY <2>3, <3>3, <3>4
  <2> HIDE DEF R
  <2>12. Delivers(r, f, tid_rx', R, 0, m)
    BY <2>4, <2>7, <2>8, <2>9, <2>10, <2>11 DEF Delivers
  <2>13. QED
    BY <2>1, <2>6, <2>7, <2>12
<1>7. QED
  BY <1>4, <1>5, <1>6

-----------------------------------------------------------------------------
(* Handlers. *)

Buffered == tid_rx # NULL => Sound(tid_rx)

\* What is in a sequence is in a longer one.
LEMMA InJoin ==
  ASSUME NEW S, NEW P \in Seq(S), NEW R \in Seq(S), NEW x, In(x, P) \/ In(x, R)
  PROVE  In(x, P \o R)
<1>1. /\ Len(P \o R) = Len(P) + Len(R) /\ Len(P) \in Nat /\ Len(R) \in Nat
      /\ DOMAIN (P \o R) = 1..(Len(P) + Len(R))
      /\ \A j \in 1..Len(P) : (P \o R)[j] = P[j]
      /\ \A j \in 1..Len(R) : (P \o R)[Len(P) + j] = R[j]
  OBVIOUS
<1>2. CASE In(x, P)
  <2>1. PICK j \in 1..Len(P) : P[j] = x
    BY <1>2 DEF In
  <2>2. j \in 1..(Len(P) + Len(R))
    BY <1>1
  <2>3. QED
    BY <1>1, <2>1, <2>2 DEF In
<1>3. CASE In(x, R)
  <2>1. PICK j \in 1..Len(R) : R[j] = x
    BY <1>3 DEF In
  <2>2. Len(P) + j \in 1..(Len(P) + Len(R))
    BY <1>1
  <2>3. QED
    BY <1>1, <2>1, <2>2 DEF In
<1>4. QED
  BY <1>2, <1>3

\* What is in a joined sequence is in a part of it.
LEMMA InParts ==
  ASSUME NEW S, NEW P \in Seq(S), NEW R \in Seq(S), NEW x, In(x, P \o R)
  PROVE  In(x, P) \/ In(x, R)
<1>1. /\ Len(P) \in Nat /\ Len(R) \in Nat
      /\ DOMAIN (P \o R) = 1..(Len(P) + Len(R))
      /\ DOMAIN P = 1..Len(P) /\ DOMAIN R = 1..Len(R)
      /\ \A j \in 1..Len(P) : (P \o R)[j] = P[j]
      /\ \A j \in 1..Len(R) : (P \o R)[Len(P) + j] = R[j]
  OBVIOUS
<1>2. PICK j \in 1..(Len(P) + Len(R)) : (P \o R)[j] = x
  BY <1>1 DEF In
<1>3. CASE j <= Len(P)
  <2>1. j \in 1..Len(P)
    BY <1>1, <1>3
  <2>2. QED
    BY <1>1, <1>2, <2>1 DEF In
<1>4. CASE j > Len(P)
  <2>1. PICK k \in 1..Len(R) : j = Len(P) + k
    <3>1. j - Len(P) \in 1..Len(R) /\ j = Len(P) + (j - Len(P))
      BY <1>1, <1>4
    <3>2. QED
      BY <3>1
  <2>2. QED
    BY <1>1, <1>2, <2>1 DEF In
<1>5. QED
  BY <1>1, <1>3, <1>4

\* What is held are frames.
LEMMA HeldType ==
  ASSUME NEW r, Sound(r)
  PROVE  Held(r) \subseteq Frames
BY Fields DEF Sound, Held, Stored

\* Two moves of the head by less than a round.
LEMMA MovedTwice ==
  ASSUME NEW h \in SeqNums, NEW n \in Nat, NEW m \in Nat, n + m < SeqModulo
  PROVE  (((h + n) % SeqModulo) + m) % SeqModulo = (h + (n + m)) % SeqModulo
<1>1. PICK M \in Nat : M = SeqModulo /\ M > 0 /\ h \in 0..(M - 1)
  BY SeqModuloAssumption DEF SeqNums
<1>2. PICK t \in 0..(M - 1) : t = (h + n) % M /\ t = IF h + n < M THEN h + n ELSE h + n - M
  <2>1. h + n \in Nat /\ h + n < 2 * M
    BY <1>1
  <2>2. QED
    BY <1>1, <2>1, ModOnce, ModRange
<1>3. (t + m) % M = IF t + m < M THEN t + m ELSE t + m - M
  <2>1. t + m \in Nat /\ t + m < 2 * M
    BY <1>1
  <2>2. QED
    BY <1>1, <2>1, ModOnce
<1>4. (h + (n + m)) % M = IF h + (n + m) < M THEN h + (n + m) ELSE h + (n + m) - M
  <2>1. h + (n + m) \in Nat /\ h + (n + m) < 2 * M
    BY <1>1
  <2>2. QED
    BY <1>1, <2>1, ModOnce
<1>5. (t + m) % M = (h + (n + m)) % M
  BY <1>1, <1>2, <1>3, <1>4
<1>6. QED
  BY <1>1, <1>2, <1>5

\* How far a head has moved that moved by less than a round.
LEMMA MovedBy ==
  ASSUME NEW h \in SeqNums, NEW n \in Nat, n < SeqModulo
  PROVE  seq_sub((h + n) % SeqModulo, h) = n
<1>1. PICK t \in SeqNums : t = (h + n) % SeqModulo
  <2>1. h + n \in Int
    BY SeqModuloAssumption DEF SeqNums
  <2>2. QED
    BY <2>1, ModRange, SeqModuloAssumption DEF SeqNums
<1>2. seq_sub(t, t) = 0
  BY SubIs, SeqModuloAssumption DEF SeqNums
<1>3. seq_sub(t, h) = n
  BY <1>1, <1>2, MovedBack
<1>4. QED
  BY <1>1, <1>3

\* A frame that is not out of date: room is made, then it is placed.
LEMMA FrameDelivers ==
  ASSUME \A b \in WSizes : b >= 2 /\ SeqModulo % b = 0, Buffered,
         NEW f \in Frames, wil_rx_reorder(f), tid_rx # NULL,
         ~seq_less(wil_rxdesc_seq(f), tid_rx.head_seq_num)
  PROVE  \E n \in Nat, k \in 0..(SeqModulo \div 2 + 1) :
           /\ n <= k /\ k - n <= tid_rx.buf_size
           /\ LET a == Ahead(f, tid_rx.head_seq_num)
              IN  n = IF a < tid_rx.buf_size THEN 0 ELSE a - tid_rx.buf_size + 1
           /\ out' \in Seq(Frames) /\ Sound(tid_rx') /\ Delivers(tid_rx, f, tid_rx', out', n, k)
<1> DEFINE r == tid_rx
           h == r.head_seq_num
           q == wil_rxdesc_seq(f)
           n == MakeRoom(r, q)
           s == wil_release_reorder_frame(r, n)
           P == Released(r, n)
           a == Ahead(f, h)
           H == SeqModulo \div 2
<1>1. Place(s, f, P)
  BY DEF wil_rx_reorder, NoSession
<1>2. /\ Sound(r) /\ r.buf_size \in WSizes /\ r \in Session(r.buf_size) /\ h \in SeqNums
      /\ r.buf_size \in Nat /\ 2 * r.buf_size < SeqModulo
      /\ r.buf_size >= 2 /\ SeqModulo % r.buf_size = 0
  BY Fields DEF Buffered, Sound
<1>3. /\ n \in Nat /\ n <= SeqModulo
      /\ a \in Nat /\ a <= H /\ n <= a
      /\ a - n < r.buf_size /\ (n > 0 => a - n = r.buf_size - 1)
      /\ Sound(s) /\ s.buf_size = r.buf_size
      /\ s.head_seq_num = (h + n) % SeqModulo
      /\ Ahead(f, s.head_seq_num) = a - n
  BY <1>2, RoomStep
<1>4. P \in Seq(Frames) /\ Between(P, h, n)
  <2> HIDE DEF n
  <2>1. QED
    BY <1>2, <1>3, ReleasedOrder DEF Between
<1>5. \A g \in Held(r) : In(g, P) \/ g \in Held(s)
  <2> HIDE DEF n
  <2>1. QED
    BY <1>2, <1>3, KeptOrReleased
<1>6. Held(s) \subseteq Held(r)
  <2> HIDE DEF n
  <2>1. /\ Stored(s) = Stored(r) \ Visited(r, n)
        /\ \A i \in Slots(r) : s.reorder_buf[i] = IF i \in Visited(r, n) THEN NULL ELSE r.reorder_buf[i]
    BY <1>2, <1>3, Release
  <2> HIDE DEF s
  <2>2. QED
    BY <2>1 DEF Held, Stored
<1> HIDE DEF n, s, P, a, H
<1>7. PICK m \in 0..s.buf_size, R \in Seq(Frames) :
        out' = P \o R /\ Delivers(s, f, tid_rx', R, 0, m)
  BY <1>1, <1>2, <1>3, <1>4, PlaceOrder
<1>8. /\ m \in Nat /\ n + m \in 0..(H + 1) /\ n + m < SeqModulo
  <2>1. SeqModulo \in Nat /\ SeqModulo > 2 /\ 2 * H <= SeqModulo /\ SeqModulo <= 2 * H + 1 /\ H \in Nat
    BY SeqModuloAssumption, HalfRange DEF H
  <2>2. m \in Nat /\ m <= r.buf_size
    BY <1>2, <1>3
  <2>3. QED
    BY <1>2, <1>3, <2>1, <2>2
<1>9. out' \in Seq(Frames) /\ Between(out', h, n + m)
  <2>1. Between(R, (h + n) % SeqModulo, m) /\ n + m <= SeqModulo
    BY <1>3, <1>7, <1>8, SeqModuloAssumption DEF Delivers
  <2> HIDE DEF h
  <2>2. P \o R \in Seq(Frames) /\ Between(P \o R, h, n + m)
    BY <1>2, <1>3, <1>4, <1>8, <2>1, BetweenJoin
  <2>3. QED
    BY <1>7, <2>2
<1>10. tid_rx'.head_seq_num = (h + (n + m)) % SeqModulo
  <2>1. tid_rx'.head_seq_num = (((h + n) % SeqModulo) + m) % SeqModulo
    BY <1>3, <1>7 DEF Delivers
  <2> HIDE DEF h
  <2>2. QED
    BY <1>2, <1>3, <1>8, <2>1, MovedTwice
<1>11. ASSUME NEW x, In(x, P) \/ In(x, R) PROVE In(x, out')
  <2>1. In(x, P \o R)
    BY <1>4, <1>11, InJoin
  <2>2. QED
    BY <1>7, <2>1
<1>12. \A g \in Held(r) : In(g, out') \/ g \in Held(tid_rx')
  BY <1>5, <1>7, <1>11 DEF Delivers
<1>13. \/ In(f, out') \/ f \in Held(tid_rx')
       \/ \E g \in Held(r) : wil_rxdesc_seq(g) = q
  BY <1>6, <1>7, <1>11 DEF Delivers
<1>14. Held(tid_rx') \subseteq Held(r) \cup {f} /\ \A x : In(x, out') => x \in Held(r) \cup {f}
  <2>1. ASSUME NEW x, In(x, out') PROVE In(x, P) \/ In(x, R)
    <3>1. In(x, P \o R)
      BY <1>7, <2>1
    <3>2. QED
      BY <1>4, <3>1, InParts
  <2>2. \A x : In(x, P) => x \in Held(r)
    <3> HIDE DEF n
    <3>1. QED
      BY <1>2, <1>3, OnlyHeld DEF P
  <2>3. QED
    BY <1>6, <1>7, <2>1, <2>2 DEF Delivers
<1>15. ASSUME NEW k \in n..(n + m - 1)
       PROVE  \E g \in Held(r) \cup {f} : Ahead(g, h) = k
  <2>1. k - n \in 0..(m - 1) /\ k \in Nat
    BY <1>3, <1>8
  <2>2. PICK g \in Held(s) \cup {f} : Ahead(g, s.head_seq_num) = k - n
    BY <1>7, <2>1 DEF Delivers
  <2>3. g \in Held(r) \cup {f} /\ g \in Frames
    BY <1>2, <1>6, HeldType
  <2>4. n + (k - n) < SeqModulo /\ n + (k - n) = k
    BY <1>3, <1>8, <2>1, SeqModuloAssumption
  <2>5. Ahead(g, h) = n + Ahead(g, s.head_seq_num)
    <3>1. wil_rxdesc_seq(g) \in SeqNums
      BY <2>3, SeqType
    <3>2. QED
      BY <1>2, <1>3, <2>2, <2>4, <3>1, MovedBack DEF Ahead
  <2>6. QED
    BY <2>2, <2>3, <2>4, <2>5
<1>16. Delivers(r, f, tid_rx', out', n, n + m)
  BY <1>3, <1>7, <1>9, <1>10, <1>12, <1>13, <1>14, <1>15 DEF Delivers
<1>17. Sound(tid_rx')
  BY <1>1, <1>3, PlaceSound
<1>18. n <= n + m /\ (n + m) - n <= r.buf_size /\ n = IF a < r.buf_size THEN 0 ELSE a - r.buf_size + 1
  <2>1. PICK b \in Nat : b = r.buf_size
    BY <1>2
  <2>2. m \in 0..b /\ m \in Nat
    BY <1>3, <1>7, <2>1
  <2>3. n <= n + m /\ (n + m) - n <= b
    BY <1>3, <2>2
  <2>4. n = IF a < b THEN 0 ELSE a - b + 1
    BY <1>3, <2>1
  <2>5. QED
    BY <2>1, <2>3, <2>4
<1>19. QED
  BY <1>3, <1>8, <1>9, <1>16, <1>17, <1>18 DEF H, a

\* A loop of no turns does nothing.
LEMMA NoTurns ==
  ASSUME NEW r, Sound(r)
  PROVE  wil_release_reorder_frame(r, 0) = r /\ Released(r, 0) = <<>>
<1>1. /\ r.buf_size \in WSizes /\ r \in Session(r.buf_size) /\ r.head_seq_num \in SeqNums
      /\ r.stored_mpdu_num \in Nat /\ r.reorder_buf \in [Slots(r) -> Frames \cup {NULL}]
  BY Fields DEF Sound
<1>2. Hits(r, 0) = {} /\ Cardinality({}) = 0
  BY FS_EmptySet DEF Hits
<1>3. (r.head_seq_num + 0) % SeqModulo = r.head_seq_num
  BY <1>1, ModNear, SeqModuloAssumption DEF SeqNums
<1> DEFINE buf == [i \in Slots(r) |-> IF \E k \in Hits(r, 0) : SlotAt(r, k) = i
                                      THEN NULL ELSE r.reorder_buf[i]]
           c == r.stored_mpdu_num - Cardinality(Hits(r, 0))
           h == (r.head_seq_num + 0) % SeqModulo
<1>4. buf = r.reorder_buf /\ c = r.stored_mpdu_num /\ h = r.head_seq_num
  <2>1. buf = [i \in Slots(r) |-> r.reorder_buf[i]]
    BY <1>2
  <2>2. [i \in Slots(r) |-> r.reorder_buf[i]] = r.reorder_buf
    BY <1>1
  <2>3. c = r.stored_mpdu_num
    BY <1>1, <1>2
  <2>4. QED
    BY <1>3, <2>1, <2>2, <2>3
<1>5. wil_release_reorder_frame(r, 0) =
        [r EXCEPT !.reorder_buf = buf, !.stored_mpdu_num = c, !.head_seq_num = h]
  BY DEF wil_release_reorder_frame
<1> HIDE DEF buf, c, h
<1>6. wil_release_reorder_frame(r, 0) = r
  BY <1>1, <1>4, <1>5 DEF Session
<1>7. Released(r, 0) = <<>>
  <2>1. Released(r, 0) \in Seq(Frames) /\ Len(Released(r, 0)) = 0
    BY <1>1, <1>2, ReleasedIs
  <2>2. QED
    BY <2>1
<1>8. QED
  BY <1>6, <1>7

\* A frame whose sequence number is stored changes nothing.
LEMMA RepeatDropped ==
  ASSUME \A b \in WSizes : b >= 2 /\ SeqModulo % b = 0, Buffered,
         NEW f \in Frames, wil_rx_reorder(f), tid_rx # NULL,
         ~seq_less(wil_rxdesc_seq(f), tid_rx.head_seq_num),
         NEW g \in Held(tid_rx), wil_rxdesc_seq(g) = wil_rxdesc_seq(f)
  PROVE  tid_rx' = tid_rx /\ out' = <<>>
<1> DEFINE r == tid_rx
           q == wil_rxdesc_seq(f)
           n == MakeRoom(r, q)
           s == wil_release_reorder_frame(r, n)
<1>1. Place(s, f, Released(r, n))
  BY DEF wil_rx_reorder, NoSession
<1>2. Sound(r) /\ r.buf_size \in WSizes /\ r.buf_size \in Nat /\ r.buf_size >= 2
  BY Fields DEF Buffered, Sound
<1>3. PICK i \in Stored(r) : g = r.reorder_buf[i]
  BY DEF Held
<1>4. reorder_index(r, q) = i /\ Ahead(f, r.head_seq_num) < r.buf_size
  BY <1>2, <1>3 DEF Sound, InRange, Ahead
<1>5. n = 0
  <2> DEFINE a == Ahead(f, r.head_seq_num)
  <2>1. n \in Nat /\ a \in Nat /\ (n > 0 => a - n = r.buf_size - 1)
    BY <1>2, RoomStep
  <2> HIDE DEF n
  <2>2. a < r.buf_size
    BY <1>4
  <2> HIDE DEF a
  <2>3. QED
    BY <1>2, <2>1, <2>2
<1>6. s = r /\ Released(r, n) = <<>>
  BY <1>2, <1>5, NoTurns
<1> HIDE DEF s, n
<1>7. s.reorder_buf[reorder_index(s, q)] # NULL
  BY <1>3, <1>4, <1>6 DEF Stored
<1>8. QED
  BY <1>1, <1>6, <1>7 DEF Place

\* Freeing a session gives every held frame to the stack.
LEMMA FreeFlushes ==
  ASSUME NEW r, r # NULL, Sound(r), NEW g \in Held(r)
  PROVE  In(g, wil_tid_ampdu_rx_free(r))
<1> DEFINE h == r.head_seq_num
           b == r.buf_size
           t == (h + b) % SeqModulo
<1>1. /\ b \in WSizes /\ r \in Session(b) /\ h \in SeqNums
      /\ b \in Nat /\ b > 0 /\ 2 * b < SeqModulo
  BY Fields DEF Sound
<1>2. StepsTo(r, t) = b
  <2>1. PICK M \in Nat, B \in Nat : M = SeqModulo /\ B = b /\ B > 0 /\ 2 * B < M /\ h \in 0..(M - 1)
    BY <1>1, SeqModuloAssumption DEF SeqNums
  <2>2. t = IF h + B < M THEN h + B ELSE h + B - M
    <3>1. h + B \in Nat /\ h + B < 2 * M /\ M > 0
      BY <2>1
    <3> HIDE DEF h
    <3>2. (h + B) % M = IF h + B < M THEN h + B ELSE h + B - M
      BY <2>1, <3>1, ModOnce
    <3>3. QED
      BY <2>1, <3>2
  <2>3. t \in SeqNums
    BY <2>1, <2>2 DEF SeqNums
  <2> HIDE DEF h, b, t
  <2>4. /\ seq_sub(h, t) = IF h >= t THEN h - t ELSE h - t + M
        /\ seq_sub(t, h) = IF t >= h THEN t - h ELSE t - h + M
    BY <1>1, <2>1, <2>3, SubIs
  <2>5. seq_sub(h, t) = M - B /\ seq_sub(t, h) = B
    BY <2>1, <2>2, <2>4
  <2>6. M - B > SeqModulo \div 2
    <3>1. 2 * (M \div 2) <= M /\ M \div 2 \in Nat
      BY HalfRange
    <3>2. M - B > M \div 2
      BY <2>1, <3>1
    <3>3. QED
      BY <2>1, <3>2
  <2>7. seq_less(h, t)
    BY <2>5, <2>6 DEF seq_less
  <2>8. QED
    BY <2>1, <2>5, <2>7 DEF StepsTo, h
<1>3. wil_tid_ampdu_rx_free(r) = Released(r, b)
  BY <1>2 DEF wil_tid_ampdu_rx_free
<1>4. PICK i \in Stored(r) : g = r.reorder_buf[i]
  BY DEF Held
<1> DEFINE q == wil_rxdesc_seq(g)
           a == seq_sub(q, h)
<1>5. reorder_index(r, q) = i /\ a < b
  BY <1>4 DEF Sound, InRange, Ahead
<1>6. g \in Frames
  BY <1>1, <1>4, Fields DEF Stored
<1>7. q \in SeqNums
  BY <1>6, SeqType
<1>8. a \in 0..(b - 1) /\ SlotAt(r, a) = i
  <2> HIDE DEF q
  <2>1. a \in SeqNums /\ SlotAt(r, a) = reorder_index(r, q)
    BY <1>1, <1>7, SubIs, SlotOfFrame
  <2> HIDE DEF a
  <2>2. a \in 0..(b - 1)
    BY <1>1, <1>5, <2>1, SeqModuloAssumption DEF SeqNums
  <2>3. QED
    BY <1>5, <2>1, <2>2
<1> HIDE DEF a
<1>9. i \in Visited(r, b)
  BY <1>4, <1>8 DEF Visited, Stored
<1>10. PICK j \in 1..Len(Released(r, b)) : Released(r, b)[j] = g
  BY <1>1, <1>4, <1>9, ReleasedAll
<1>11. Released(r, b) \in Seq(Frames)
  BY <1>1, ReleasedIs
<1>12. QED
  BY <1>3, <1>10, <1>11 DEF In

\* A frame: windows of 2 and more keep the buffer sound, and if they divide the
\* sequence space nothing that could be delivered is kept.
LEMMA FrameSound ==
  ASSUME \A b \in WSizes : b >= 2, Buffered, NEW f \in Frames, wil_rx_reorder(f)
  PROVE  /\ Buffered'
         /\ (\A b \in WSizes : SeqModulo % b = 0) /\ HeadSlotEmpty => HeadSlotEmpty'
<1> DEFINE q == wil_rxdesc_seq(f)
           r == tid_rx
           n == MakeRoom(r, q)
           s == wil_release_reorder_frame(r, n)
<1>1. CASE UNCHANGED tid_rx
  BY <1>1 DEF Buffered, HeadSlotEmpty, Sound, InRange, Stored, Slots, SlotAt, reorder_index, Ahead
<1>2. CASE /\ tid_rx # NULL /\ ~seq_less(q, r.head_seq_num)
           /\ Place(s, f, Released(r, n))
  <2>1. Sound(r) /\ r.buf_size \in WSizes /\ r \in Session(r.buf_size)
    BY <1>2 DEF Buffered, Sound
  <2>2. r.buf_size >= 2 /\ r.buf_size \in Nat /\ r.head_seq_num \in SeqNums
    BY <2>1, Fields
  <2>3. q \in SeqNums
    BY FramesAssumption, ModRange, SeqModuloAssumption DEF wil_rxdesc_seq, SeqNums
  <2> DEFINE a == Ahead(f, r.head_seq_num)
  <2>4. /\ n \in Nat /\ n <= SeqModulo /\ n <= a /\ a \in SeqNums
        /\ a - n < r.buf_size /\ (n > 0 => a - n = r.buf_size - 1)
    BY <1>2, <2>1, <2>2, RoomMade
  <2> HIDE DEF n
  <2>5. /\ Sound(s) /\ s.buf_size = r.buf_size /\ s.ssn = r.ssn
        /\ s.head_seq_num = (r.head_seq_num + n) % SeqModulo
        /\ \A i \in Slots(r) : s.reorder_buf[i] = IF i \in Visited(r, n) THEN NULL ELSE r.reorder_buf[i]
    BY <2>1, <2>4, Release
  <2> HIDE DEF s
  <2>6. Ahead(f, s.head_seq_num) = a - n
    <3>1. n \in 0..seq_sub(q, r.head_seq_num)
      BY <2>4, SeqModuloAssumption DEF Ahead, SeqNums
    <3>2. QED
      BY <2>2, <2>3, <2>5, <3>1, Advance DEF Ahead
  <2>7. Ahead(f, s.head_seq_num) < s.buf_size
    BY <2>4, <2>5, <2>6
  <2>8. /\ Sound(tid_rx')
        /\ HeadEmpty(s) \/ s.reorder_buf[reorder_index(s, q)] = NULL => HeadEmpty(tid_rx')
    BY <1>2, <2>5, <2>7, PlaceSound
  <2>9. ASSUME \A b \in WSizes : SeqModulo % b = 0, HeadSlotEmpty PROVE HeadEmpty(tid_rx')
    <3>1. CASE n = 0
      <4>1. SlotAt(s, 0) = SlotAt(r, 0)
        BY <2>1, <2>4, <2>5, <3>1, HeadMoved
      <4>2. SlotAt(r, 0) \in Slots(r)
        BY <2>1, SlotAtType
      <4>3. r.reorder_buf[SlotAt(r, 0)] = NULL
        BY <1>2, <2>9 DEF HeadSlotEmpty
      <4>4. HeadEmpty(s)
        BY <2>5, <4>1, <4>2, <4>3 DEF HeadEmpty
      <4>5. QED
        BY <2>8, <4>4
    <3>2. CASE n > 0
      <4>1. n - 1 \in Nat /\ a = (n - 1) + r.buf_size
        BY <2>2, <2>4, <3>2, SeqModuloAssumption DEF SeqNums
      <4>2. SlotAt(r, a) = SlotAt(r, n - 1)
        BY <2>1, <2>9, <4>1, SlotAgain
      <4>3. reorder_index(s, q) = reorder_index(r, q) /\ SlotAt(r, a) = reorder_index(r, q)
        BY <2>1, <2>3, <2>5, SlotOfFrame DEF reorder_index, Ahead
      <4>4. SlotAt(r, n - 1) \in Slots(r) /\ n - 1 \in 0..(n - 1)
        BY <2>1, <2>4, <4>1, SlotAtType
      <4>5. reorder_index(s, q) \in Visited(r, n) /\ reorder_index(s, q) \in Slots(r)
        BY <4>2, <4>3, <4>4 DEF Visited
      <4>6. s.reorder_buf[reorder_index(s, q)] = NULL
        BY <2>5, <4>5
      <4>7. QED
        BY <2>8, <4>6
    <3>3. QED
      BY <2>4, <3>1, <3>2
  <2>10. QED
    BY <2>8, <2>9 DEF Buffered, HeadSlotEmpty, HeadEmpty
<1>3. QED
  BY <1>1, <1>2 DEF wil_rx_reorder, NoSession

\* A new session.
LEMMA AllocSound ==
  ASSUME NEW size \in WSizes, NEW ssn \in SeqNums
  PROVE  Sound(wil_tid_ampdu_rx_alloc(size, ssn)) /\ HeadEmpty(wil_tid_ampdu_rx_alloc(size, ssn))
<1> DEFINE r == wil_tid_ampdu_rx_alloc(size, ssn)
<1>1. size \in Nat /\ size > 0
  BY WSizesAssumption
<1>2. /\ r.buf_size = size /\ r.stored_mpdu_num = 0 /\ r \in Session(size)
      /\ \A i \in 0..(size - 1) : r.reorder_buf[i] = NULL
  BY <1>1 DEF wil_tid_ampdu_rx_alloc, Session
<1> HIDE DEF r
<1>3. Stored(r) = {}
  BY <1>2 DEF Stored, Slots
<1>4. Sound(r)
  BY <1>2, <1>3, FS_EmptySet DEF Sound, InRange
<1>5. SlotAt(r, 0) \in 0..(size - 1)
  BY <1>2, SlotAtType, Fields
<1>6. QED
  BY <1>2, <1>4, <1>5 DEF HeadEmpty, r

\* Sessions that begin and end.
LEMMA SessionSound ==
  ASSUME SessionEnd \/ \E size \in WSizes, ssn \in SeqNums : wil_back_handle(size, ssn)
  PROVE  Buffered' /\ HeadSlotEmpty'
BY AllocSound DEF SessionEnd, wil_back_handle, Buffered, HeadSlotEmpty, HeadEmpty

\* Each step.
LEMMA StepSound ==
  ASSUME \A b \in WSizes : b >= 2, Buffered, [Next]_vars
  PROVE  /\ Buffered'
         /\ (\A b \in WSizes : SeqModulo % b = 0) /\ HeadSlotEmpty => HeadSlotEmpty'
<1>1. CASE UNCHANGED vars
  BY <1>1 DEF vars, Buffered, HeadSlotEmpty, Sound, InRange, Stored, Slots, SlotAt, reorder_index, Ahead
<1>2. CASE \E f \in Frames : wil_rx_reorder(f)
  BY <1>2, FrameSound
<1>3. CASE SessionEnd \/ \E size \in WSizes, ssn \in Ssns : wil_back_handle(size, ssn)
  <2>1. Ssns \subseteq SeqNums
    BY SsnsAssumption DEF SeqNums
  <2>2. QED
    BY <1>3, <2>1, SessionSound
<1>4. QED
  BY <1>1, <1>2, <1>3 DEF Next

-----------------------------------------------------------------------------
(* What a call does to the frames. *)

\* What wil_rx_reorder gives to the stack while a session lasts is in order, and
\* the frame it brings is not dropped for nothing.
LEMMA FrameOrder ==
  ASSUME \A b \in WSizes : b >= 2 /\ SeqModulo % b = 0, Buffered,
         NEW f \in Frames, wil_rx_reorder(f), tid_rx # NULL
  PROVE  LET old == tid_rx.head_seq_num
             adv == seq_sub(tid_rx'.head_seq_num, old)
         IN  /\ out' \in Seq(Frames) /\ Sound(tid_rx')
             /\ adv <= SeqModulo \div 2 + 1
             /\ Between(out', old, adv)
             /\ \A g \in Held(tid_rx) : In(g, out') \/ g \in Held(tid_rx')
             /\ \/ In(f, out') \/ f \in Held(tid_rx')
                \/ seq_less(wil_rxdesc_seq(f), old)
                \/ \E g \in Held(tid_rx) : wil_rxdesc_seq(g) = wil_rxdesc_seq(f)
<1> DEFINE h == tid_rx.head_seq_num
           H == SeqModulo \div 2
<1>1. h \in SeqNums
  BY Fields DEF Buffered, Sound
<1>2. H \in Nat /\ 2 * H <= SeqModulo /\ SeqModulo \in Nat /\ SeqModulo > 2
  BY HalfRange, SeqModuloAssumption
<1>3. CASE seq_less(wil_rxdesc_seq(f), h) /\ out' = <<>> /\ tid_rx' = tid_rx
  <2>1. seq_sub(h, h) = 0
    BY <1>1, SubIs DEF SeqNums
  <2>2. Between(<<>>, h, 0) /\ <<>> \in Seq(Frames)
    BY DEF Between
  <2> HIDE DEF H
  <2>3. QED
    BY <1>2, <1>3, <2>1, <2>2 DEF Buffered
<1>4. CASE ~seq_less(wil_rxdesc_seq(f), h)
  <2>1. PICK n \in Nat, k \in 0..(H + 1) :
          out' \in Seq(Frames) /\ Sound(tid_rx') /\ Delivers(tid_rx, f, tid_rx', out', n, k)
    BY <1>4, FrameDelivers
  <2> HIDE DEF H
  <2>2. k \in Nat /\ k < SeqModulo /\ k <= H + 1
    BY <1>2, <2>1
  <2>3. seq_sub(tid_rx'.head_seq_num, h) = k
    BY <1>1, <2>1, <2>2, MovedBy DEF Delivers
  <2>4. Between(out', h, k)
    BY <2>1 DEF Delivers
  <2>5. QED
    BY <2>1, <2>2, <2>3, <2>4 DEF Delivers, H
<1>5. QED
  BY <1>3, <1>4 DEF wil_rx_reorder, NoSession

\* InOrder, for one step.
LEMMA OrderStep ==
  ASSUME \A b \in WSizes : b >= 2 /\ SeqModulo % b = 0, Buffered
  PROVE  \A f \in Frames :
           tid_rx # NULL /\ wil_rx_reorder(f) =>
             LET old == tid_rx.head_seq_num
                 adv == seq_sub(tid_rx'.head_seq_num, old)
             IN  /\ adv <= SeqModulo \div 2 + 1
                 /\ \A j \in DOMAIN out' : Ahead(out'[j], old) < adv
                 /\ \A j \in 1..(Len(out') - 1) :
                      Ahead(out'[j], old) < Ahead(out'[j + 1], old)
<1>1. SUFFICES
        ASSUME NEW f \in Frames, tid_rx # NULL, wil_rx_reorder(f)
        PROVE  LET old == tid_rx.head_seq_num
                   adv == seq_sub(tid_rx'.head_seq_num, old)
               IN  /\ adv <= SeqModulo \div 2 + 1
                   /\ \A j \in DOMAIN out' : Ahead(out'[j], old) < adv
                   /\ \A j \in 1..(Len(out') - 1) :
                        Ahead(out'[j], old) < Ahead(out'[j + 1], old)
  BY Zenon
<1> DEFINE h == tid_rx.head_seq_num
           adv == seq_sub(tid_rx'.head_seq_num, h)
<1>2. out' \in Seq(Frames) /\ adv <= SeqModulo \div 2 + 1 /\ Between(out', h, adv)
  BY <1>1, FrameOrder
<1>3. adv \in Int
  <2>1. Sound(tid_rx') /\ Sound(tid_rx)
    BY <1>1, FrameOrder DEF Buffered
  <2>2. tid_rx'.head_seq_num \in SeqNums /\ h \in SeqNums
    BY <2>1, Fields DEF Sound
  <2> HIDE DEF h
  <2>3. adv \in SeqNums
    BY <2>2, SubIs
  <2> HIDE DEF adv
  <2>4. QED
    BY <2>3, SeqModuloAssumption DEF SeqNums
<1> HIDE DEF adv, h
<1>4. Len(out') \in Nat /\ DOMAIN out' = 1..Len(out')
  BY <1>2
<1>5. \A j \in 1..Len(out') : Ahead(out'[j], h) < adv
  BY <1>2, <1>3 DEF Between
<1>6. ASSUME NEW j \in 1..(Len(out') - 1) PROVE Ahead(out'[j], h) < Ahead(out'[j + 1], h)
  <2>1. j \in 1..Len(out') /\ j + 1 \in 1..Len(out') /\ j < j + 1
    BY <1>4
  <2>2. QED
    BY <1>2, <2>1 DEF Between
<1>7. QED
  BY <1>2, <1>4, <1>5, <1>6 DEF adv, h

\* NoFalseDrop, for one step.
LEMMA DropStep ==
  ASSUME \A b \in WSizes : b >= 2 /\ SeqModulo % b = 0, Buffered
  PROVE  \A f \in Frames :
           tid_rx # NULL /\ wil_rx_reorder(f) =>
             \/ \E j \in DOMAIN out' : out'[j] = f
             \/ f \in Held(tid_rx')
             \/ seq_less(wil_rxdesc_seq(f), tid_rx.head_seq_num)
             \/ \E g \in Held(tid_rx) : wil_rxdesc_seq(g) = wil_rxdesc_seq(f)
BY FrameOrder DEF In

\* A call for a frame, and the end of a session, lose no held frame.
LEMMA LossStep ==
  ASSUME \A b \in WSizes : b >= 2 /\ SeqModulo % b = 0, Buffered, tid_rx # NULL,
         \/ \E f \in Frames : wil_rx_reorder(f)
         \/ out' = wil_tid_ampdu_rx_free(tid_rx)
  PROVE  \A g \in Held(tid_rx) : In(g, out') \/ (tid_rx' # NULL /\ g \in Held(tid_rx'))
<1>1. CASE \E f \in Frames : wil_rx_reorder(f)
  <2>1. PICK f \in Frames : wil_rx_reorder(f)
    BY <1>1
  <2>2. \A g \in Held(tid_rx) : In(g, out') \/ g \in Held(tid_rx')
    BY <2>1, FrameOrder
  <2>3. tid_rx' # NULL
    BY <2>1, FrameOrder, NullAssumption DEF Sound
  <2>4. QED
    BY <2>2, <2>3
<1>2. CASE out' = wil_tid_ampdu_rx_free(tid_rx)
  BY <1>2, FreeFlushes DEF Buffered
<1>3. QED
  BY <1>1, <1>2

-----------------------------------------------------------------------------
\* The buffer of a session is sound between any two calls, for any windows of 2
\* and more.
THEOREM BufferInductive ==
  ASSUME \A b \in WSizes : b >= 2
  PROVE  Spec => []Buffered
<1>1. Init => Buffered
  BY DEF Init, Buffered
<1>2. Buffered /\ [Next]_vars => Buffered'
  BY StepSound
<1>3. QED
  BY <1>1, <1>2, PTL DEF Spec

\* The count that selects the fast path of wil_rx_reorder is right
\* (rx_reorder.c:130).
THEOREM CountRight ==
  ASSUME \A b \in WSizes : b >= 2
  PROVE  Spec => []StoredCount
<1>1. Buffered => StoredCount
  BY DEF Buffered, Sound, StoredCount
<1>2. QED
  BY <1>1, BufferInductive, PTL

\* "the new frame is always in the range of the reordering buffer"
\* (rx_reorder.c:113), for every sequence space.
THEOREM RangeRight ==
  ASSUME \A b \in WSizes : b >= 2
  PROVE  Spec => []InWindow
<1>1. Buffered => InWindow
  BY DEF Buffered, Sound, InRange, InWindow, Ahead
<1>2. QED
  BY <1>1, BufferInductive, PTL

\* wil_reorder_release keeps nothing that could be delivered (rx_reorder.c:60), if
\* windows divide the sequence space.
THEOREM HeadRight ==
  ASSUME \A b \in WSizes : b >= 2 /\ SeqModulo % b = 0
  PROVE  Spec => []HeadSlotEmpty
<1>1. Init => Buffered /\ HeadSlotEmpty
  BY DEF Init, Buffered, HeadSlotEmpty
<1>2. Buffered /\ HeadSlotEmpty /\ [Next]_vars => (Buffered /\ HeadSlotEmpty)'
  BY StepSound
<1>3. QED
  BY <1>1, <1>2, PTL DEF Spec

\* Frames go up in sequence order, none that is held is lost, and none that comes
\* is dropped for nothing (rx_reorder.c:89), if windows divide the sequence space.
THEOREM FramesRight ==
  ASSUME \A b \in WSizes : b >= 2 /\ SeqModulo % b = 0
  PROVE  Spec => InOrder /\ NoHeldFrameLost /\ NoFalseDrop
<1>1. Buffered /\ [Next]_vars =>
        [\A f \in Frames :
           tid_rx # NULL /\ wil_rx_reorder(f) =>
             LET old == tid_rx.head_seq_num
                 adv == seq_sub(tid_rx'.head_seq_num, old)
             IN  /\ adv <= SeqModulo \div 2 + 1
                 /\ \A j \in DOMAIN out' : Ahead(out'[j], old) < adv
                 /\ \A j \in 1..(Len(out') - 1) :
                      Ahead(out'[j], old) < Ahead(out'[j + 1], old)]_vars
  BY OrderStep
<1>2. Buffered /\ [Next]_vars =>
        [tid_rx # NULL =>
           \A f \in Held(tid_rx) :
             \/ \E j \in DOMAIN out' : out'[j] = f
             \/ tid_rx' # NULL /\ f \in Held(tid_rx')]_vars
  <2>1. ASSUME Buffered, Next, tid_rx # NULL
        PROVE  \A f \in Held(tid_rx) : In(f, out') \/ (tid_rx' # NULL /\ f \in Held(tid_rx'))
    BY <2>1, LossStep DEF Next, wil_back_handle, SessionEnd
  <2>2. QED
    BY <2>1 DEF In
<1>3. Buffered /\ [Next]_vars =>
        [\A f \in Frames :
           tid_rx # NULL /\ wil_rx_reorder(f) =>
             \/ \E j \in DOMAIN out' : out'[j] = f
             \/ f \in Held(tid_rx')
             \/ seq_less(wil_rxdesc_seq(f), tid_rx.head_seq_num)
             \/ \E g \in Held(tid_rx) : wil_rxdesc_seq(g) = wil_rxdesc_seq(f)]_vars
  BY DropStep
<1>4. Spec => []Buffered
  BY BufferInductive
<1>5. QED
  BY <1>1, <1>2, <1>3, <1>4, PTL DEF Spec, InOrder, NoHeldFrameLost, NoFalseDrop

-----------------------------------------------------------------------------
(* RxSessions: requests, and the buffer of a session. *)

\* What the proof has to know of types; a reset counts as soon as it begins.
QueueType ==
  /\ back_pending \in Seq(Request)
  /\ back \in Handling \cup {NULL}
  /\ gen \in 0..MaxResets
  /\ stage \in {"wmi", "back", "target"} => gen < MaxResets
  /\ stage = "boot" => gen > 0

AtWork == back # NULL /\ back.pc # "next"

\* Requests come from the firmware that runs, or late.
Fresh(q) == q.gen = gen \/ q.late

AllFresh ==
  /\ \A i \in DOMAIN back_pending : Fresh(back_pending[i])
  /\ AtWork => Fresh(back.req)

\* What waits will be looked at: the event worker is about to queue the work, or
\* it is queued, or the worker runs.
WorkComes == back_pending # <<>> => adding \/ queued \/ back # NULL

\* Once wmi_wq is flushed only an interrupt thread brings requests, so the work
\* for the others is queued or runs.
WmiEmpty ==
  stage = "back" /\ (\E i \in DOMAIN back_pending : ~back_pending[i].late)
    => queued \/ back # NULL

\* Once back_wq is flushed none but late ones are left.
BackEmpty ==
  stage = "target" =>
    /\ \A i \in DOMAIN back_pending : back_pending[i].late
    /\ AtWork => back.req.late

IInv == QueueType /\ AllFresh /\ WorkComes /\ WmiEmpty /\ BackEmpty

-----------------------------------------------------------------------------
\* Where back_worker has a request.
LEMMA WorkType ==
  ASSUME QueueType, AtWork
  PROVE  back.req \in Request /\ back \in [pc : {"handle", "wait", "apply", "alloc"}, req : Request]
BY DEF QueueType, AtWork, Handling

\* The worker that looks for another request has none.
LEMMA NoneAtWork == AfterRequest # NULL /\ AfterRequest.pc = "next" /\ AfterRequest \in Handling
BY NullHandling DEF AfterRequest, Handling

\* Steps that leave requests, worker and reset alone.
LEMMA AloneInv ==
  ASSUME IInv, UNCHANGED <<back_pending, queued, back, adding, stage, gen>>
  PROVE  IInv'
BY DEF IInv, QueueType, AllFresh, AtWork, Fresh, WorkComes, WmiEmpty, BackEmpty

\* The worker comes to a later place with the request it has, or has none.
LEMMA SameRequestInv ==
  ASSUME IInv, AtWork, NEW p \in {"wait", "apply", "alloc"},
         back' \in {[back EXCEPT !.pc = p], AfterRequest},
         UNCHANGED <<back_pending, queued, adding, stage, gen>>
  PROVE  IInv'
<1>1. CASE back' = AfterRequest
  <2>1. back' # NULL /\ back'.pc = "next" /\ back' \in Handling
    BY <1>1, NoneAtWork
  <2>2. QED
    BY <2>1 DEF IInv, QueueType, AllFresh, AtWork, Fresh, WorkComes, WmiEmpty, BackEmpty
<1>2. CASE back' = [back EXCEPT !.pc = p]
  <2>1. back'.req = back.req /\ back' \in Handling /\ back'.pc = p
    BY <1>2, WorkType DEF IInv, Handling
  <2>2. back' # NULL
    BY <2>1, NullHandling
  <2>3. QED
    BY <2>1, <2>2 DEF IInv, QueueType, AllFresh, AtWork, Fresh, WorkComes, WmiEmpty, BackEmpty
<1>3. QED
  BY <1>1, <1>2

\* A new request at the end of the queue, from the firmware that runs before
\* wil_reset has flushed wmi_wq, and a late one after.
LEMMA AddInv ==
  ASSUME IInv, NEW g \in 0..MaxResets, NEW late \in BOOLEAN, AddRequest(g, late),
         g = gen \/ late, stage \in {"back", "target"} => late
  PROVE  IInv'
<1>1. PICK size \in Asked, ssn \in Ssns :
        back_pending' = Append(back_pending, [size |-> size, ssn |-> ssn, gen |-> g, late |-> late])
  BY DEF AddRequest
<1> DEFINE new == [size |-> size, ssn |-> ssn, gen |-> g, late |-> late]
<1>2. new \in Request /\ new.gen = g /\ new.late = late
  BY DEF Request
<1> HIDE DEF new
<1>3. /\ back_pending' \in Seq(Request)
      /\ \A i \in DOMAIN back_pending' :
           back_pending'[i] = new \/ (i \in DOMAIN back_pending /\ back_pending'[i] = back_pending[i])
  BY <1>1, <1>2 DEF IInv, QueueType, new
<1>4. adding' /\ UNCHANGED <<queued, back, stage, gen>>
  BY DEF AddRequest, resetVars
<1>5. QueueType' /\ WorkComes'
  BY <1>3, <1>4 DEF IInv, QueueType, WorkComes
<1>6. AllFresh'
  BY <1>2, <1>3, <1>4 DEF IInv, AllFresh, Fresh, AtWork
<1>7. WmiEmpty' /\ BackEmpty'
  BY <1>2, <1>3, <1>4 DEF IInv, WmiEmpty, BackEmpty, AtWork
<1>8. QED
  BY <1>5, <1>6, <1>7 DEF IInv

\* wil_rcp_addba_request, by stage of the reset.
LEMMA RequestInv == ASSUME IInv, wil_rcp_addba_request PROVE IInv'
<1>1. gen \in 0..MaxResets /\ (stage = "boot" => gen - 1 \in 0..MaxResets)
  BY BoundAssumption DEF IInv, QueueType
<1>2. QED
  BY <1>1, AddInv DEF wil_rcp_addba_request

\* next_back: the oldest request goes from the queue to the worker.
LEMMA NextInv == ASSUME IInv, BackNext PROVE IInv'
<1>1. UNCHANGED <<queued, adding, stage, gen>>
  BY DEF BackNext, resetVars
<1>2. CASE back_pending = <<>>
  <2>1. back' = NULL /\ back_pending' = <<>>
    BY <1>2 DEF BackNext
  <2>2. QED
    BY <1>1, <1>2, <2>1 DEF IInv, QueueType, AllFresh, AtWork, Fresh, WorkComes, WmiEmpty, BackEmpty
<1>3. CASE back_pending # <<>>
  <2>1. /\ back' = [pc |-> "handle", req |-> Head(back_pending)]
        /\ back_pending' = Tail(back_pending)
    BY <1>3 DEF BackNext
  <2>2. /\ back_pending' \in Seq(Request)
        /\ 1 \in DOMAIN back_pending /\ Head(back_pending) = back_pending[1]
        /\ back_pending[1] \in Request
        /\ \A i \in DOMAIN back_pending' :
             i + 1 \in DOMAIN back_pending /\ back_pending'[i] = back_pending[i + 1]
    BY <1>3, <2>1 DEF IInv, QueueType
  <2>3. back' \in Handling /\ back'.pc = "handle" /\ back'.req = back_pending[1]
    BY <2>1, <2>2 DEF Handling
  <2>4. back' # NULL
    BY <2>3, NullHandling
  <2>5. QED
    BY <1>1, <2>2, <2>3, <2>4
    DEF IInv, QueueType, AllFresh, AtWork, Fresh, WorkComes, WmiEmpty, BackEmpty
<1>4. QED
  BY <1>2, <1>3

\* The steps of back_worker.
LEMMA BackInv == ASSUME IInv, BackStep PROVE IInv'
<1>1. CASE BackStart
  <2>1. back = NULL /\ back' = AfterRequest /\ UNCHANGED <<back_pending, adding, stage, gen>>
    BY <1>1 DEF BackStart, AfterRequest, resetVars
  <2>2. back' # NULL /\ back'.pc = "next" /\ back' \in Handling
    BY <2>1, NoneAtWork
  <2>3. QED
    BY <2>1, <2>2 DEF IInv, QueueType, AllFresh, AtWork, Fresh, WorkComes, WmiEmpty, BackEmpty
<1>2. CASE BackSend
  BY <1>2, SameRequestInv DEF BackSend, AtWork, resetVars
<1>3. CASE BackAnswered
  BY <1>3, SameRequestInv DEF BackAnswered, AtWork, resetVars
<1>4. CASE BackFree
  BY <1>4, SameRequestInv DEF BackFree, AtWork, resetVars
<1>5. CASE BackAssign
  BY <1>5, SameRequestInv DEF BackAssign, AtWork, resetVars
<1>6. QED
  BY <1>1, <1>2, <1>3, <1>4, <1>5, NextInv DEF BackStep

\* Each stage of wil_reset has emptied what it flushed; after the last but one the
\* new firmware runs.
LEMMA ResetInv == ASSUME IInv, ResetBegin \/ ResetStep PROVE IInv'
<1>1. UNCHANGED <<back_pending, queued, back, adding>>
  BY DEF ResetBegin, ResetStep, ResetWmi, ResetBack, ResetTarget, ResetEnd, backVars
<1>2. CASE ResetBegin
  BY <1>1, <1>2 DEF ResetBegin, IInv, QueueType, AllFresh, AtWork, Fresh, WorkComes, WmiEmpty, BackEmpty
<1>3. CASE ResetWmi
  <2>1. stage' = "back" /\ gen' = gen /\ gen < MaxResets /\ ~adding
    BY <1>3 DEF ResetWmi, WmiFlushed, EventIdle, IInv, QueueType
  <2>2. QED
    BY <1>1, <2>1 DEF IInv, QueueType, AllFresh, AtWork, Fresh, WorkComes, WmiEmpty, BackEmpty
<1>4. CASE ResetBack
  <2>1. stage = "back" /\ stage' = "target" /\ gen' = gen /\ ~queued /\ back = NULL
    BY <1>4 DEF ResetBack
  <2>2. \A i \in DOMAIN back_pending : back_pending[i].late
    BY <2>1 DEF IInv, WmiEmpty
  <2>3. QED
    BY <1>1, <2>1, <2>2 DEF IInv, QueueType, AllFresh, AtWork, Fresh, WorkComes, WmiEmpty, BackEmpty
<1>5. CASE ResetTarget
  <2>1. stage = "target" /\ stage' = "boot" /\ gen' = gen + 1 /\ gen' \in 0..MaxResets /\ gen' > 0
    BY <1>5, BoundAssumption DEF ResetTarget, IInv, QueueType
  <2>2. QED
    BY <1>1, <2>1 DEF IInv, QueueType, AllFresh, AtWork, Fresh, WorkComes, WmiEmpty, BackEmpty
<1>6. CASE ResetEnd
  BY <1>1, <1>6 DEF ResetEnd, IInv, QueueType, AllFresh, AtWork, Fresh, WorkComes, WmiEmpty, BackEmpty
<1>7. QED
  BY <1>2, <1>3, <1>4, <1>5, <1>6 DEF ResetStep

\* Every step preserves the strengthening.
LEMMA StepInv == ASSUME IInv, [SessionsNext]_allVars PROVE IInv'
<1>1. CASE \/ \E f \in Frames : RxPass(f) \/ RxWork(f)
           \/ RxRead \/ wmi_evt_connect \/ Connected \/ Disconnected
           \/ wmi_evt_ba_status \/ BaAssign \/ UNCHANGED allVars
  BY <1>1, AloneInv
  DEF RxPass, RxWork, RxRead, wmi_evt_connect, Connected, Disconnected, wmi_evt_ba_status,
      BaAssign, allVars, backVars, resetVars
<1>2. CASE RequestQueued
  <2>1. queued' /\ UNCHANGED <<back_pending, back, stage, gen>>
    BY <1>2 DEF RequestQueued, resetVars
  <2>2. QED
    BY <2>1 DEF IInv, QueueType, AllFresh, AtWork, Fresh, WorkComes, WmiEmpty, BackEmpty
<1>3. QED
  BY <1>1, <1>2, RequestInv, BackInv, ResetInv DEF SessionsNext

\* At the start there is no request.
LEMMA InitInv == ASSUME SessionsInit PROVE IInv
BY BoundAssumption
DEF SessionsInit, IInv, QueueType, AllFresh, AtWork, WorkComes, WmiEmpty, BackEmpty

-----------------------------------------------------------------------------
\* Requests are followed from the event that brings them to the worker, across
\* any number of resets.
THEOREM Inductive == SessionsInit /\ [][SessionsNext]_allVars => []IInv
<1>1. SessionsInit => IInv
  BY InitInv
<1>2. IInv /\ [SessionsNext]_allVars => IInv'
  BY StepInv
<1>3. QED
  BY <1>1, <1>2, PTL

\* The worker never answers to a firmware a request that it did not bring, except
\* a late one: the order in which wil_reset flushes its work queues (main.c:349).
THEOREM RequestsCurrent == SessionsSpec => []NoStaleRequest
<1>1. IInv => NoStaleRequest
  BY DEF IInv, AllFresh, AtWork, Fresh, NoStaleRequest
<1>2. QED
  BY <1>1, Inductive, PTL DEF SessionsSpec

-----------------------------------------------------------------------------
\* Where the two workers are with the session.  A pointer to freed memory is there
\* only while back_worker allocates; what is in place while a worker allocates was
\* assigned by the other; and a poll that takes its session for live has one.
Makers ==
  /\ ba \in WSizes \cup {NULL}
  /\ dangling => back # NULL /\ back.pc = "alloc"
  /\ tid_rx # NULL => maker = "event" \/ maker = "back"
  /\ back # NULL /\ back.pc = "alloc" /\ tid_rx # NULL /\ ~dangling => maker = "event"
  /\ ba # NULL /\ tid_rx # NULL => maker = "back"
  /\ rx = "live" => tid_rx # NULL

\* A worker assigns a session of a window that the driver agrees to.
LEMMA AssignSound ==
  ASSUME NEW worker, NEW size \in WSizes, NEW ssn \in SeqNums, Assign(worker, size, ssn)
  PROVE  Buffered' /\ HeadSlotEmpty'
BY AllocSound DEF Assign, Buffered, HeadSlotEmpty, HeadEmpty

\* back_worker does.
LEMMA BackAssignSound ==
  ASSUME QueueType, BackAssign
  PROVE  Buffered' /\ HeadSlotEmpty'
<1>1. back.req \in Request
  BY WorkType DEF BackAssign, AtWork
<1>2. agg_wsize(back.req) \in WSizes /\ back.req.ssn \in SeqNums
  BY <1>1, CappedAssumption, SsnsAssumption DEF Request, agg_wsize, SeqNums
<1>3. QED
  BY <1>2, AssignSound DEF BackAssign

\* Frames, disconnections, Block Ack events and the workers keep the buffer sound;
\* nothing else touches it.
LEMMA BufferStep ==
  ASSUME \A b \in WSizes : b >= 2 /\ SeqModulo % b = 0,
         QueueType, Makers, Buffered, HeadSlotEmpty, [SessionsNext]_allVars
  PROVE  Buffered' /\ HeadSlotEmpty'
<1>1. CASE UNCHANGED tid_rx
  BY <1>1 DEF Buffered, HeadSlotEmpty, Sound, InRange, Stored, Slots, SlotAt, reorder_index, Ahead
<1>2. CASE \E f \in Frames : RxWork(f)
  BY <1>1, <1>2, FrameSound DEF RxWork
<1>3. CASE Disconnected \/ wmi_evt_ba_status
  BY <1>3 DEF Disconnected, wmi_evt_ba_status, EndSession, Buffered, HeadSlotEmpty
<1>4. CASE BaAssign
  <2>1. 0 \in SeqNums
    BY SeqModuloAssumption DEF SeqNums
  <2>2. ba \in WSizes
    BY <1>4 DEF BaAssign, Makers
  <2>3. QED
    BY <1>4, <2>1, <2>2, AssignSound DEF BaAssign
<1>5. CASE BackAssign
  BY <1>5, BackAssignSound
<1>6. CASE BackStep /\ ~BackAssign
  BY <1>1, <1>6
  DEF BackStep, BackStart, BackNext, BackSend, BackAnswered, BackFree, Quiet
<1>7. CASE \/ \E f \in Frames : RxPass(f)
           \/ RxRead \/ wmi_evt_connect \/ Connected \/ wil_rcp_addba_request \/ RequestQueued
           \/ ResetBegin \/ ResetStep \/ UNCHANGED allVars
  BY <1>1, <1>7
  DEF RxPass, NoSession, RxRead, wmi_evt_connect, Connected, wil_rcp_addba_request, AddRequest,
      RequestQueued, ResetBegin, ResetStep, ResetWmi, ResetBack, ResetTarget, ResetEnd, Quiet,
      allVars, sessionVars
<1>8. QED
  BY <1>2, <1>3, <1>4, <1>5, <1>6, <1>7 DEF SessionsNext

\* Each step keeps the two workers apart.
LEMMA MakersStep ==
  ASSUME \A b \in WSizes : b >= 2 /\ SeqModulo % b = 0,
         QueueType, Makers, Buffered, [SessionsNext]_allVars
  PROVE  Makers'
<1>1. CASE UNCHANGED <<tid_rx, dangling, rx, maker, ba, back>>
  BY <1>1 DEF Makers
<1>2. CASE \E f \in Frames : RxWork(f)
  <2>1. PICK f \in Frames : RxWork(f)
    BY <1>2
  <2>2. tid_rx # NULL <=> tid_rx' # NULL
    <3>1. CASE rx = "live" /\ wil_rx_reorder(f)
      <4>1. tid_rx # NULL
        BY <3>1 DEF Makers
      <4>2. Sound(tid_rx')
        BY <3>1, <4>1, FrameOrder
      <4>3. QED
        BY <4>1, <4>2, NullAssumption DEF Sound
    <3>2. CASE UNCHANGED tid_rx
      BY <3>2
    <3>3. QED
      BY <2>1, <3>1, <3>2 DEF RxWork
  <2>3. rx' = "idle" /\ UNCHANGED <<dangling, maker, ba, back>>
    BY <2>1 DEF RxWork, backVars
  <2>4. QED
    BY <2>2, <2>3 DEF Makers
<1>3. CASE RxRead
  <2>1. tid_rx # NULL /\ UNCHANGED <<tid_rx, dangling, maker, ba, back>>
    BY <1>3 DEF RxRead, backVars
  <2>2. QED
    BY <2>1 DEF Makers
<1>4. CASE Disconnected \/ wmi_evt_ba_status
  <2>1. tid_rx' = NULL /\ ~dangling' /\ rx' # "live" /\ ba' \in WSizes \cup {NULL}
    BY <1>4 DEF Disconnected, wmi_evt_ba_status, EndSession, PollLeft, Makers
  <2>2. QED
    BY <2>1 DEF Makers
<1>5. CASE BaAssign
  <2>1. /\ ~dangling' /\ rx' # "live" /\ ba' = NULL
        /\ tid_rx' # NULL => maker' = "event"
    BY <1>5 DEF BaAssign, Assign, PollLeft
  <2>2. QED
    BY <2>1 DEF Makers
<1>6. CASE BackAssign
  <2>1. /\ ~dangling' /\ rx' # "live" /\ ba' = ba /\ back' = AfterRequest
        /\ tid_rx' # NULL => maker' = "back"
    BY <1>6 DEF BackAssign, Assign, PollLeft
  <2>2. back'.pc # "alloc"
    BY <2>1, NoneAtWork
  <2>3. QED
    BY <2>1, <2>2 DEF Makers
<1>7. CASE BackFree
  <2>1. /\ tid_rx' = tid_rx /\ maker' = maker /\ ba' = ba /\ rx' # "live"
        /\ dangling' = (tid_rx # NULL) /\ back' = [back EXCEPT !.pc = "alloc"]
    BY <1>7 DEF BackFree, PollLeft
  <2>2. AtWork
    BY <1>7 DEF BackFree, AtWork
  <2>3. back' \in Handling /\ back'.pc = "alloc"
    BY <2>1, <2>2, WorkType DEF Handling
  <2>4. back' # NULL
    BY <2>3, NullHandling
  <2>5. QED
    BY <2>1, <2>3, <2>4 DEF Makers
<1>8. CASE BackStep /\ ~BackFree /\ ~BackAssign
  <2>1. UNCHANGED <<tid_rx, dangling, rx, maker, ba>>
    BY <1>8 DEF BackStep, BackStart, BackNext, BackSend, BackAnswered, Quiet
  <2>2. ~dangling
    BY <1>8 DEF BackStep, BackStart, BackNext, BackSend, BackAnswered, Makers
  <2>3. back' = NULL \/ back'.pc # "alloc"
    <3>1. CASE BackStart \/ BackNext
      BY <3>1 DEF BackStart, BackNext
    <3>2. CASE BackSend \/ BackAnswered
      <4>1. AtWork /\ back' \in {[back EXCEPT !.pc = "wait"], [back EXCEPT !.pc = "apply"], AfterRequest}
        BY <3>2 DEF BackSend, BackAnswered, AtWork
      <4>2. [back EXCEPT !.pc = "wait"].pc = "wait" /\ [back EXCEPT !.pc = "apply"].pc = "apply"
        BY <4>1, WorkType
      <4>3. QED
        BY <4>1, <4>2, NoneAtWork
    <3>3. QED
      BY <1>8, <3>1, <3>2 DEF BackStep
  <2>4. QED
    BY <2>1, <2>2, <2>3 DEF Makers
<1>9. CASE \/ \E f \in Frames : RxPass(f)
           \/ wmi_evt_connect \/ Connected \/ wil_rcp_addba_request \/ RequestQueued
           \/ ResetBegin \/ ResetStep \/ UNCHANGED allVars
  BY <1>1, <1>9
  DEF RxPass, NoSession, wmi_evt_connect, Connected, wil_rcp_addba_request, AddRequest,
      RequestQueued, ResetBegin, ResetStep, ResetWmi, ResetBack, ResetTarget, ResetEnd, Quiet,
      allVars, sessionVars, backVars
<1>10. QED
  BY <1>2, <1>3, <1>4, <1>5, <1>6, <1>7, <1>8, <1>9 DEF SessionsNext, BackStep

\* At the start there is no session.
LEMMA MakersInit == ASSUME SessionsInit PROVE Makers /\ Buffered /\ HeadSlotEmpty
BY DEF SessionsInit, Init, Makers, Buffered, HeadSlotEmpty

\* The buffer and the workers, as an invariant with that of the requests.
LEMMA BufferedAlways ==
  ASSUME \A b \in WSizes : b >= 2 /\ SeqModulo % b = 0
  PROVE  SessionsSpec => [](IInv /\ Makers /\ Buffered /\ HeadSlotEmpty)
<1>1. SessionsInit => Makers /\ Buffered /\ HeadSlotEmpty
  BY MakersInit
<1>2. IInv /\ Makers /\ Buffered /\ HeadSlotEmpty /\ [SessionsNext]_allVars
        => (Makers /\ Buffered /\ HeadSlotEmpty)'
  BY BufferStep, MakersStep DEF IInv
<1>3. QED
  BY <1>1, <1>2, Inductive, PTL DEF SessionsSpec

\* Whatever the order of requests, Block Ack events, disconnections, resets and
\* frames, count, slots and range of the buffer are right and nothing that could
\* be delivered is kept, for windows of 2 and more that divide the sequence space
\* (rx_reorder.c:113, 130).
THEOREM BufferRight ==
  ASSUME \A b \in WSizes : b >= 2 /\ SeqModulo % b = 0
  PROVE  SessionsSpec => []BufferConsistent
<1>1. Buffered /\ HeadSlotEmpty => BufferConsistent
  BY DEF Buffered, HeadSlotEmpty, BufferConsistent, Sound, InRange, StoredCount, InWindow, Ahead
<1>2. QED
  BY <1>1, BufferedAlways, PTL

-----------------------------------------------------------------------------
\* Whatever the order of requests, Block Ack events, disconnections, resets and
\* frames: a call for a frame gives frames to the stack in sequence order.
THEOREM SessionsInOrder ==
  ASSUME \A b \in WSizes : b >= 2 /\ SeqModulo % b = 0
  PROVE  SessionsSpec => InOrder
<1>1. Buffered =>
        [\A f \in Frames :
           tid_rx # NULL /\ wil_rx_reorder(f) =>
             LET old == tid_rx.head_seq_num
                 adv == seq_sub(tid_rx'.head_seq_num, old)
             IN  /\ adv <= SeqModulo \div 2 + 1
                 /\ \A j \in DOMAIN out' : Ahead(out'[j], old) < adv
                 /\ \A j \in 1..(Len(out') - 1) :
                      Ahead(out'[j], old) < Ahead(out'[j + 1], old)]_vars
  BY OrderStep
<1>2. SessionsSpec => []Buffered
  BY BufferedAlways, PTL
<1>3. QED
  BY <1>1, <1>2, PTL DEF InOrder

\* ... and it drops the frame it brings only if that is out of date or a
\* repetition (rx_reorder.c:105, 117).
THEOREM SessionsDropNone ==
  ASSUME \A b \in WSizes : b >= 2 /\ SeqModulo % b = 0
  PROVE  SessionsSpec => NoFalseDrop
<1>1. Buffered =>
        [\A f \in Frames :
           tid_rx # NULL /\ wil_rx_reorder(f) =>
             \/ \E j \in DOMAIN out' : out'[j] = f
             \/ f \in Held(tid_rx')
             \/ seq_less(wil_rxdesc_seq(f), tid_rx.head_seq_num)
             \/ \E g \in Held(tid_rx) : wil_rxdesc_seq(g) = wil_rxdesc_seq(f)]_vars
  BY DropStep
<1>2. SessionsSpec => []Buffered
  BY BufferedAlways, PTL
<1>3. QED
  BY <1>1, <1>2, PTL DEF NoFalseDrop

\* A step that loses a held frame overwrites a session in place.
LEMMA SessionLossStep ==
  ASSUME \A b \in WSizes : b >= 2 /\ SeqModulo % b = 0,
         Makers, Buffered, [SessionsNext]_allVars, HeldFrameLost, allVars' # allVars
  PROVE  (BackAssign /\ maker = "event") \/ (BaAssign /\ maker = "back")
<1>1. CASE \/ \E f \in Frames : wil_rx_reorder(f)
           \/ out' = wil_tid_ampdu_rx_free(tid_rx)
  <2>1. \A g \in Held(tid_rx) : In(g, out') \/ (tid_rx' # NULL /\ g \in Held(tid_rx'))
    BY <1>1, LossStep DEF HeldFrameLost
  <2>2. QED
    BY <2>1 DEF HeldFrameLost, In
<1>2. CASE UNCHANGED tid_rx
  BY <1>2 DEF HeldFrameLost, Held, Stored, Slots
<1>3. CASE BackAssign
  BY <1>3 DEF BackAssign, Makers, HeldFrameLost
<1>4. CASE BaAssign
  BY <1>4 DEF BaAssign, Makers, HeldFrameLost
<1>5. CASE \E f \in Frames : RxPass(f) \/ RxWork(f)
  BY <1>1, <1>2, <1>5 DEF RxPass, RxWork, NoSession
<1>6. CASE Disconnected \/ wmi_evt_ba_status \/ BackFree
  BY <1>1, <1>6 DEF Disconnected, wmi_evt_ba_status, BackFree, EndSession, Flushed, HeldFrameLost
<1>7. CASE \/ RxRead \/ wmi_evt_connect \/ Connected \/ wil_rcp_addba_request \/ RequestQueued
           \/ BackStart \/ BackNext \/ BackSend \/ BackAnswered
           \/ ResetBegin \/ ResetStep
  BY <1>2, <1>7
  DEF RxRead, wmi_evt_connect, Connected, wil_rcp_addba_request, AddRequest,
      RequestQueued, BackStart, BackNext, BackSend, BackAnswered, ResetBegin, ResetStep, ResetWmi,
      ResetBack, ResetTarget, ResetEnd, Quiet
<1>8. QED
  BY <1>3, <1>4, <1>5, <1>6, <1>7 DEF SessionsNext, BackStep

\* No frame that is held is lost, also when its session is replaced or ends
\* (rx_reorder.c:179), whatever two threads do to it, except where one worker
\* overwrites the session that the other has assigned.
THEOREM SessionsLoseNone ==
  ASSUME \A b \in WSizes : b >= 2 /\ SeqModulo % b = 0
  PROVE  SessionsSpec => LostOnlyOverwritten
<1>1. Makers /\ Buffered /\ [SessionsNext]_allVars =>
        [HeldFrameLost => \/ BackAssign /\ maker = "event"
                          \/ BaAssign /\ maker = "back"]_allVars
  BY SessionLossStep
<1>2. QED
  BY <1>1, BufferedAlways, PTL DEF SessionsSpec, LostOnlyOverwritten

-----------------------------------------------------------------------------
(* Numbers modulo SeqModulo and absolute ones. *)

\* The distance of absolute numbers, seen through their remainders.
LEMMA AheadAbs ==
  ASSUME NEW f \in Nat, NEW A \in Nat
  PROVE  /\ f >= A /\ f - A < SeqModulo => Ahead(f, A % SeqModulo) = f - A
         /\ f < A /\ A - f <= SeqModulo => Ahead(f, A % SeqModulo) = SeqModulo - (A - f)
<1>1. PICK M \in Nat : M = SeqModulo /\ M > 2 /\ M > 0
  BY SeqModuloAssumption
<1>2. PICK d \in Int, u \in Int : f = M * d + u /\ u = f % M
  BY <1>1, Quotient
<1>3. PICK e \in Int, v \in Int : A = M * e + v /\ v = A % M
  BY <1>1, Quotient
<1>4. PICK z \in Int : z = e - d
  OBVIOUS
<1>5. M * z = M * e - M * d
  BY <1>1, <1>4
<1>6. PICK x \in Int : x = f - A
  OBVIOUS
<1>7. u - v = x + M * z
  <2>1. PICK p \in Int, q \in Int : p = M * d /\ q = M * e
    BY <1>1
  <2>2. M * z = q - p /\ f = p + u /\ A = q + v
    BY <1>2, <1>3, <1>5, <2>1
  <2>3. QED
    BY <1>6, <2>2
<1>8. (u - v) % M = x % M
  <2>1. (x + M * z) % M = x % M
    BY <1>1, ModMultiple
  <2>2. QED
    BY <1>7, <2>1
<1>9. Ahead(f, A % SeqModulo) = x % M
  BY <1>1, <1>2, <1>3, <1>8 DEF Ahead, seq_sub, wil_rxdesc_seq
<1>10. CASE x >= 0 /\ x < M
  <2>1. x % M = x
    BY <1>1, <1>10, ModOnce
  <2>2. QED
    BY <1>1, <1>6, <1>9, <1>10, <2>1
<1>11. CASE x < 0 /\ -x <= M
  <2>1. x % M = x + M
    BY <1>1, <1>11, ModNear
  <2>2. QED
    BY <1>1, <1>6, <1>9, <1>11, <2>1
<1>12. QED
  BY <1>1, <1>6, <1>10, <1>11

\* Frames less than a round apart with one sequence number are one frame.
LEMMA SameAbs ==
  ASSUME NEW f \in Nat, NEW g \in Nat, wil_rxdesc_seq(f) = wil_rxdesc_seq(g),
         f - g < SeqModulo, g - f < SeqModulo
  PROVE  f = g
<1>1. Ahead(f, g % SeqModulo) = Ahead(g, g % SeqModulo)
  BY DEF Ahead
<1>2. Ahead(g, g % SeqModulo) = 0
  BY AheadAbs, SeqModuloAssumption
<1>3. CASE f >= g
  BY <1>1, <1>2, <1>3, AheadAbs
<1>4. CASE f < g
  <2>1. Ahead(f, g % SeqModulo) = SeqModulo - (g - f)
    BY <1>4, AheadAbs, SeqModuloAssumption
  <2>2. QED
    BY <1>1, <1>2, <1>4, <2>1, SeqModuloAssumption
<1>5. QED
  BY <1>3, <1>4

Half == SeqModulo \div 2

\* Windows of 2 and more that divide the sequence space and are at most a
\* quarter of it: 16 of 4096 at most, in the code.
Windows == \A b \in WSizes : b >= 2 /\ SeqModulo % b = 0 /\ 4 * b <= SeqModulo

\* The buffer, in absolute numbers: what is held is within a window of the head.
HeadKnown ==
  /\ tid_rx # NULL /\ Sound(tid_rx) /\ HeadEmpty(tid_rx)
  /\ absHead \in Nat /\ tid_rx.head_seq_num = absHead % SeqModulo
  /\ \A g \in Held(tid_rx) : absHead <= g /\ g < absHead + tid_rx.buf_size

\* The sizes that the arithmetic below is about.
LEMMA Sizes ==
  ASSUME Windows, NEW r, Sound(r)
  PROVE  \E M \in Nat, b \in Nat : /\ M = SeqModulo /\ b = r.buf_size
                                   /\ Half \in Nat /\ 2 * Half <= M /\ M <= 2 * Half + 1
                                   /\ b >= 2 /\ 4 * b <= M /\ 2 * b <= Half /\ M % b = 0 /\ b \in WSizes
<1>1. SeqModulo \in Nat /\ r.buf_size \in WSizes /\ r.buf_size \in Nat
  BY SeqModuloAssumption, Fields DEF Sound
<1>2. Half \in Nat /\ 2 * Half <= SeqModulo /\ SeqModulo <= 2 * Half + 1
  BY <1>1, HalfRange DEF Half
<1>3. r.buf_size >= 2 /\ 4 * r.buf_size <= SeqModulo /\ SeqModulo % r.buf_size = 0
  BY <1>1 DEF Windows
<1>4. 2 * r.buf_size <= Half
  BY <1>1, <1>2, <1>3
<1>5. QED
  BY <1>1, <1>2, <1>3, <1>4

\* A frame near the head is out of date if its absolute number says so, and
\* otherwise as far ahead as that says.
LEMMA NearHead ==
  ASSUME Windows, HeadKnown, NEW f \in Frames,
         absHead - tid_rx.buf_size <= f, f < absHead + Half
  PROVE  /\ seq_less(wil_rxdesc_seq(f), tid_rx.head_seq_num) <=> f < absHead
         /\ f >= absHead => Ahead(f, tid_rx.head_seq_num) = f - absHead
<1>1. PICK M \in Nat, b \in Nat : /\ M = SeqModulo /\ b = tid_rx.buf_size
                                  /\ Half \in Nat /\ 2 * Half <= M /\ M <= 2 * Half + 1
                                  /\ b >= 2 /\ 4 * b <= M /\ 2 * b <= Half
  BY Sizes DEF HeadKnown
<1>2. f \in Nat /\ absHead \in Nat /\ tid_rx.head_seq_num = absHead % SeqModulo
  BY FramesAssumption DEF HeadKnown
<1>3. seq_less(wil_rxdesc_seq(f), tid_rx.head_seq_num) <=> Ahead(f, tid_rx.head_seq_num) > Half
  BY DEF seq_less, Ahead, Half
<1>4. CASE f >= absHead
  <2>1. f - absHead < M
    BY <1>1, <1>2
  <2>2. Ahead(f, tid_rx.head_seq_num) = f - absHead
    BY <1>1, <1>2, <1>4, <2>1, AheadAbs
  <2>3. ~(f - absHead > Half)
    BY <1>1, <1>2
  <2>4. QED
    BY <1>2, <1>3, <1>4, <2>2, <2>3
<1>5. CASE f < absHead
  <2>1. absHead - f <= M
    BY <1>1, <1>2
  <2>2. Ahead(f, tid_rx.head_seq_num) = M - (absHead - f)
    BY <1>1, <1>2, <1>5, <2>1, AheadAbs
  <2>3. M - (absHead - f) > Half
    <3>1. absHead - f <= b
      BY <1>1, <1>2
    <3>2. b < M - Half
      BY <1>1
    <3>3. QED
      BY <1>1, <1>2, <3>1, <3>2
  <2>4. QED
    BY <1>2, <1>3, <1>5, <2>2, <2>3
<1>6. QED
  BY <1>2, <1>4, <1>5

\* A sequence of elements of a set is one of a larger set.
LEMMA WiderSeq ==
  ASSUME NEW S, NEW T, S \subseteq T, NEW Q \in Seq(S)
  PROVE  Q \in Seq(T)
OBVIOUS

\* A head that moves on moves its absolute number on.
LEMMA ModPlus ==
  ASSUME NEW A \in Nat, NEW k \in Nat
  PROVE  ((A % SeqModulo) + k) % SeqModulo = (A + k) % SeqModulo
<1>1. PICK M \in Nat : M = SeqModulo /\ M > 0
  BY SeqModuloAssumption
<1>2. PICK e \in Int, v \in Int : A = M * e + v /\ v = A % M
  BY <1>1, Quotient
<1>3. PICK x \in Int, y \in Int : x = v + k /\ y = A + k
  OBVIOUS
<1>4. y = x + M * e
  <2>1. PICK p \in Int : p = M * e
    BY <1>1
  <2>2. A = p + v
    BY <1>2, <2>1
  <2>3. y = x + p
    BY <1>3, <2>2
  <2>4. QED
    BY <2>1, <2>3
<1>5. y % M = x % M
  <2>1. (x + M * e) % M = x % M
    BY <1>1, ModMultiple
  <2>2. QED
    BY <1>4, <2>1
<1>6. QED
  BY <1>1, <1>2, <1>3, <1>5

\* What is held is in the window, and what is in the window's first place is in
\* the slot at the head.
LEMMA HeldNear ==
  ASSUME NEW r, Sound(r), NEW g \in Held(r)
  PROVE  /\ g \in Frames /\ g \in Nat /\ Ahead(g, r.head_seq_num) < r.buf_size
         /\ HeadEmpty(r) => Ahead(g, r.head_seq_num) # 0
<1>1. PICK i \in Stored(r) : g = r.reorder_buf[i]
  BY DEF Held
<1>2. g \in Frames /\ g \in Nat
  BY HeldType, FramesAssumption
<1>3. reorder_index(r, wil_rxdesc_seq(g)) = i /\ Ahead(g, r.head_seq_num) < r.buf_size
  BY <1>1 DEF Sound, InRange
<1>4. SlotAt(r, Ahead(g, r.head_seq_num)) = i
  <2>1. wil_rxdesc_seq(g) \in SeqNums
    BY <1>2, SeqType
  <2>2. QED
    BY <1>3, <2>1, SlotOfFrame DEF Ahead
<1>5. QED
  BY <1>1, <1>2, <1>3, <1>4 DEF HeadEmpty, Stored

\* Where the window begins once it is open up to frame f.
Base(f) ==
  IF f < absHead + tid_rx.buf_size THEN absHead ELSE f - tid_rx.buf_size + 1

\* A frame that is neither out of date nor held: what is below the first gap goes
\* up, in absolute numbers.
LEMMA NewFrame ==
  ASSUME Windows, HeadKnown, NEW f \in Frames, f \notin Held(tid_rx),
         absHead <= f, f < absHead + Half, wil_rx_reorder(f),
         absHead' = absHead + seq_sub(tid_rx'.head_seq_num, tid_rx.head_seq_num)
  PROVE  LET all == Held(tid_rx) \cup {f}
         IN  /\ HeadKnown' /\ tid_rx'.buf_size = tid_rx.buf_size
             /\ all \in SUBSET Nat /\ Base(f) \in Nat /\ absHead <= Base(f)
             /\ absHead' \in Base(f)..(Base(f) + tid_rx.buf_size)
             /\ \A x \in Base(f)..(absHead' - 1) : x \in all
             /\ absHead' \notin all
             /\ Held(tid_rx') = {x \in all : absHead' <= x}
             /\ out' = Ascending({x \in all : x < absHead'})
<1> DEFINE all == Held(tid_rx) \cup {f}
           new == tid_rx'
           h == tid_rx.head_seq_num
<1>1. PICK M \in Nat, b \in Nat : /\ M = SeqModulo /\ b = tid_rx.buf_size
                                  /\ Half \in Nat /\ 2 * Half <= M /\ M <= 2 * Half + 1
                                  /\ b >= 2 /\ 4 * b <= M /\ 2 * b <= Half
  BY Sizes DEF HeadKnown
<1>2. PICK A \in Nat : A = absHead /\ h = A % SeqModulo
  BY DEF HeadKnown
<1>3. h \in SeqNums /\ Buffered
  BY Fields DEF HeadKnown, Sound, Buffered
<1>4. ASSUME NEW g \in all
      PROVE  g \in Frames /\ g \in Nat /\ A <= g /\ g < A + Half /\ Ahead(g, h) = g - A
  <2>1. g \in Frames /\ g \in Nat
    BY HeldType, FramesAssumption DEF HeadKnown
  <2>2. A <= g /\ g < A + Half
    <3>1. CASE g = f
      BY <1>2, <3>1
    <3>2. CASE g \in Held(tid_rx)
      <4>1. A <= g /\ g < A + b
        BY <1>1, <1>2, <3>2 DEF HeadKnown
      <4>2. QED
        BY <1>1, <2>1, <4>1
    <3>3. QED
      BY <3>1, <3>2
  <2>3. absHead - tid_rx.buf_size <= g
    BY <1>1, <1>2, <2>1, <2>2
  <2>4. QED
    BY <1>2, <2>1, <2>2, <2>3, NearHead
<1>5. ~seq_less(wil_rxdesc_seq(f), h)
  <2>1. absHead - tid_rx.buf_size <= f /\ f \in Nat
    BY <1>1, <1>2, <1>4
  <2>2. ~(f < absHead)
    BY <1>2, <2>1
  <2>3. QED
    BY <2>1, <2>2, NearHead
<1>6. PICK n \in Nat, k \in 0..(Half + 1) :
        /\ n <= k /\ k - n <= b
        /\ LET a == Ahead(f, h) IN n = IF a < b THEN 0 ELSE a - b + 1
        /\ out' \in Seq(Frames) /\ Sound(new) /\ Delivers(tid_rx, f, new, out', n, k)
  <2>1. \A d \in WSizes : d >= 2 /\ SeqModulo % d = 0
    BY DEF Windows
  <2>2. tid_rx # NULL
    BY DEF HeadKnown
  <2>3. QED
    BY <1>1, <1>3, <1>5, <2>1, <2>2, FrameDelivers DEF Half
<1>7. k \in Nat /\ k < M /\ k <= Half + 1 /\ n <= k /\ k - n <= b
  BY <1>1, <1>6
<1>8. absHead' = A + k /\ new.head_seq_num = (A + k) % SeqModulo
  <2>1. new.head_seq_num = (h + k) % SeqModulo
    BY <1>6 DEF Delivers
  <2>2. seq_sub(new.head_seq_num, h) = k
    BY <1>1, <1>3, <1>7, <2>1, MovedBy
  <2>3. QED
    BY <1>2, <1>7, <2>1, <2>2, ModPlus
<1>9. Base(f) = A + n
  <2>1. Ahead(f, h) = f - A /\ f \in Nat
    BY <1>4
  <2>2. n = IF f - A < b THEN 0 ELSE f - A - b + 1
    BY <1>6, <2>1
  <2>3. Base(f) = IF f < A + b THEN A ELSE f - b + 1
    BY <1>1, <1>2 DEF Base
  <2>4. QED
    BY <1>1, <2>1, <2>2, <2>3
<1>10. ASSUME NEW x \in all PROVE In(x, out') \/ x \in Held(new)
  <2>1. CASE x \in Held(tid_rx)
    BY <1>6, <2>1 DEF Delivers
  <2>2. ASSUME NEW g \in Held(tid_rx), wil_rxdesc_seq(g) = wil_rxdesc_seq(f) PROVE FALSE
    <3>1. /\ g \in Nat /\ A <= g /\ g < A + Half
          /\ f \in Nat /\ A <= f /\ f < A + Half
      BY <1>4
    <3>2. f - g < SeqModulo /\ g - f < SeqModulo
      BY <1>1, <3>1
    <3>3. f = g
      BY <2>2, <3>1, <3>2, SameAbs
    <3>4. QED
      BY <3>3
  <2>3. CASE x = f
    BY <1>6, <2>2, <2>3 DEF Delivers
  <2>4. QED
    BY <2>1, <2>3
<1>11. ASSUME NEW x, In(x, out') PROVE x \in all /\ x < A + k
  <2>1. x \in all
    BY <1>6, <1>11 DEF Delivers
  <2>2. PICK j \in 1..Len(out') : out'[j] = x
    BY <1>6, <1>11 DEF In
  <2>3. Ahead(x, h) \in 0..(k - 1)
    BY <1>6, <2>2 DEF Delivers, Between
  <2>4. x - A < k /\ x \in Nat
    BY <1>4, <1>7, <2>1, <2>3
  <2>5. QED
    BY <1>7, <2>1, <2>4
<1>12. ASSUME NEW x \in Held(new)
       PROVE  x \in all /\ A + k <= x /\ x < A + k + b /\ Ahead(x, new.head_seq_num) = x - (A + k)
  <2>1. x \in all /\ Ahead(x, new.head_seq_num) < b
    <3>1. x \in all
      BY <1>6 DEF Delivers
    <3>2. Ahead(x, new.head_seq_num) < new.buf_size /\ new.buf_size = b
      BY <1>1, <1>6, HeldNear DEF Delivers
    <3>3. QED
      BY <3>1, <3>2
  <2>2. x \in Nat /\ A <= x /\ x < A + Half
    BY <1>4, <2>1
  <2>3. PICK B \in Nat : B = A + k
    BY <1>7
  <2>4. new.head_seq_num = B % SeqModulo
    BY <1>8, <2>3
  <2>5. ~(x < B)
    <3>1. SUFFICES ASSUME x < B PROVE FALSE
      OBVIOUS
    <3>2. B - x <= M /\ B - x <= Half + 1
      BY <1>1, <1>7, <2>2, <2>3
    <3>3. Ahead(x, new.head_seq_num) = M - (B - x)
      BY <1>1, <2>2, <2>4, <3>1, <3>2, AheadAbs
    <3>4. M - (B - x) >= b
      BY <1>1, <2>2, <2>3, <3>2
    <3>5. QED
      BY <1>1, <2>1, <2>2, <2>3, <3>3, <3>4
  <2>6. x >= B /\ x - B < SeqModulo
    BY <1>1, <1>7, <2>2, <2>3, <2>5
  <2>7. Ahead(x, new.head_seq_num) = x - B
    BY <2>2, <2>4, <2>6, AheadAbs
  <2>8. QED
    BY <1>1, <2>1, <2>2, <2>3, <2>6, <2>7
<1>13. new # NULL /\ HeadEmpty(new)
  <2>1. HeadSlotEmpty
    BY DEF HeadKnown, HeadSlotEmpty, HeadEmpty
  <2>2. HeadSlotEmpty'
    <3>1. (\A d \in WSizes : d >= 2) /\ (\A d \in WSizes : SeqModulo % d = 0)
      BY DEF Windows
    <3>2. QED
      BY <1>3, <2>1, <3>1, FrameSound
  <2>3. new # NULL
    BY <1>6, NullAssumption DEF Sound
  <2>4. QED
    BY <2>2, <2>3 DEF HeadSlotEmpty, HeadEmpty
<1> HIDE DEF all, new
<1>14. A + k \notin all
  <2>1. SUFFICES ASSUME A + k \in all PROVE FALSE
    OBVIOUS
  <2>2. A + k \in Held(new)
    BY <1>2, <1>7, <1>10, <1>11, <2>1
  <2>3. Ahead(A + k, new.head_seq_num) = 0
    BY <1>7, <1>12, <2>2
  <2>4. QED
    BY <1>6, <1>13, <2>2, <2>3, HeldNear
<1>15. ASSUME NEW x \in (A + n)..(A + k - 1) PROVE x \in all
  <2>1. x - A \in n..(k - 1) /\ x \in Nat
    BY <1>7
  <2>2. PICK g \in all : Ahead(g, h) = x - A
    BY <1>6, <2>1 DEF Delivers, all
  <2>3. g = x
    <3>1. g \in Nat /\ Ahead(g, h) = g - A
      BY <1>4
    <3>2. g - A = x - A
      BY <2>2, <3>1
    <3>3. QED
      BY <2>1, <3>1, <3>2
  <2>4. QED
    BY <2>2, <2>3
<1>16. Held(new) = {x \in all : A + k <= x}
  <2>1. ASSUME NEW x \in all, A + k <= x PROVE x \in Held(new)
    <3>1. x \in Nat
      BY <1>4
    <3>2. QED
      BY <1>7, <1>10, <1>11, <2>1, <3>1
  <2>2. QED
    BY <1>12, <2>1
<1> DEFINE up == {x \in all : x < A + k}
<1>17. out' = Ascending(up)
  <2>1. up \in SUBSET Int /\ \A x \in up : x \in all /\ x < A + k
    BY <1>4
  <2>2. PICK Q \in Seq(Frames) : Q = out' /\ Between(Q, h, k)
    BY <1>6 DEF Delivers
  <2>3. Q \in Seq(Int)
    <3>1. Frames \subseteq Int
      BY FramesAssumption
    <3>2. QED
      BY <3>1, WiderSeq
  <2>4. ASSUME NEW j \in 1..Len(Q) PROVE Q[j] \in up
    <3>1. In(Q[j], out')
      BY <2>2 DEF In
    <3>2. QED
      BY <1>11, <3>1
  <2>5. ASSUME NEW i \in 1..Len(Q), NEW j \in 1..Len(Q), i < j PROVE Q[i] < Q[j]
    <3>1. Ahead(Q[i], h) < Ahead(Q[j], h)
      BY <2>2, <2>5 DEF Between
    <3>2. PICK x \in all, y \in all : x = Q[i] /\ y = Q[j]
      BY <2>4
    <3>3. x \in Nat /\ y \in Nat /\ Ahead(x, h) = x - A /\ Ahead(y, h) = y - A
      BY <1>4, <3>2
    <3>4. QED
      BY <3>1, <3>2, <3>3
  <2>6. ASSUME NEW x \in up PROVE \E j \in 1..Len(Q) : Q[j] = x
    <3>1. x \in Nat /\ x < A + k /\ x \in all
      BY <1>4
    <3>2. In(x, out')
      <4>1. ~(A + k <= x)
        BY <1>7, <3>1
      <4>2. QED
        BY <1>10, <1>12, <3>1, <4>1
    <3>3. QED
      BY <2>2, <3>2 DEF In
  <2> HIDE DEF up
  <2>7. QED
    BY <2>1, <2>2, <2>3, <2>4, <2>5, <2>6, AscendingUnique
<1>18. HeadKnown'
  <2>1. absHead' \in Nat /\ tid_rx'.head_seq_num = absHead' % SeqModulo
    BY <1>7, <1>8 DEF new
  <2>2. \A g \in Held(new) : A + k <= g /\ g < A + k + b
    BY <1>12
  <2>3. new.buf_size = b
    BY <1>1, <1>6 DEF Delivers
  <2>4. QED
    BY <1>6, <1>8, <1>13, <2>1, <2>2, <2>3 DEF HeadKnown, new
<1>19. /\ A + k \in (A + n)..(A + n + b) /\ A + n \in Nat /\ A <= A + n
       /\ absHead' = A + k /\ Base(f) = A + n /\ absHead = A /\ tid_rx.buf_size = b
       /\ tid_rx'.buf_size = tid_rx.buf_size
  <2>1. A + k \in (A + n)..(A + n + b) /\ A + n \in Nat /\ A <= A + n
    BY <1>1, <1>7
  <2>2. tid_rx'.buf_size = tid_rx.buf_size
    BY <1>6 DEF Delivers, new
  <2>3. QED
    BY <1>1, <1>2, <1>8, <1>9, <2>1, <2>2
<1>20. all \in SUBSET Nat
  BY <1>4
<1>21. /\ absHead' \in Base(f)..(Base(f) + tid_rx.buf_size)
       /\ Base(f) \in Nat /\ absHead <= Base(f) /\ absHead' \notin all
       /\ \A x \in Base(f)..(absHead' - 1) : x \in all
  BY <1>14, <1>15, <1>19
<1>22. /\ Held(tid_rx') = {x \in all : absHead' <= x}
       /\ out' = Ascending({x \in all : x < absHead'})
  BY <1>16, <1>17, <1>19 DEF new, up
<1>23. QED
  BY <1>18, <1>19, <1>20, <1>21, <1>22 DEF all

\* A frame that is out of date, or held, changes nothing.
LEMMA OldFrame ==
  ASSUME Windows, HeadKnown, NEW f \in Frames, f < absHead \/ f \in Held(tid_rx),
         absHead - tid_rx.buf_size <= f, f < absHead + Half, wil_rx_reorder(f),
         absHead' = absHead + seq_sub(tid_rx'.head_seq_num, tid_rx.head_seq_num)
  PROVE  tid_rx' = tid_rx /\ out' = <<>> /\ absHead' = absHead
<1>1. Buffered /\ tid_rx # NULL /\ tid_rx.head_seq_num \in SeqNums /\ absHead \in Nat
  BY Fields DEF HeadKnown, Buffered, Sound
<1>2. tid_rx' = tid_rx /\ out' = <<>>
  <2>1. CASE f < absHead
    <3>1. seq_less(wil_rxdesc_seq(f), tid_rx.head_seq_num)
      BY <2>1, NearHead
    <3>2. QED
      BY <1>1, <3>1 DEF wil_rx_reorder, NoSession
  <2>2. CASE f \in Held(tid_rx)
    <3>1. ~(f < absHead)
      <4>1. absHead <= f /\ f \in Nat
        BY <2>2, FramesAssumption DEF HeadKnown
      <4>2. QED
        BY <1>1, <4>1
    <3>2. ~seq_less(wil_rxdesc_seq(f), tid_rx.head_seq_num)
      BY <3>1, NearHead
    <3>3. \A d \in WSizes : d >= 2 /\ SeqModulo % d = 0
      BY DEF Windows
    <3>4. QED
      BY <1>1, <2>2, <3>2, <3>3, RepeatDropped
  <2>3. QED
    BY <2>1, <2>2
<1>3. seq_sub(tid_rx.head_seq_num, tid_rx.head_seq_num) = 0
  <2> DEFINE h == tid_rx.head_seq_num
  <2> HIDE DEF h
  <2>1. h \in SeqNums
    BY <1>1 DEF h
  <2>2. seq_sub(h, h) = 0
    BY <2>1, SubIs, SeqModuloAssumption DEF SeqNums
  <2>3. QED
    BY <2>2 DEF h
<1>4. QED
  BY <1>1, <1>2, <1>3

-----------------------------------------------------------------------------
(* The frames in the vring, and the peer's window. *)

PeerType ==
  /\ rxq \in Seq(Frames) /\ winStart \in Nat /\ top \in Int
  /\ winStart <= top + Half - 2 * tid_rx.buf_size + 1
  /\ top <= winStart + tid_rx.buf_size - 1

\* Nothing is past the highest frame that arrived.
NotPast ==
  /\ absHead <= top + 1
  /\ \A x \in Held(tid_rx) : x <= top
  /\ \A i \in 1..Len(rxq) : rxq[i] <= top

\* The highest frame that arrived waits in the vring, or opened the window.
TopSeen ==
  top < absHead + tid_rx.buf_size \/ \E i \in 1..Len(rxq) : top <= rxq[i]

\* A frame in the vring is not more than a window behind what came before it.
NotBehind ==
  /\ \A i, j \in 1..Len(rxq) : i < j => rxq[i] - tid_rx.buf_size < rxq[j]
  /\ \A i \in 1..Len(rxq) : /\ absHead - tid_rx.buf_size <= rxq[i]
                            /\ \A x \in Held(tid_rx) : x - tid_rx.buf_size < rxq[i]

\* Nor is it far ahead of all that came before it.
NotAhead ==
  \A j \in 1..Len(rxq) :
    \/ rxq[j] < absHead + Half
    \/ \E i \in 1..(j - 1) : rxq[j] <= rxq[i] + Half - tid_rx.buf_size

BaInv == HeadKnown /\ PeerType /\ NotPast /\ TopSeen /\ NotBehind /\ NotAhead

\* The frame that is polled next is near the head.
LEMMA FirstNear ==
  ASSUME Windows, BaInv, rxq # <<>>
  PROVE  /\ 1 \in 1..Len(rxq) /\ Head(rxq) = rxq[1] /\ rxq[1] \in Frames
         /\ absHead - tid_rx.buf_size <= rxq[1] /\ rxq[1] < absHead + Half
<1>1. 1 \in 1..Len(rxq) /\ Head(rxq) = rxq[1] /\ rxq[1] \in Frames
  BY DEF BaInv, PeerType
<1>2. absHead - tid_rx.buf_size <= rxq[1]
  BY <1>1 DEF BaInv, NotBehind
<1>3. rxq[1] < absHead + Half
  BY <1>1 DEF BaInv, NotAhead
<1>4. QED
  BY <1>1, <1>2, <1>3

\* What a poll of frame f does to head and buffer, whether f is old or new.
Polled(f) ==
  /\ HeadKnown' /\ tid_rx'.buf_size = tid_rx.buf_size
  /\ absHead <= absHead' /\ f < absHead' + tid_rx.buf_size
  /\ Held(tid_rx') \subseteq Held(tid_rx) \cup {f}
  /\ \/ absHead' = absHead \/ absHead' = f - tid_rx.buf_size + 1
     \/ absHead' - 1 \in Held(tid_rx) \cup {f}

\* Each poll is like that, and a step of the abstract window.
LEMMA PollStep ==
  ASSUME Windows, BaInv, RxPoll
  PROVE  Polled(Head(rxq)) /\ \E f \in Frames : Abstract!Arrive(f) \/ Abstract!Discard(f)
<1> DEFINE f == Head(rxq)
           b == tid_rx.buf_size
           all == Held(tid_rx) \cup {f}
<1>1. /\ f \in Frames /\ absHead - b <= f /\ f < absHead + Half /\ wil_rx_reorder(f)
      /\ absHead' = absHead + seq_sub(tid_rx'.head_seq_num, tid_rx.head_seq_num)
  BY FirstNear DEF RxPoll
<1>2. HeadKnown /\ f \in Nat /\ absHead \in Nat /\ b \in Nat /\ b >= 2
  <2>1. b \in WSizes /\ b \in Nat
    BY Fields DEF BaInv, HeadKnown, Sound
  <2>2. QED
    BY <1>1, <2>1, FramesAssumption DEF BaInv, HeadKnown, Windows
<1> HIDE DEF f, b
<1>3. CASE f < absHead \/ f \in Held(tid_rx)
  <2>1. tid_rx' = tid_rx /\ out' = <<>> /\ absHead' = absHead
    BY <1>1, <1>2, <1>3, OldFrame DEF b
  <2>2. f < absHead + b
    BY <1>2, <1>3 DEF HeadKnown, b
  <2>3. Polled(f)
    BY <1>2, <2>1, <2>2 DEF Polled, b, HeadKnown
  <2>4. Abstract!Discard(f)
    BY <1>3, <2>1 DEF Abstract!Discard
  <2>5. QED
    BY <1>1, <2>3, <2>4 DEF f
<1>4. CASE ~(f < absHead) /\ f \notin Held(tid_rx)
  <2>1. /\ HeadKnown' /\ tid_rx'.buf_size = b
        /\ all \in SUBSET Nat /\ Base(f) \in Nat /\ absHead <= Base(f)
        /\ absHead' \in Base(f)..(Base(f) + b)
        /\ \A x \in Base(f)..(absHead' - 1) : x \in all
        /\ absHead' \notin all
        /\ Held(tid_rx') = {x \in all : absHead' <= x}
        /\ out' = Ascending({x \in all : x < absHead'})
    <3>1. absHead <= f
      BY <1>2, <1>4
    <3>2. QED
      BY <1>1, <1>2, <1>4, <3>1, NewFrame DEF b
  <2>2. PICK base \in Nat, gap \in Nat :
          /\ base = Base(f) /\ gap = absHead' /\ gap \in base..(base + b)
          /\ absHead <= base /\ base = IF f < absHead + b THEN absHead ELSE f - b + 1
    <3>1. absHead' \in Nat
      BY <1>2, <2>1
    <3>2. QED
      BY <2>1, <3>1 DEF Base, b
  <2>3. Polled(f)
    <3>1. absHead <= gap /\ f < gap + b
      <4>1. PICK A \in Nat, c \in Nat, g \in Nat :
              /\ A = absHead /\ c = b /\ g = f
              /\ A <= base /\ base = IF g < A + c THEN A ELSE g - c + 1
        BY <1>2, <2>2 DEF b
      <4>2. base <= gap
        BY <2>2
      <4>3. QED
        BY <4>1, <4>2
    <3>2. gap = absHead \/ gap = f - b + 1 \/ gap - 1 \in all
      <4>1. CASE gap = base
        BY <2>2, <4>1
      <4>2. CASE gap # base
        <5>1. gap - 1 \in base..(gap - 1)
          <6>1. base <= gap /\ gap # base
            BY <2>2, <4>2
          <6>2. QED
            BY <6>1
        <5>2. QED
          BY <2>1, <2>2, <5>1
      <4>3. QED
        BY <4>1, <4>2
    <3>3. Held(tid_rx') \subseteq all
      BY <2>1
    <3>4. QED
      BY <2>1, <2>2, <3>1, <3>2, <3>3 DEF Polled, b
  <2> DEFINE IsGap(n) == n \notin all /\ \A m \in base..(n - 1) : m \in all
  <2>4. gap = CHOOSE n \in base..(base + b) : IsGap(n)
    <3>1. gap \in base..(base + b) /\ IsGap(gap)
      BY <2>1, <2>2
    <3>2. ASSUME NEW n \in base..(base + b), IsGap(n) PROVE n = gap
      <4>0. n \in Int /\ base <= n /\ base <= gap
        BY <1>2, <2>2 DEF b
      <4>1. ~(n < gap)
        <5>1. n < gap => n \in base..(gap - 1)
          BY <4>0
        <5>2. QED
          BY <3>1, <3>2, <5>1
      <4>2. ~(gap < n)
        <5>1. gap < n => gap \in base..(n - 1)
          BY <4>0
        <5>2. QED
          BY <3>1, <3>2, <5>1
      <4>3. QED
        BY <4>0, <4>1, <4>2
    <3> HIDE DEF IsGap
    <3>3. QED
      BY <3>1, <3>2
  <2> DEFINE up == {m \in all : m < gap}
  <2>5. Held(tid_rx') = all \ up
    <3>1. \A x \in all : gap <= x <=> ~(x < gap)
      BY <2>1, <2>2
    <3> HIDE DEF all
    <3>2. QED
      BY <2>1, <2>2, <3>1
  <2>6. Abstract!Ascending(up) = Ascending(up)
    BY DEF Abstract!Ascending, Abstract!Rank, Ascending, Rank, Abstract!Cardinality, Cardinality
  <2>7. Abstract!Arrive(f)
    <3>1. f >= absHead /\ f \notin Held(tid_rx)
      BY <1>2, <1>4
    <3>2. absHead' = gap /\ Held(tid_rx)' = all \ up /\ out' = Abstract!Ascending(up)
          /\ (tid_rx.buf_size)' = tid_rx.buf_size
      BY <2>1, <2>2, <2>5, <2>6 DEF b
    <3>3. base = IF f < absHead + tid_rx.buf_size THEN absHead ELSE f - tid_rx.buf_size + 1
      BY <2>2 DEF b
    <3>4. gap = CHOOSE n \in base..(base + tid_rx.buf_size) :
                  n \notin Held(tid_rx) \cup {f} /\ \A m \in base..(n - 1) : m \in Held(tid_rx) \cup {f}
      BY <2>4 DEF b
    <3>5. QED
      BY <3>1, <3>2, <3>3, <3>4 DEF Abstract!Arrive
  <2>8. QED
    BY <1>1, <2>3, <2>7 DEF f
<1>5. QED
  BY <1>3, <1>4

-----------------------------------------------------------------------------
\* What the sizes and the positions of the peer are.
LEMMA PeerSizes ==
  ASSUME Windows, BaInv
  PROVE  \E b \in Nat, A \in Nat, w \in Nat, t \in Int :
           /\ b = tid_rx.buf_size /\ A = absHead /\ w = winStart /\ t = top
           /\ Half \in Nat /\ b >= 2 /\ 2 * b <= Half
           /\ w <= t + Half - 2 * b + 1 /\ t <= w + b - 1 /\ A <= t + 1
<1>1. tid_rx.buf_size \in Nat /\ Half \in Nat /\ tid_rx.buf_size >= 2
      /\ 2 * tid_rx.buf_size <= Half
  BY Sizes DEF BaInv, HeadKnown
<1>2. absHead \in Nat /\ winStart \in Nat /\ top \in Int
  BY DEF BaInv, HeadKnown, PeerType
<1>3. QED
  BY <1>1, <1>2 DEF BaInv, PeerType, NotPast

\* A frame of the peer's window arrives behind all the others.
LEMMA ArrivalInv ==
  ASSUME Windows, BaInv, NEW f \in Frames, Arrival(f)
  PROVE  BaInv'
<1>1. PICK b \in Nat, A \in Nat, w \in Nat, t \in Int :
        /\ b = tid_rx.buf_size /\ A = absHead /\ w = winStart /\ t = top
        /\ Half \in Nat /\ b >= 2 /\ 2 * b <= Half
        /\ w <= t + Half - 2 * b + 1 /\ t <= w + b - 1 /\ A <= t + 1
  BY PeerSizes
<1>2. /\ f \in Nat /\ w <= f /\ f <= w + b - 1 /\ rxq' = Append(rxq, f)
      /\ top' = (IF f > t THEN f ELSE t)
      /\ tid_rx' = tid_rx /\ absHead' = absHead /\ winStart' = winStart
  BY <1>1, FramesAssumption DEF Arrival
<1>0. PICK g \in Nat, H \in Nat :
        /\ g = f /\ H = Half /\ b >= 2 /\ 2 * b <= H /\ w <= g /\ g <= w + b - 1
        /\ w <= t + H - 2 * b + 1 /\ t <= w + b - 1 /\ A <= t + 1
  BY <1>1, <1>2
<1>3. PICK u \in Int : u = top' /\ t <= u /\ f <= u /\ (u = t \/ u = f) /\ A <= u + 1
  <2>1. PICK y \in Int : y = (IF g > t THEN g ELSE t) /\ t <= y /\ g <= y /\ (y = t \/ y = g)
    OBVIOUS
  <2>2. A <= y + 1
    BY <1>0, <2>1
  <2>3. QED
    BY <1>0, <1>2, <2>1, <2>2
<1>4. PICK q \in Seq(Frames), z \in Nat : q = rxq /\ z = Len(q)
  BY DEF BaInv, PeerType
<1>5. /\ rxq' \in Seq(Frames) /\ Len(rxq') = z + 1 /\ rxq'[z + 1] = f
      /\ \A i \in 1..z : i \in 1..Len(rxq) /\ rxq'[i] = rxq[i] /\ rxq[i] \in Nat /\ rxq[i] <= t
  <2>1. /\ rxq' \in Seq(Frames) /\ Len(rxq') = z + 1 /\ rxq'[z + 1] = f
        /\ \A i \in 1..z : rxq'[i] = rxq[i] /\ rxq[i] \in Frames
    BY <1>2, <1>4
  <2>2. \A i \in 1..z : i \in 1..Len(rxq) /\ rxq[i] <= t
    BY <1>1, <1>4 DEF BaInv, NotPast
  <2>3. QED
    BY <2>1, <2>2, FramesAssumption
<1>6. HeadKnown'
  BY <1>2 DEF BaInv, HeadKnown
<1>7. PeerType'
  <2>1. w <= u + Half - 2 * b + 1 /\ u <= w + b - 1
    <3>1. t <= u /\ (u = t \/ u = g)
      BY <1>0, <1>3
    <3>2. w <= u + H - 2 * b + 1 /\ u <= w + b - 1
      BY <1>0, <3>1
    <3>3. QED
      BY <1>0, <3>2
  <2>2. QED
    BY <1>1, <1>2, <1>3, <1>5, <2>1 DEF PeerType
<1>8. NotPast'
  <2>1. A <= u + 1 /\ \A x \in Held(tid_rx) : x <= u
    <3>1. \A x \in Held(tid_rx) : x <= t /\ x \in Nat
      BY <1>1, HeldType, FramesAssumption DEF BaInv, NotPast, HeadKnown
    <3>2. t <= u
      BY <1>3
    <3>3. \A x \in Nat : x <= t => x <= u
      BY <3>2
    <3>4. QED
      BY <1>3, <3>1, <3>3
  <2>2. ASSUME NEW i \in 1..Len(rxq') PROVE rxq'[i] <= u
    <3>1. i \in 1..z \/ i = z + 1
      BY <1>5
    <3>2. QED
      BY <1>3, <1>5, <3>1
  <2>3. QED
    BY <1>1, <1>2, <1>3, <2>1, <2>2 DEF NotPast
<1>9. TopSeen'
  <2>1. CASE u = f
    <3>1. z + 1 \in 1..Len(rxq') /\ u <= rxq'[z + 1]
      BY <1>3, <1>5, <2>1
    <3>2. QED
      BY <1>3, <3>1 DEF TopSeen
  <2>2. CASE u = t
    <3>1. CASE top < absHead + tid_rx.buf_size
      BY <1>1, <1>2, <1>3, <2>2, <3>1 DEF TopSeen
    <3>2. CASE \E i \in 1..Len(rxq) : top <= rxq[i]
      <4>1. PICK i \in 1..z : t <= rxq[i]
        BY <1>1, <1>4, <3>2
      <4>2. i \in 1..Len(rxq') /\ u <= rxq'[i]
        BY <1>5, <2>2, <4>1
      <4>3. QED
        BY <1>3, <4>2 DEF TopSeen
    <3>3. QED
      BY <3>1, <3>2 DEF BaInv, TopSeen
  <2>3. QED
    BY <1>3, <2>1, <2>2
<1>10. NotBehind'
  <2>1. ASSUME NEW i \in 1..Len(rxq'), NEW j \in 1..Len(rxq'), i < j
        PROVE  rxq'[i] - b < rxq'[j]
    <3>1. i \in 1..z /\ (j \in 1..z \/ j = z + 1)
      BY <1>5, <2>1
    <3>2. CASE j \in 1..z
      <4>1. rxq[i] - b < rxq[j]
        BY <1>1, <1>4, <2>1, <3>1, <3>2 DEF BaInv, NotBehind
      <4>2. QED
        BY <1>5, <3>1, <3>2, <4>1
    <3>3. CASE j = z + 1
      <4>1. PICK y \in Nat : y = rxq'[i] /\ y <= t
        BY <1>5, <3>1
      <4>2. y - b < f
        <5>1. y - b < g
          BY <1>0, <4>1
        <5>2. QED
          BY <1>0, <5>1
      <4>3. QED
        BY <1>5, <3>3, <4>1, <4>2
    <3>4. QED
      BY <3>1, <3>2, <3>3
  <2>2. ASSUME NEW i \in 1..Len(rxq')
        PROVE  A - b <= rxq'[i] /\ \A x \in Held(tid_rx) : x - b < rxq'[i]
    <3>1. i \in 1..z \/ i = z + 1
      BY <1>5
    <3>2. CASE i \in 1..z
      BY <1>1, <1>5, <3>2 DEF BaInv, NotBehind
    <3>3. CASE i = z + 1
      <4>1. A - b <= f
        <5>1. A - b <= g
          BY <1>0
        <5>2. QED
          BY <1>0, <5>1
      <4>2. ASSUME NEW x \in Held(tid_rx) PROVE x - b < f
        <5>1. x <= t /\ x \in Nat
          BY <1>1, HeldType, FramesAssumption DEF BaInv, NotPast, HeadKnown
        <5>2. x - b < g
          BY <1>0, <5>1
        <5>3. QED
          BY <1>0, <5>2
      <4>3. QED
        BY <1>5, <3>3, <4>1, <4>2
    <3>4. QED
      BY <3>1, <3>2, <3>3
  <2>3. QED
    BY <1>1, <1>2, <2>1, <2>2 DEF NotBehind
<1>11. NotAhead'
  <2>1. ASSUME NEW j \in 1..Len(rxq')
        PROVE  \/ rxq'[j] < A + Half
               \/ \E i \in 1..(j - 1) : rxq'[j] <= rxq'[i] + Half - b
    <3>1. j \in 1..z \/ j = z + 1
      BY <1>5
    <3>2. CASE j \in 1..z
      <4>1. \A i \in 1..(j - 1) : i \in 1..z
        BY <3>2
      <4>2. \/ rxq[j] < A + Half
            \/ \E i \in 1..(j - 1) : rxq[j] <= rxq[i] + Half - b
        BY <1>1, <1>5, <3>2 DEF BaInv, NotAhead
      <4>3. QED
        BY <1>5, <3>2, <4>1, <4>2
    <3>3. CASE j = z + 1
      <4>1. g <= t + H - b
        BY <1>0
      <4>2. CASE top < absHead + tid_rx.buf_size
        <5>1. t < A + b
          BY <1>1, <4>2
        <5>2. g < A + H
          BY <1>0, <4>1, <5>1
        <5>3. QED
          BY <1>0, <1>5, <3>3, <5>2
      <4>3. CASE \E i \in 1..Len(rxq) : top <= rxq[i]
        <5>1. PICK i \in 1..z : t <= rxq[i]
          BY <1>1, <1>4, <4>3
        <5>2. PICK y \in Nat : y = rxq'[i] /\ t <= y
          BY <1>5, <5>1
        <5>3. g <= y + H - b
          BY <1>0, <4>1, <5>2
        <5>4. i \in 1..(j - 1)
          BY <3>3, <5>1
        <5>5. QED
          BY <1>0, <1>5, <3>3, <5>2, <5>3, <5>4
      <4>4. QED
        BY <4>2, <4>3 DEF BaInv, TopSeen
    <3>4. QED
      BY <3>1, <3>2, <3>3
  <2>2. QED
    BY <1>1, <1>2, <2>1 DEF NotAhead
<1>12. QED
  BY <1>6, <1>7, <1>8, <1>9, <1>10, <1>11 DEF BaInv

\* The peer's window moves no further than half of the space past an arrival.
LEMMA AdvanceInv ==
  ASSUME Windows, BaInv, PeerAdvance
  PROVE  BaInv'
<1>1. PICK b \in Nat, A \in Nat, w \in Nat, t \in Int :
        /\ b = tid_rx.buf_size /\ A = absHead /\ w = winStart /\ t = top
        /\ Half \in Nat /\ b >= 2 /\ 2 * b <= Half
        /\ w <= t + Half - 2 * b + 1 /\ t <= w + b - 1 /\ A <= t + 1
  BY PeerSizes
<1>2. /\ winStart' = w + 1 /\ w + 2 * b <= t + Half /\ tid_rx' = tid_rx
      /\ absHead' = absHead /\ rxq' = rxq /\ top' = top
  BY <1>1 DEF PeerAdvance, Half
<1>3. w + 1 <= t + Half - 2 * b + 1 /\ t <= (w + 1) + b - 1 /\ w + 1 \in Nat
  BY <1>1, <1>2
<1>4. PeerType'
  BY <1>1, <1>2, <1>3 DEF BaInv, PeerType
<1>5. HeadKnown' /\ NotPast' /\ TopSeen' /\ NotBehind' /\ NotAhead'
  BY <1>2 DEF BaInv, HeadKnown, NotPast, TopSeen, NotBehind, NotAhead
<1>6. QED
  BY <1>4, <1>5 DEF BaInv

-----------------------------------------------------------------------------
\* A frame leaves the vring: what held of it holds of the head it left behind.
LEMMA QueueStep ==
  ASSUME Windows, BaInv, rxq # <<>>, Polled(Head(rxq)), rxq' = Tail(rxq),
         UNCHANGED <<winStart, top>>
  PROVE  BaInv'
<1>1. PICK b \in Nat, A \in Nat, w \in Nat, t \in Int :
        /\ b = tid_rx.buf_size /\ A = absHead /\ w = winStart /\ t = top
        /\ Half \in Nat /\ b >= 2 /\ 2 * b <= Half
        /\ w <= t + Half - 2 * b + 1 /\ t <= w + b - 1 /\ A <= t + 1
  BY PeerSizes
<1>2. PICK f \in Nat, B \in Nat :
        /\ f = Head(rxq) /\ f = rxq[1] /\ 1 \in 1..Len(rxq) /\ B = absHead'
        /\ A <= B /\ f < B + b /\ HeadKnown' /\ tid_rx'.buf_size = b
        /\ Held(tid_rx') \subseteq Held(tid_rx) \cup {f}
        /\ B = A \/ B = f - b + 1 \/ B - 1 \in Held(tid_rx) \cup {f}
  <2>1. Head(rxq) \in Nat /\ Head(rxq) = rxq[1] /\ 1 \in 1..Len(rxq)
    BY FirstNear, FramesAssumption
  <2>2. absHead' \in Nat
    BY DEF Polled, HeadKnown
  <2>3. QED
    BY <1>1, <2>1, <2>2 DEF Polled
<1>0. A <= B /\ f < B + b /\ b >= 2
  BY <1>1, <1>2
<1>3. PICK H \in Nat : H = Half
  BY <1>1
<1>4. PICK z \in Nat :
        /\ Len(rxq) = z + 1 /\ Len(rxq') = z /\ rxq' \in Seq(Frames)
        /\ \A i \in 1..z : /\ i + 1 \in 1..Len(rxq) /\ rxq'[i] = rxq[i + 1]
                           /\ rxq[i + 1] \in Nat /\ rxq[i + 1] <= t
  <2>1. PICK q \in Seq(Frames) : q = rxq
    BY DEF BaInv, PeerType
  <2>2. PICK z \in Nat : Len(q) = z + 1
    BY <2>1
  <2>3. /\ Len(rxq') = z /\ rxq' \in Seq(Frames)
        /\ \A i \in 1..z : rxq'[i] = rxq[i + 1] /\ i + 1 \in 1..Len(rxq) /\ rxq[i + 1] \in Frames
    BY <2>1, <2>2
  <2>4. \A i \in 1..z : rxq[i + 1] <= t
    BY <1>1, <2>3 DEF BaInv, NotPast
  <2>5. QED
    BY <2>1, <2>2, <2>3, <2>4, FramesAssumption
<1>5. ASSUME NEW x \in Held(tid_rx) \cup {f} PROVE x \in Nat /\ x <= t
  <2>1. x \in Held(tid_rx) => x \in Nat /\ x <= t
    BY <1>1, HeldType, FramesAssumption DEF BaInv, NotPast, HeadKnown
  <2>2. f <= t
    BY <1>1, <1>2 DEF BaInv, NotPast
  <2>3. QED
    BY <2>1, <2>2
<1>6. B <= t + 1
  <2>1. CASE B = A
    BY <1>1, <2>1
  <2>2. CASE B = f - b + 1
    <3>1. f <= t
      BY <1>5
    <3>2. QED
      BY <1>0, <2>2, <3>1
  <2>3. CASE B - 1 \in Held(tid_rx) \cup {f}
    <3>1. B - 1 <= t
      BY <1>5, <2>3
    <3>2. QED
      BY <3>1
  <2>4. QED
    BY <1>2, <2>1, <2>2, <2>3
<1>7. PeerType'
  BY <1>1, <1>2, <1>4 DEF BaInv, PeerType
<1>8. NotPast'
  BY <1>1, <1>2, <1>4, <1>5, <1>6 DEF NotPast
<1>9. TopSeen'
  <2>1. CASE t < A + b
    <3>1. t < B + b
      BY <1>0, <2>1
    <3>2. QED
      BY <1>1, <1>2, <3>1 DEF TopSeen
  <2>2. CASE \E i \in 1..Len(rxq) : t <= rxq[i]
    <3>1. PICK i \in 1..(z + 1) : t <= rxq[i]
      BY <1>4, <2>2
    <3>2. CASE i = 1
      <4>1. t <= f
        BY <1>2, <3>1, <3>2
      <4>2. t < B + b
        BY <1>0, <4>1
      <4>3. QED
        BY <1>1, <1>2, <4>2 DEF TopSeen
    <3>3. CASE i # 1
      <4>1. PICK k \in 1..z : i = k + 1
        BY <3>3
      <4>2. k \in 1..Len(rxq') /\ top' <= rxq'[k]
        BY <1>1, <1>4, <3>1, <4>1
      <4>3. QED
        BY <4>2 DEF TopSeen
    <3>4. QED
      BY <3>2, <3>3
  <2>3. QED
    BY <1>1, <2>1, <2>2 DEF BaInv, TopSeen
<1>10. NotBehind'
  <2>1. ASSUME NEW k \in 1..z
        PROVE  /\ A - b <= rxq[k + 1] /\ f - b < rxq[k + 1]
               /\ \A x \in Held(tid_rx) : x - b < rxq[k + 1]
    <3>1. k + 1 \in 1..Len(rxq) /\ 1 < k + 1
      BY <1>4
    <3>2. QED
      BY <1>1, <1>2, <3>1 DEF BaInv, NotBehind
  <2>2. ASSUME NEW k \in 1..z PROVE B - b <= rxq[k + 1]
    <3>1. PICK y \in Nat : y = rxq[k + 1] /\ A - b <= y /\ f - b < y
      BY <1>4, <2>1
    <3>2. CASE B = A
      BY <3>1, <3>2
    <3>3. CASE B = f - b + 1
      BY <3>1, <3>3
    <3>4. CASE B - 1 \in Held(tid_rx) \cup {f}
      <4>1. (B - 1) - b < y
        BY <2>1, <3>1, <3>4
      <4>2. QED
        BY <3>1, <4>1
    <3>5. QED
      BY <1>2, <3>2, <3>3, <3>4
  <2>3. ASSUME NEW k \in 1..z, NEW x \in Held(tid_rx') PROVE x - b < rxq[k + 1]
    BY <1>2, <2>1
  <2>4. ASSUME NEW i \in 1..z, NEW j \in 1..z, i < j PROVE rxq[i + 1] - b < rxq[j + 1]
    <3>1. i + 1 \in 1..Len(rxq) /\ j + 1 \in 1..Len(rxq) /\ i + 1 < j + 1
      BY <1>4, <2>4
    <3>2. QED
      BY <1>1, <3>1 DEF BaInv, NotBehind
  <2>5. QED
    BY <1>1, <1>2, <1>4, <2>2, <2>3, <2>4 DEF NotBehind
<1>11. NotAhead'
  <2>1. ASSUME NEW j \in 1..z
        PROVE  \/ rxq'[j] < B + H
               \/ \E i \in 1..(j - 1) : rxq'[j] <= rxq'[i] + H - b
    <3>1. PICK y \in Nat : y = rxq[j + 1] /\ rxq'[j] = y /\ j + 1 \in 1..Len(rxq)
      BY <1>4
    <3>2. CASE y < A + H
      BY <1>2, <3>1, <3>2
    <3>3. CASE \E i \in 1..j : y <= rxq[i] + H - b
      <4>1. PICK i \in 1..j : y <= rxq[i] + H - b
        BY <3>3
      <4>2. CASE i = 1
        <5>1. y <= f + H - b
          BY <1>2, <4>1, <4>2
        <5>2. y < B + H
          BY <1>0, <5>1
        <5>3. QED
          BY <3>1, <5>2
      <4>3. CASE i # 1
        <5>1. PICK k \in 1..(j - 1) : i = k + 1
          BY <4>3
        <5>2. k \in 1..z /\ rxq'[k] = rxq[i]
          BY <1>4, <5>1
        <5>3. QED
          BY <3>1, <4>1, <5>1, <5>2
      <4>4. QED
        BY <4>2, <4>3
    <3>4. QED
      <4>1. \/ y < A + H
            \/ \E i \in 1..((j + 1) - 1) : y <= rxq[i] + H - b
        BY <1>1, <1>3, <3>1 DEF BaInv, NotAhead
      <4>2. (j + 1) - 1 = j
        OBVIOUS
      <4>3. QED
        BY <3>2, <3>3, <4>1, <4>2
  <2>2. QED
    BY <1>2, <1>3, <1>4, <2>1 DEF NotAhead
<1>12. QED
  BY <1>2, <1>7, <1>8, <1>9, <1>10, <1>11 DEF BaInv

\* A session begins with an empty buffer at the first frame.
LEMMA BaInit ==
  ASSUME Windows, SessionInit
  PROVE  BaInv
<1>1. PICK n \in Ssns, size \in WSizes :
        /\ tid_rx = wil_tid_ampdu_rx_alloc(size, wil_rxdesc_seq(n))
        /\ winStart = n /\ top = n - 1 /\ absHead = n /\ rxq = <<>>
  BY DEF SessionInit
<1>2. n \in Nat /\ wil_rxdesc_seq(n) \in SeqNums /\ wil_rxdesc_seq(n) = n % SeqModulo
  <2>1. n \in Nat
    BY SsnsAssumption, SeqModuloAssumption
  <2>2. QED
    BY <2>1, SeqModuloAssumption, ModRange DEF wil_rxdesc_seq, SeqNums
<1>3. Sound(tid_rx) /\ HeadEmpty(tid_rx)
  BY <1>1, <1>2, AllocSound
<1>4. /\ tid_rx.buf_size = size /\ tid_rx.head_seq_num = n % SeqModulo
      /\ \A i \in 0..(size - 1) : tid_rx.reorder_buf[i] = NULL
  BY <1>1, <1>2 DEF wil_tid_ampdu_rx_alloc
<1>5. Held(tid_rx) = {}
  BY <1>4 DEF Held, Stored, Slots
<1>6. PICK b \in Nat, H \in Nat : b = size /\ H = Half /\ b >= 2 /\ 2 * b <= H
  BY <1>3, <1>4, Sizes
<1>7. tid_rx # NULL
  BY <1>3, NullAssumption DEF Sound
<1>8. n <= (n - 1) + H - 2 * b + 1 /\ n - 1 <= n + b - 1 /\ n <= (n - 1) + 1 /\ n - 1 < n + b
  BY <1>2, <1>6
<1>9. rxq \in Seq(Frames) /\ Len(rxq) = 0 /\ 1..Len(rxq) = {}
  BY <1>1
<1>10. HeadKnown
  BY <1>1, <1>2, <1>3, <1>4, <1>5, <1>7 DEF HeadKnown
<1>11. PeerType
  BY <1>1, <1>2, <1>4, <1>6, <1>8, <1>9 DEF PeerType
<1>12. NotPast /\ TopSeen /\ NotBehind /\ NotAhead
  BY <1>1, <1>4, <1>5, <1>6, <1>8, <1>9 DEF NotPast, TopSeen, NotBehind, NotAhead
<1>13. QED
  BY <1>10, <1>11, <1>12 DEF BaInv

-----------------------------------------------------------------------------
(* The buffer implements in-order delivery. *)

\* The session as a state machine without the fairness, which safety needs not.
LEMMA BaInvStep ==
  ASSUME Windows, BaInv, [SessionNext]_baVars
  PROVE  BaInv' /\ [Abstract!Next]_(Abstract!vars)
<1>1. CASE \E f \in Frames : Arrival(f)
  <2>1. tid_rx' = tid_rx /\ out' = out /\ absHead' = absHead
    BY <1>1 DEF Arrival
  <2>2. UNCHANGED Abstract!vars
    BY <2>1 DEF Abstract!vars, Held, Stored, Slots
  <2>3. QED
    BY <1>1, <2>2, ArrivalInv
<1>2. CASE PeerAdvance
  <2>1. tid_rx' = tid_rx /\ out' = out /\ absHead' = absHead
    BY <1>2 DEF PeerAdvance
  <2>2. UNCHANGED Abstract!vars
    BY <2>1 DEF Abstract!vars, Held, Stored, Slots
  <2>3. QED
    BY <1>2, <2>2, AdvanceInv
<1>3. CASE RxPoll
  <2>1. Polled(Head(rxq)) /\ \E f \in Frames : Abstract!Arrive(f) \/ Abstract!Discard(f)
    BY <1>3, PollStep
  <2>2. BaInv'
    BY <1>3, <2>1, QueueStep DEF RxPoll
  <2>3. QED
    BY <2>1, <2>2 DEF Abstract!Next
<1>4. CASE UNCHANGED baVars
  <2>1. /\ tid_rx' = tid_rx /\ out' = out /\ absHead' = absHead
        /\ rxq' = rxq /\ winStart' = winStart /\ top' = top
    BY <1>4 DEF baVars
  <2>2. UNCHANGED Abstract!vars
    BY <2>1 DEF Abstract!vars, Held, Stored, Slots
  <2>3. BaInv'
    BY <2>1 DEF BaInv, HeadKnown, PeerType, NotPast, TopSeen, NotBehind, NotAhead,
                Held, Stored, Slots, Sound, HeadEmpty, InRange, SlotAt, reorder_index, Ahead
  <2>4. QED
    BY <2>2, <2>3
<1>5. QED
  BY <1>1, <1>2, <1>3, <1>4 DEF SessionNext

\* Whatever arrives twice, is given up on or comes in another order, the poll
\* sends up what in-order delivery over unbounded numbers would: wil_rx_reorder
\* (rx_reorder.c:71) with slots and numbers that wrap loses, repeats and reorders
\* nothing that the abstract window does not.
THEOREM ImplementsInOrderDelivery ==
  ASSUME Windows
  PROVE  SessionSpec => DeliversInOrder
<1>1. SessionInit => Abstract!Init
  <2>1. SUFFICES ASSUME SessionInit PROVE Abstract!Init
    OBVIOUS
  <2>2. BaInv /\ Held(tid_rx) = {} /\ out = <<>>
    <3>1. PICK n \in Ssns, size \in WSizes :
            tid_rx = wil_tid_ampdu_rx_alloc(size, wil_rxdesc_seq(n))
      BY <2>1 DEF SessionInit
    <3>2. \A i \in 0..(tid_rx.buf_size - 1) : tid_rx.reorder_buf[i] = NULL
      BY <3>1 DEF wil_tid_ampdu_rx_alloc
    <3>3. Held(tid_rx) = {}
      BY <3>2 DEF Held, Stored, Slots
    <3>4. QED
      BY <2>1, <3>3, BaInit DEF SessionInit
  <2>3. absHead \in Nat /\ tid_rx.buf_size \in Nat
    BY <2>2, Fields DEF BaInv, HeadKnown, Sound
  <2>4. QED
    BY <2>2, <2>3 DEF Abstract!Init
<1>2. SessionInit => BaInv
  BY BaInit
<1>3. BaInv /\ [SessionNext]_baVars => BaInv' /\ [Abstract!Next]_(Abstract!vars)
  BY BaInvStep
<1>4. QED
  BY <1>1, <1>2, <1>3, PTL DEF SessionSpec, DeliversInOrder, Abstract!Spec
=============================================================================
