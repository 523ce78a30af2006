--------------------------- MODULE TxVring_proofs ---------------------------
(***************************************************************************)
(* Proofs about TxVring, for rings of any size, any thresholds and frames  *)
(* of any number of fragments, with mapping errors: what the device reads  *)
(* is left alone, a buffer is mapped exactly while it is in the window, an *)
(* skb is freed once.  GSO frames are left out of this: with them the ring *)
(* does not keep these properties.  How they are cut (Tso), for fragments  *)
(* of any sizes, comes last, and that they then are what TxVring has.      *)
(*                                                                         *)
(* Indices wrap, so that everything is said with the distance of a slot    *)
(* from the tail.                                                          *)
(***************************************************************************)
EXTENDS TxVring, Tso, TLAPS, FiniteSetTheorems, SequenceTheorems, WellFoundedInduction

NoGso == \A f \in SkbShapes : ~f.tso

NoCopies == \A f \in SkbShapes : ~f.copy

Pos(s) == Distance(swtail, s)

\* The slots of frame i that are in the window.
SlotsOf(i) == {s \in Slot : Pos(s) < Pos(swhead) /\ ctx[s].frame = i}

\* The device is between tail and head.
DeviceInside == Pos(hwpos) <= Pos(swhead)

\* Buffers are mapped between tail and head.
Mapped == \A s \in Slot : va[s].map # "none" <=> Pos(s) < Pos(swhead)

\* A slot in the window has a frame, whose last slot is not nearer to the tail and
\* in the window too.
Held ==
  \A s \in Slot : Pos(s) < Pos(swhead) =>
    /\ ctx[s] \in [frame : Slot, sngl : Slot]
    /\ Pos(s) <= Pos(ctx[s].frame) /\ Pos(ctx[s].frame) < Pos(swhead)

\* What the device has not done does not look done.
NotDone ==
  \A s \in Slot : Pos(hwpos) <= Pos(s) /\ Pos(s) < Pos(swhead) => ~va[s].du

\* wil_start_xmit does not overestimate the room, and has looked at it.
Room ==
  xmit # NULL =>
    /\ xmit.avail <= Size - Pos(swhead) - 1
    /\ xmit.pc = "fill" => Need(xmit.skb) <= xmit.avail

\* wil_tx_complete does not go past the device.
ScanBehind == comp # NULL /\ comp.pc = "release" => comp.n <= Pos(hwpos)

\* References are never fewer than slots, and no more than slots if nothing is
\* copied.
Balanced ==
  \A i \in Slot :
    /\ Cardinality(SlotsOf(i)) <= refs[i]
    /\ NoCopies => refs[i] = Cardinality(SlotsOf(i))

\* Frames end with a descriptor that is marked, and such a descriptor is done when
\* the device has passed it.
Ends ==
  \A s \in Slot :
    /\ ~va[s].hdr
    /\ Pos(s) + 1 = Pos(swhead) => va[s].eop
    /\ Pos(s) < Pos(hwpos) /\ va[s].eop => va[s].du

IInv ==
  /\ TypeOK /\ DeviceInside /\ Mapped /\ Held /\ NotDone /\ Room /\ ScanBehind /\ Balanced
  /\ Ends

-----------------------------------------------------------------------------
(* Distances. *)

\* A remainder by the ring size, for numbers below twice that size.
LEMMA Wrap ==
  ASSUME NEW a \in Nat, a < 2 * Size
  PROVE  a % Size = IF a < Size THEN a ELSE a - Size
BY SizeAssumption

\* The code's expression for a distance.
LEMMA DistanceIs ==
  ASSUME NEW i \in Slot, NEW s \in Slot
  PROVE  Distance(i, s) = IF i <= s THEN s - i ELSE Size + s - i
<1>1. Size + s - i \in Nat /\ Size + s - i < 2 * Size
  BY SizeAssumption DEF Slot
<1>2. QED
  BY <1>1, Wrap, SizeAssumption DEF Slot, Distance

\* Slots at the same distance are the same.
LEMMA DistanceOne ==
  ASSUME NEW h \in Slot, NEW s \in Slot, NEW t \in Slot
  PROVE  /\ Distance(h, s) \in 0..(Size - 1)
         /\ Distance(h, s) = Distance(h, t) => s = t
         /\ Distance(h, h) = 0
<1>1. /\ Distance(h, s) = IF h <= s THEN s - h ELSE Size + s - h
      /\ Distance(h, t) = IF h <= t THEN t - h ELSE Size + t - h
      /\ Distance(h, h) = IF h <= h THEN h - h ELSE Size + h - h
  BY DistanceIs
<1>2. QED
  BY <1>1, SizeAssumption DEF Slot

\* The distance of s as seen from h, by the distances from t.
LEMMA SeenFrom ==
  ASSUME NEW t \in Slot, NEW h \in Slot, NEW s \in Slot
  PROVE  Distance(h, s) = IF Distance(t, h) <= Distance(t, s)
                          THEN Distance(t, s) - Distance(t, h)
                          ELSE Size + Distance(t, s) - Distance(t, h)
BY DistanceIs, SizeAssumption DEF Slot

\* The slot k after h.
LEMMA Forward ==
  ASSUME NEW h \in Slot, NEW k \in 0..(Size - 1)
  PROVE  (h + k) % Size \in Slot /\ Distance(h, (h + k) % Size) = k
<1>1. h + k \in Nat /\ h + k < 2 * Size
  BY SizeAssumption DEF Slot
<1>2. (h + k) % Size = IF h + k < Size THEN h + k ELSE h + k - Size
  <2>1. PICK a \in Nat : a = h + k
    BY <1>1
  <2>2. a % Size = IF a < Size THEN a ELSE a - Size
    BY <1>1, <2>1, Wrap
  <2>3. QED
    BY <2>1, <2>2, SizeAssumption DEF Slot
<1>3. (h + k) % Size \in Slot
  BY <1>2, SizeAssumption DEF Slot
<1> DEFINE s == (h + k) % Size
<1>4. Distance(h, s) = IF h <= s THEN s - h ELSE Size + s - h
  BY <1>3, DistanceIs
<1>5. s \in Nat /\ s = IF h + k < Size THEN h + k ELSE h + k - Size
  BY <1>2, <1>3, SizeAssumption DEF Slot
<1> HIDE DEF s
<1>6. Distance(h, s) = k
  BY <1>4, <1>5, SizeAssumption DEF Slot
<1>7. QED
  BY <1>3, <1>6 DEF s

\* The slot k after h, as seen from t, if that does not pass t.
LEMMA ForwardSeen ==
  ASSUME NEW t \in Slot, NEW h \in Slot, NEW k \in 0..(Size - 1), Distance(t, h) + k < Size
  PROVE  (h + k) % Size \in Slot /\ Distance(t, (h + k) % Size) = Distance(t, h) + k
<1>1. (h + k) % Size \in Slot /\ Distance(h, (h + k) % Size) = k
  BY Forward
<1>2. Distance(t, h) \in 0..(Size - 1) /\ Distance(t, (h + k) % Size) \in 0..(Size - 1)
  BY <1>1, DistanceOne
<1>3. QED
  BY <1>1, <1>2, SeenFrom, SizeAssumption

\* The slots at distances from a up to b are as many.
LEMMA SlotRun ==
  ASSUME NEW t \in Slot, NEW a \in Nat, NEW n \in Nat, a + n <= Size
  PROVE  LET R == {s \in Slot : a <= Distance(t, s) /\ Distance(t, s) < a + n}
         IN  IsFiniteSet(R) /\ Cardinality(R) = n
<1> DEFINE R == {s \in Slot : a <= Distance(t, s) /\ Distance(t, s) < a + n}
           K == a..(a + n - 1)
           g == [k \in K |-> (t + k) % Size]
<1>1. ASSUME NEW k \in K PROVE g[k] \in R /\ Distance(t, g[k]) = k
  <2>1. k \in 0..(Size - 1) /\ a <= k /\ k < a + n
    BY SizeAssumption
  <2>2. QED
    BY <2>1, Forward
<1>2. ASSUME NEW s \in R PROVE \E k \in K : g[k] = s
  <2>1. s \in Slot /\ Distance(t, s) \in K
    BY DistanceOne, SizeAssumption
  <2>2. Distance(t, g[Distance(t, s)]) = Distance(t, s) /\ g[Distance(t, s)] \in Slot
    BY <1>1, <2>1
  <2>3. QED
    BY <2>1, <2>2, DistanceOne
<1>3. g \in Bijection(K, R)
  <2>1. g \in [K -> R]
    BY <1>1
  <2>2. \A j, k \in K : g[j] = g[k] => j = k
    BY <1>1
  <2>3. QED
    BY <1>2, <2>1, <2>2 DEF Bijection, Injection, Surjection, IsInjective
<1>4. IsFiniteSet(K) /\ Cardinality(K) = n
  BY FS_Interval
<1>5. QED
  BY <1>3, <1>4, FS_Bijection DEF ExistsBijection

-----------------------------------------------------------------------------
(* The ring. *)

\* The indices, and what they say of the room.
LEMMA Indices ==
  ASSUME TypeOK
  PROVE  /\ swhead \in Slot /\ swtail \in Slot /\ hwpos \in Slot
         /\ Used = Pos(swhead) /\ Pos(swhead) \in 0..(Size - 1)
         /\ wil_vring_avail_tx = Size - Pos(swhead) - 1 /\ wil_vring_avail_tx \in Slot
<1>1. swhead \in Slot /\ swtail \in Slot /\ hwpos \in Slot
  BY DEF TypeOK
<1>2. Used = Pos(swhead)
  BY DEF Used, Pos, Distance
<1>3. Pos(swhead) \in 0..(Size - 1)
  BY <1>1, DistanceOne DEF Pos
<1>4. QED
  BY <1>1, <1>2, <1>3, SizeAssumption DEF wil_vring_avail_tx, Slot

\* The window is what is nearer to the tail than the head.
LEMMA InWindow ==
  ASSUME TypeOK, NEW s
  PROVE  s \in Window <=> s \in Slot /\ Pos(s) < Pos(swhead)
<1>1. /\ swtail \in Slot /\ Used = Pos(swhead) /\ Pos(swhead) \in 0..(Size - 1)
  BY Indices
<1>2. ASSUME NEW k \in 0..(Used - 1), s = FromTail(k) PROVE s \in Slot /\ Pos(s) < Pos(swhead)
  <2>1. k \in 0..(Size - 1) /\ k < Pos(swhead)
    BY <1>1, SizeAssumption
  <2>2. s \in Slot /\ Pos(s) = k
    BY <1>1, <1>2, <2>1, Forward DEF FromTail, Pos
  <2>3. QED
    BY <2>1, <2>2
<1>3. ASSUME s \in Slot, Pos(s) < Pos(swhead) PROVE \E k \in 0..(Used - 1) : s = FromTail(k)
  <2>1. Pos(s) \in 0..(Used - 1) /\ Pos(s) \in 0..(Size - 1)
    BY <1>1, <1>3, DistanceOne, SizeAssumption DEF Pos
  <2>2. FromTail(Pos(s)) \in Slot /\ Pos(FromTail(Pos(s))) = Pos(s)
    BY <1>1, <2>1, Forward DEF FromTail, Pos
  <2>3. s = FromTail(Pos(s))
    BY <1>1, <1>3, <2>2, DistanceOne DEF Pos
  <2>4. QED
    BY <2>1, <2>3
<1>4. QED
  BY <1>2, <1>3 DEF Window

\* Positions.
LEMMA PosType ==
  ASSUME TypeOK, NEW s \in Slot
  PROVE  Pos(s) \in 0..(Size - 1)
BY Indices, DistanceOne DEF Pos

\* The slots of a frame are finitely many.
LEMMA SlotsFinite ==
  ASSUME NEW i
  PROVE  IsFiniteSet(SlotsOf(i))
<1>1. IsFiniteSet(Slot) /\ SlotsOf(i) \in SUBSET Slot
  BY FS_Interval, SizeAssumption DEF Slot, SlotsOf
<1>2. QED
  BY <1>1, FS_Subset

\* What a step that leaves ring and device alone keeps.
LEMMA RingKept ==
  ASSUME IInv, UNCHANGED <<ring, hwpos>>
  PROVE  DeviceInside' /\ Mapped' /\ Held' /\ NotDone' /\ Balanced' /\ Ends'
<1>1. UNCHANGED <<swhead, swtail, va, ctx, refs, hwpos>>
  BY DEF ring
<1>2. Pos(hwpos)' = Pos(hwpos) /\ Pos(swhead)' = Pos(swhead) /\ \A s : Pos(s)' = Pos(s)
  BY <1>1 DEF Pos, Distance
<1>3. DeviceInside' /\ Mapped' /\ Held' /\ NotDone' /\ Ends'
  BY <1>1, <1>2 DEF IInv, DeviceInside, Mapped, Held, NotDone, Ends, Pos, Distance
<1>4. \A i : SlotsOf(i)' = SlotsOf(i)
  BY <1>1 DEF SlotsOf, Pos, Distance
<1>5. Balanced'
  BY <1>1, <1>4 DEF IInv, Balanced
<1>6. QED
  BY <1>3, <1>5

\* At the start the ring is empty.
LEMMA InitInv == Init => IInv
<1> SUFFICES ASSUME Init PROVE IInv
  OBVIOUS
<1>1. 0 \in Slot /\ swtail = 0 /\ swhead = 0 /\ hwpos = 0
  BY SizeAssumption DEF Slot, Init
<1>2. Pos(0) = 0 /\ \A s \in Slot : Pos(s) >= 0
  BY <1>1, DistanceOne DEF Pos
<1>3. TypeOK
  <2>1. Idle(TRUE) \in Desc
    BY DEF Idle, Desc
  <2>2. QED
    BY <1>1, <2>1 DEF Init, TypeOK
<1>4. DeviceInside /\ Held /\ NotDone
  <2>1. \A s \in Slot : ~(Pos(s) < Pos(swhead))
    BY <1>1, <1>2, <1>3, PosType
  <2>2. QED
    BY <1>1, <1>2, <2>1 DEF DeviceInside, Held, NotDone
<1>5. \A s \in Slot : ~(Pos(s) < Pos(swhead))
  BY <1>1, <1>2, <1>3, PosType
<1>6. Mapped
  BY <1>5 DEF Init, Mapped, Idle
<1>7. Room /\ ScanBehind
  BY DEF Init, Room, ScanBehind
<1>8. Balanced
  <2>1. \A i \in Slot : SlotsOf(i) = {}
    BY <1>5 DEF SlotsOf
  <2>2. \A i \in Slot : refs[i] = 0 /\ Cardinality(SlotsOf(i)) = 0
    BY <2>1, FS_EmptySet DEF Init
  <2>3. QED
    BY <2>2 DEF Balanced
<1>9. Ends
  <2>1. \A s \in Slot : Pos(s) \in Nat
    BY <1>3, PosType, SizeAssumption
  <2>2. \A s \in Slot : ~(Pos(s) + 1 = Pos(swhead)) /\ ~(Pos(s) < Pos(hwpos))
    BY <1>1, <1>2, <2>1
  <2>3. QED
    BY <2>2 DEF Init, Ends, Idle
<1>10. QED
  BY <1>3, <1>4, <1>6, <1>7, <1>8, <1>9 DEF IInv

-----------------------------------------------------------------------------
(* wil_start_xmit. *)

\* The stack gives a frame and the room is looked at.
LEMMA BeginInv ==
  ASSUME IInv, NEW f \in SkbShapes, XmitBegin(f)
  PROVE  IInv'
<1>1. UNCHANGED <<ring, comp, stopped, irq, hwpos>> /\ requeued' = NULL
      /\ xmit' = [pc |-> "check", skb |-> f, avail |-> wil_vring_avail_tx]
  BY DEF XmitBegin
<1>2. wil_vring_avail_tx \in Slot /\ wil_vring_avail_tx = Size - Pos(swhead) - 1
  BY Indices DEF IInv
<1>3. Pos(swhead)' = Pos(swhead) /\ Pos(hwpos)' = Pos(hwpos)
  BY <1>1 DEF ring, Pos, Distance
<1>4. TypeOK'
  BY <1>1, <1>2 DEF IInv, TypeOK, ring
<1>5. Room'
  <2>1. wil_vring_avail_tx <= Size - Pos(swhead)' - 1
    BY <1>2, <1>3, SizeAssumption DEF Slot
  <2>2. QED
    BY <1>1, <2>1 DEF Room, Pos
<1>6. ScanBehind'
  BY <1>1, <1>3 DEF IInv, ScanBehind, Pos
<1>7. QED
  BY <1>1, <1>4, <1>5, <1>6, RingKept DEF IInv

\* The tests of avail.
LEMMA CheckInv ==
  ASSUME IInv, XmitCheck
  PROVE  IInv'
<1>1. UNCHANGED <<ring, comp, irq, hwpos>> /\ xmit # NULL /\ xmit.pc = "check"
  BY DEF XmitCheck
<1>2. Pos(swhead)' = Pos(swhead) /\ Pos(hwpos)' = Pos(hwpos)
  BY <1>1 DEF ring, Pos, Distance
<1>3. xmit \in [pc : {"check", "fill"}, skb : SkbShapes, avail : Slot]
  BY <1>1 DEF IInv, TypeOK
<1>4. /\ \/ xmit' = NULL /\ requeued' \in {NULL, xmit.skb}
         \/ /\ ~(xmit.avail < Need(xmit.skb))
            /\ xmit' = [xmit EXCEPT !.pc = "fill"] /\ requeued' = requeued
      /\ stopped' \in BOOLEAN
  BY DEF XmitCheck, IInv, TypeOK
<1>5. TypeOK'
  <2>1. xmit' \in {NULL} \cup [pc : {"check", "fill"}, skb : SkbShapes, avail : Slot]
    BY <1>3, <1>4
  <2>2. requeued' \in {NULL} \cup SkbShapes
    BY <1>3, <1>4 DEF IInv, TypeOK
  <2>3. QED
    BY <1>1, <1>4, <2>1, <2>2 DEF IInv, TypeOK, ring
<1>6. Room'
  <2>1. SUFFICES ASSUME xmit' # NULL PROVE Room'
    BY DEF Room
  <2>2. xmit.avail <= Size - Pos(swhead) - 1
    BY <1>1 DEF IInv, Room
  <2>3. xmit'.avail = xmit.avail /\ xmit'.skb = xmit.skb /\ ~(xmit.avail < Need(xmit.skb))
    BY <1>3, <1>4, <2>1
  <2>4. Need(xmit.skb) \in Nat /\ xmit.avail \in Nat
    BY <1>3, ShapeAssumption, SizeAssumption DEF Need, Slot
  <2>5. Need(xmit'.skb) <= xmit'.avail
    BY <2>3, <2>4
  <2>6. xmit'.avail <= Size - Pos(swhead)' - 1
    BY <1>2, <2>2, <2>3
  <2>7. QED
    BY <2>5, <2>6 DEF Room, Pos, Need
<1>7. ScanBehind'
  BY <1>1, <1>2 DEF IInv, ScanBehind, Pos
<1>8. QED
  BY <1>1, <1>5, <1>6, <1>7, RingKept DEF IInv

\* A frame that is not a GSO frame takes what was asked for, and there is room.
LEMMA PlainFrame ==
  ASSUME NoGso, IInv, xmit # NULL, xmit.pc = "fill"
  PROVE  LET f == xmit.skb
         IN  /\ f \in SkbShapes /\ ~f.tso /\ f.frags \in Nat
             /\ Descs(f) = f.frags + 1 /\ Linear(f) = 1
             /\ EopSets(f) = {{f.frags}}
             /\ Pos(swhead) + Descs(f) <= Size - 1
             /\ Fits
<1> DEFINE f == xmit.skb
<1>1. xmit \in [pc : {"check", "fill"}, skb : SkbShapes, avail : Slot]
  BY DEF IInv, TypeOK
<1>2. f \in SkbShapes /\ ~f.tso /\ f.frags \in Nat /\ xmit.avail \in Nat
  BY <1>1, ShapeAssumption, SizeAssumption DEF NoGso, Slot
<1>3. Need(f) = f.frags + 1 /\ Descs(f) = f.frags + 1 /\ Linear(f) = 1
  BY <1>2 DEF Need, Descs, Linear
<1>4. EopSets(f) = {{f.frags}}
  BY <1>2, <1>3 DEF EopSets
<1>5. f.frags + 1 <= xmit.avail /\ xmit.avail <= Size - Pos(swhead) - 1
  BY <1>3 DEF IInv, Room
<1>6. Pos(swhead) \in Nat
  BY Indices, SizeAssumption DEF IInv
<1>7. Pos(swhead) + Descs(f) <= Size - 1
  BY <1>2, <1>3, <1>5, <1>6, SizeAssumption
<1>8. QED
  BY <1>2, <1>3, <1>4, <1>7 DEF Fits

\* The slots that n descriptors of a frame are written to.
LEMMA WrittenSlots ==
  ASSUME TypeOK, NEW n \in Nat, Pos(swhead) + n <= Size - 1, NEW s \in Slot
  PROVE  /\ (Size + s - swhead) % Size \in 0..(Size - 1)
         /\ (Size + s - swhead) % Size < n <=> Pos(swhead) <= Pos(s) /\ Pos(s) < Pos(swhead) + n
         /\ n > 0 => (s \in {FromHead(k) : k \in 0..(n - 1)} <=> (Size + s - swhead) % Size < n)
         /\ Pos(swhead) <= Pos(s) => (Size + s - swhead) % Size = Pos(s) - Pos(swhead)
<1>1. swhead \in Slot /\ swtail \in Slot
  BY Indices
<1> DEFINE d == Distance(swhead, s)
<1>2. d = (Size + s - swhead) % Size
  BY DEF Distance
<1>3. d \in 0..(Size - 1)
  BY <1>1, DistanceOne
<1>4. d = IF Pos(swhead) <= Pos(s) THEN Pos(s) - Pos(swhead) ELSE Size + Pos(s) - Pos(swhead)
  BY <1>1, SeenFrom DEF Pos
<1>5. Pos(s) \in 0..(Size - 1) /\ Pos(swhead) \in 0..(Size - 1)
  BY <1>1, PosType
<1> HIDE DEF d
<1>6. d < n <=> Pos(swhead) <= Pos(s) /\ Pos(s) < Pos(swhead) + n
  BY <1>3, <1>4, <1>5, SizeAssumption
<1>7. ASSUME d < n PROVE \E k \in 0..(n - 1) : s = FromHead(k)
  <2>1. d \in 0..(n - 1) /\ d \in 0..(Size - 1)
    BY <1>3, <1>7
  <2>2. FromHead(d) \in Slot /\ Distance(swhead, FromHead(d)) = d
    BY <1>1, <2>1, Forward DEF FromHead
  <2>3. FromHead(d) = s
    BY <1>1, <2>2, DistanceOne DEF d
  <2>4. QED
    BY <2>1, <2>3
<1>8. ASSUME NEW k \in 0..(n - 1), s = FromHead(k) PROVE d < n
  <2>1. k \in 0..(Size - 1) /\ k < n
    BY <1>5, SizeAssumption
  <2>2. Distance(swhead, FromHead(k)) = k
    BY <1>1, <2>1, Forward DEF FromHead
  <2>3. QED
    BY <1>8, <2>1, <2>2 DEF d
<1>9. QED
  BY <1>2, <1>3, <1>4, <1>6, <1>7, <1>8

\* What the written slots hold.
LEMMA Written ==
  ASSUME NoGso, IInv, xmit # NULL, xmit.pc = "fill",
         NEW n \in 0..Descs(xmit.skb), NEW E
  PROVE  LET f == xmit.skb
         IN  /\ Filled(f, n, E) \in [Slot -> Desc] /\ FromHead(f.frags) \in Slot
             /\ Holding(f, n) \in [Slot -> [frame : Slot, sngl : Slot] \cup {NULL}]
             /\ \A s \in Slot :
                  IF Pos(swhead) <= Pos(s) /\ Pos(s) < Pos(swhead) + n
                  THEN /\ ~Filled(f, n, E)[s].du /\ Filled(f, n, E)[s].map # "none"
                       /\ ~Filled(f, n, E)[s].hdr
                       /\ Filled(f, n, E)[s].eop <=> (Pos(s) - Pos(swhead)) \in E
                       /\ Holding(f, n)[s] \in [frame : Slot, sngl : Slot]
                       /\ Holding(f, n)[s].frame = FromHead(f.frags)
                  ELSE Filled(f, n, E)[s] = va[s] /\ Holding(f, n)[s] = ctx[s]
<1> DEFINE f == xmit.skb
           D(s) == (Size + s - swhead) % Size
           R == [frame |-> FromHead(f.frags), sngl |-> FromHead(0)]
<1>1. /\ ~f.tso /\ f.frags \in Nat /\ Descs(f) = f.frags + 1 /\ Linear(f) = 1
      /\ Pos(swhead) + Descs(f) <= Size - 1
  BY PlainFrame
<1>2. swhead \in Slot /\ Pos(swhead) \in 0..(Size - 1) /\ TypeOK
  BY Indices DEF IInv
<1>3. n \in Nat /\ Pos(swhead) + n <= Size - 1 /\ f.frags \in 0..(Size - 1) /\ 0 \in 0..(Size - 1)
  BY <1>1, <1>2, SizeAssumption
<1>4. FromHead(f.frags) \in Slot /\ FromHead(0) \in Slot
  BY <1>2, <1>3, Forward DEF FromHead
<1>5. Descs(f) - 1 = f.frags /\ Linear(f) - 1 = 0
  BY <1>1
<1>6. Holding(f, n) = [s \in Slot |-> IF D(s) < n THEN R ELSE ctx[s]]
  BY <1>5 DEF Holding
<1>7. \A s \in Slot :
        /\ D(s) < n <=> Pos(swhead) <= Pos(s) /\ Pos(s) < Pos(swhead) + n
        /\ Pos(swhead) <= Pos(s) => D(s) = Pos(s) - Pos(swhead)
  BY <1>2, <1>3, WrittenSlots
<1>8. R \in [frame : Slot, sngl : Slot] /\ R.frame = FromHead(f.frags)
  BY <1>4
<1>9. Filled(f, n, E) = [s \in Slot |-> IF D(s) < n THEN wil_tx_desc_map(f, D(s), E) ELSE va[s]]
  BY DEF Filled
<1>10. ASSUME NEW k
       PROVE  LET d == wil_tx_desc_map(f, k, E)
              IN  d \in Desc /\ ~d.du /\ d.map # "none" /\ ~d.hdr /\ d.eop = (k \in E)
  <2>1. wil_tx_desc_map(f, k, E) = [du |-> FALSE, eop |-> k \in E, hdr |-> FALSE,
                                    map |-> IF k < Linear(f) THEN "single" ELSE "page"]
    BY <1>1 DEF wil_tx_desc_map
  <2>2. QED
    BY <2>1 DEF Desc
<1> HIDE DEF f, D, R
<1>11. Filled(f, n, E) \in [Slot -> Desc]
  BY <1>2, <1>9, <1>10 DEF TypeOK
<1>12. Holding(f, n) \in [Slot -> [frame : Slot, sngl : Slot] \cup {NULL}]
  BY <1>2, <1>6, <1>8 DEF TypeOK
<1>13. ASSUME NEW s \in Slot
       PROVE  IF Pos(swhead) <= Pos(s) /\ Pos(s) < Pos(swhead) + n
              THEN /\ ~Filled(f, n, E)[s].du /\ Filled(f, n, E)[s].map # "none"
                   /\ ~Filled(f, n, E)[s].hdr
                   /\ Filled(f, n, E)[s].eop <=> (Pos(s) - Pos(swhead)) \in E
                   /\ Holding(f, n)[s] \in [frame : Slot, sngl : Slot]
                   /\ Holding(f, n)[s].frame = FromHead(f.frags)
              ELSE Filled(f, n, E)[s] = va[s] /\ Holding(f, n)[s] = ctx[s]
  <2>1. CASE D(s) < n
    <3>1. /\ Pos(swhead) <= Pos(s) /\ Pos(s) < Pos(swhead) + n /\ D(s) = Pos(s) - Pos(swhead)
      BY <1>7, <2>1
    <3>2. Filled(f, n, E)[s] = wil_tx_desc_map(f, D(s), E) /\ Holding(f, n)[s] = R
      BY <1>6, <1>9, <2>1
    <3>3. QED
      BY <1>8, <1>10, <3>1, <3>2
  <2>2. CASE ~(D(s) < n)
    BY <1>6, <1>7, <1>9, <2>2
  <2>3. QED
    BY <2>1, <2>2
<1>14. QED
  BY <1>4, <1>11, <1>12, <1>13 DEF f

\* A frame is put in the ring.
LEMMA FillInv ==
  ASSUME NoGso, IInv, XmitFill
  PROVE  IInv'
<1> DEFINE f == xmit.skb
           n == Descs(f)
           F == Filled(f, n, {f.frags})
           H == Holding(f, n)
           New(s) == Pos(swhead) <= Pos(s) /\ Pos(s) < Pos(swhead) + n
<1>1. xmit # NULL /\ xmit.pc = "fill" /\ TypeOK
  BY DEF XmitFill, IInv
<1>2. /\ f \in SkbShapes /\ f.frags \in Nat /\ n = f.frags + 1 /\ EopSets(f) = {{f.frags}}
      /\ Pos(swhead) + n <= Size - 1
  BY <1>1, PlainFrame
<1>3. /\ va' = F /\ ctx' = H /\ swhead' = FromHead(n) /\ xmit' = NULL
      /\ refs' = [refs EXCEPT ![FromHead(n - 1)] = n + (IF f.copy THEN 1 ELSE 0)]
      /\ UNCHANGED <<swtail, requeued, comp, stopped, irq, hwpos>>
  BY <1>2 DEF XmitFill
<1>4. /\ swhead \in Slot /\ swtail \in Slot /\ hwpos \in Slot /\ Pos(swhead) \in 0..(Size - 1)
      /\ n \in 0..(Size - 1) /\ f.frags \in 0..(Size - 1) /\ n - 1 = f.frags /\ n \in 0..n
  BY <1>1, <1>2, Indices, SizeAssumption
<1>5. /\ swhead' \in Slot /\ Pos(swhead') = Pos(swhead) + n
      /\ FromHead(f.frags) \in Slot /\ Pos(FromHead(f.frags)) = Pos(swhead) + n - 1
  <2>1. swhead' \in Slot /\ Pos(swhead') = Pos(swhead) + n
    BY <1>2, <1>3, <1>4, ForwardSeen, SizeAssumption DEF FromHead, Pos
  <2>2. FromHead(f.frags) \in Slot /\ Pos(FromHead(f.frags)) = Pos(swhead) + f.frags
    BY <1>2, <1>4, ForwardSeen, SizeAssumption DEF FromHead, Pos
  <2>3. QED
    BY <1>2, <2>1, <2>2, SizeAssumption
<1>6. PICK name \in Slot : name = FromHead(f.frags) /\ Pos(name) = Pos(swhead) + n - 1
  BY <1>5
<1>7. Pos(swhead)' = Pos(swhead) + n /\ Pos(hwpos)' = Pos(hwpos)
  BY <1>3, <1>5 DEF Pos, Distance
<1>8. /\ F \in [Slot -> Desc] /\ H \in [Slot -> [frame : Slot, sngl : Slot] \cup {NULL}]
      /\ \A s \in Slot :
           IF New(s)
           THEN /\ ~F[s].du /\ F[s].map # "none" /\ ~F[s].hdr
                /\ F[s].eop <=> (Pos(s) - Pos(swhead)) \in {f.frags}
                /\ H[s] \in [frame : Slot, sngl : Slot] /\ H[s].frame = name
           ELSE F[s] = va[s] /\ H[s] = ctx[s]
  BY <1>1, <1>4, <1>6, Written
<1>9. \A s \in Slot : Pos(s) \in Nat
  BY <1>1, PosType, SizeAssumption
<1>10. refs' = [refs EXCEPT ![name] = n + (IF f.copy THEN 1 ELSE 0)]
  BY <1>3, <1>4, <1>6
<1>11. n \in Nat /\ n >= 1 /\ Pos(swhead) \in Nat
  BY <1>2, <1>4, SizeAssumption
<1> HIDE DEF F, H, n
<1>12. \A s \in Slot : Pos(s) < Pos(swhead) + n <=> Pos(s) < Pos(swhead) \/ New(s)
  BY <1>9, <1>11
<1>13. TypeOK'
  <2>1. refs' \in [Slot -> Nat]
    BY <1>5, <1>10, <1>11 DEF IInv, TypeOK
  <2>2. QED
    BY <1>3, <1>5, <1>8, <2>1 DEF IInv, TypeOK
<1>14. DeviceInside'
  <2>1. Pos(hwpos) <= Pos(swhead) /\ Pos(hwpos) \in Nat
    BY <1>4, <1>9 DEF IInv, DeviceInside
  <2>2. QED
    BY <1>7, <1>11, <2>1 DEF DeviceInside
<1>15. Mapped'
  <2>1. \A s \in Slot : F[s].map # "none" <=> Pos(s) < Pos(swhead) + n
    BY <1>8, <1>9, <1>11, <1>12 DEF IInv, Mapped
  <2>2. QED
    BY <1>3, <1>7, <2>1 DEF Mapped, Pos, Distance
<1>16. Held'
  <2>1. ASSUME NEW s \in Slot, Pos(s) < Pos(swhead) + n
        PROVE  /\ H[s] \in [frame : Slot, sngl : Slot]
               /\ Pos(s) <= Pos(H[s].frame) /\ Pos(H[s].frame) < Pos(swhead) + n
    <3>1. CASE New(s)
      BY <1>6, <1>8, <1>9, <1>11, <3>1
    <3>2. CASE ~New(s)
      <4>1. Pos(s) < Pos(swhead) /\ H[s] = ctx[s]
        BY <1>8, <1>12, <2>1, <3>2
      <4>2. /\ ctx[s] \in [frame : Slot, sngl : Slot]
            /\ Pos(s) <= Pos(ctx[s].frame) /\ Pos(ctx[s].frame) < Pos(swhead)
        BY <4>1 DEF IInv, Held
      <4>3. Pos(ctx[s].frame) \in Nat
        BY <1>9, <4>2
      <4>4. QED
        BY <1>11, <4>1, <4>2, <4>3
    <3>3. QED
      BY <3>1, <3>2
  <2>2. \A s : Pos(s)' = Distance(swtail, s') /\ Pos(s) = Distance(swtail, s)
    BY <1>3 DEF Pos, Distance
  <2>3. QED
    BY <1>3, <1>7, <2>1, <2>2 DEF Held, Pos
<1>17. NotDone'
  <2>1. ASSUME NEW s \in Slot, Pos(hwpos) <= Pos(s), Pos(s) < Pos(swhead) + n PROVE ~F[s].du
    BY <1>8, <1>12, <2>1 DEF IInv, NotDone
  <2>2. QED
    BY <1>3, <1>7, <2>1 DEF NotDone, Pos, Distance
<1>18. Room' /\ ScanBehind'
  BY <1>3, <1>7 DEF IInv, Room, ScanBehind, Pos
<1>19. Balanced'
  <2>1. \A i \in Slot : SlotsOf(i)' = {s \in Slot : Pos(s) < Pos(swhead) + n /\ H[s].frame = i}
    BY <1>3, <1>7 DEF SlotsOf, Pos, Distance
  <2>2. ASSUME NEW s \in Slot, Pos(s) < Pos(swhead) PROVE H[s] = ctx[s] /\ ctx[s].frame # name
    <3>1. ~New(s) /\ Pos(ctx[s].frame) < Pos(swhead) /\ ctx[s].frame \in Slot
      BY <1>9, <1>11, <2>2 DEF IInv, Held
    <3>2. Pos(name) >= Pos(swhead)
      BY <1>6, <1>11
    <3>3. ctx[s].frame # name
      BY <1>9, <1>11, <3>1, <3>2
    <3>4. QED
      BY <1>8, <3>1, <3>3
  <2>3. ASSUME NEW i \in Slot, i # name PROVE SlotsOf(i)' = SlotsOf(i) /\ refs'[i] = refs[i]
    <3>1. \A s \in Slot : Pos(s) < Pos(swhead) + n /\ H[s].frame = i <=> Pos(s) < Pos(swhead) /\ ctx[s].frame = i
      BY <1>8, <1>12, <2>2, <2>3
    <3>2. SlotsOf(i)' = SlotsOf(i)
      BY <2>1, <3>1 DEF SlotsOf
    <3>3. QED
      BY <1>10, <2>3, <3>2 DEF IInv, TypeOK
  <2>4. Cardinality(SlotsOf(name)') = n
    <3>1. SlotsOf(name)' = {s \in Slot : Pos(swhead) <= Pos(s) /\ Pos(s) < Pos(swhead) + n}
      <4>1. \A s \in Slot : Pos(s) < Pos(swhead) + n /\ H[s].frame = name <=> New(s)
        BY <1>8, <1>12, <2>2
      <4>2. QED
        BY <2>1, <4>1
    <3>2. Pos(swhead) + n <= Size
      BY <1>2, <1>11, SizeAssumption
    <3>3. Cardinality({s \in Slot : Pos(swhead) <= Pos(s) /\ Pos(s) < Pos(swhead) + n}) = n
      BY <1>4, <1>11, <3>2, SlotRun DEF Pos
    <3>4. QED
      BY <3>1, <3>3
  <2>5. refs'[name] >= n /\ (NoCopies => refs'[name] = n)
    BY <1>2, <1>10, <1>11 DEF IInv, TypeOK, NoCopies
  <2>6. ASSUME NEW i \in Slot
        PROVE  /\ Cardinality(SlotsOf(i)') <= refs'[i]
               /\ NoCopies => refs'[i] = Cardinality(SlotsOf(i)')
    BY <1>11, <2>3, <2>4, <2>5, ShapeAssumption DEF IInv, TypeOK, Balanced
  <2>7. QED
    BY <2>6 DEF Balanced
<1>20. Ends'
  <2>1. ASSUME NEW s \in Slot
        PROVE  /\ ~F[s].hdr
               /\ Pos(s) + 1 = Pos(swhead) + n => F[s].eop
               /\ Pos(s) < Pos(hwpos) /\ F[s].eop => F[s].du
    <3>1. Pos(s) \in Nat /\ Pos(hwpos) \in Nat /\ Pos(hwpos) <= Pos(swhead)
      BY <1>4, <1>9 DEF IInv, DeviceInside
    <3>2. CASE New(s)
      <4>1. ~(Pos(s) < Pos(hwpos))
        BY <1>11, <3>1, <3>2
      <4>2. Pos(s) + 1 = Pos(swhead) + n => Pos(s) - Pos(swhead) = f.frags
        BY <1>2, <1>11, <3>1
      <4>3. QED
        BY <1>8, <3>2, <4>1, <4>2
    <3>3. CASE ~New(s)
      <4>1. F[s] = va[s]
        BY <1>8, <3>3
      <4>2. ~(Pos(s) + 1 = Pos(swhead) + n)
        BY <1>11, <3>1, <3>3
      <4>3. QED
        BY <4>1, <4>2 DEF IInv, Ends
    <3>4. QED
      BY <3>2, <3>3
  <2>2. QED
    BY <1>3, <1>7, <2>1 DEF Ends, Pos, Distance
<1>21. QED
  BY <1>13, <1>14, <1>15, <1>16, <1>17, <1>18, <1>19, <1>20 DEF IInv

\* A frame is given up: the slots that were written are outside the window.
LEMMA FailInv ==
  ASSUME NoGso, IInv, XmitFail
  PROVE  IInv'
<1> DEFINE f == xmit.skb
<1>1. xmit # NULL /\ xmit.pc = "fill" /\ TypeOK
  BY DEF XmitFail, IInv
<1>2. /\ ~f.tso /\ f.frags \in Nat /\ Descs(f) = f.frags + 1 /\ Fits
      /\ Pos(swhead) + Descs(f) <= Size - 1
  BY <1>1, PlainFrame
<1>3. PICK n \in FailsAt(f) :
        /\ va' = [s \in Slot |-> IF n > 0 /\ s \in Undone(f, n) THEN Idle(TRUE) ELSE Filled(f, n, {})[s]]
        /\ ctx' = Holding(f, n)
  BY DEF XmitFail
<1>4. /\ xmit' = NULL /\ stopped' \in BOOLEAN
      /\ UNCHANGED <<swhead, swtail, refs, requeued, comp, irq, hwpos>>
  BY DEF XmitFail, IInv, TypeOK
<1>5. n \in 0..(Descs(f) - 1)
  BY <1>2 DEF FailsAt
<1>6. n \in 0..Descs(f) /\ n \in Nat /\ Pos(swhead) \in Nat /\ Pos(swhead) + n <= Size - 1
  BY <1>1, <1>2, <1>5, Indices, SizeAssumption
<1> DEFINE V == Filled(f, n, {})
           H == Holding(f, n)
           New(s) == Pos(swhead) <= Pos(s) /\ Pos(s) < Pos(swhead) + n
<1>7. /\ V \in [Slot -> Desc]
      /\ H \in [Slot -> [frame : Slot, sngl : Slot] \cup {NULL}]
      /\ \A s \in Slot : ~New(s) => V[s] = va[s] /\ H[s] = ctx[s]
  BY <1>1, <1>6, Written
<1>8. ASSUME NEW s \in Slot
      PROVE  /\ n > 0 /\ s \in Undone(f, n) <=> New(s)
             /\ Pos(s) \in Nat
  <2>1. Undone(f, n) = {FromHead(k) : k \in 0..(n - 1)}
    BY <1>2 DEF Undone
  <2>2. /\ (Size + s - swhead) % Size < n <=> New(s)
        /\ n > 0 => (s \in {FromHead(k) : k \in 0..(n - 1)} <=> (Size + s - swhead) % Size < n)
    BY <1>1, <1>6, WrittenSlots
  <2>3. Pos(s) \in Nat
    BY <1>1, PosType, SizeAssumption
  <2>4. New(s) => n > 0
    BY <1>6, <2>3
  <2>5. QED
    BY <2>1, <2>2, <2>3, <2>4
<1> HIDE DEF V, H, f
<1>9. va' = [s \in Slot |-> IF n > 0 /\ s \in Undone(f, n) THEN Idle(TRUE) ELSE V[s]] /\ ctx' = H
  BY <1>3 DEF V, H
<1>10. ASSUME NEW s \in Slot
       PROVE  va'[s] = IF New(s) THEN Idle(TRUE) ELSE va[s]
  BY <1>7, <1>8, <1>9
<1>11. /\ va' \in [Slot -> Desc] /\ Idle(TRUE).map = "none"
  <2>1. Idle(TRUE) \in Desc /\ Idle(TRUE).map = "none"
    BY DEF Idle, Desc
  <2>2. QED
    BY <1>7, <1>9, <2>1
<1>12. ASSUME NEW s \in Slot, Pos(s) < Pos(swhead)
       PROVE  va'[s] = va[s] /\ ctx'[s] = ctx[s]
  <2>1. ~New(s)
    BY <1>6, <1>8, <1>12
  <2>2. QED
    BY <1>7, <1>9, <1>10, <2>1
<1>13. TypeOK'
  BY <1>4, <1>7, <1>9, <1>11 DEF IInv, TypeOK
<1>14. \A s : Pos(s) = Distance(swtail, s) /\ Distance(swtail, s)' = Distance(swtail, s')
  BY <1>4 DEF Pos, Distance
<1>15. DeviceInside'
  BY <1>4 DEF IInv, DeviceInside, Pos, Distance
<1>16. Mapped'
  <2>1. ASSUME NEW s \in Slot PROVE va'[s].map # "none" <=> Pos(s) < Pos(swhead)
    <3>1. CASE New(s)
      <4>1. va'[s].map = "none"
        BY <1>10, <1>11, <3>1
      <4>2. ~(Pos(s) < Pos(swhead))
        BY <1>6, <1>8, <3>1
      <4>3. QED
        BY <4>1, <4>2
    <3>2. CASE ~New(s)
      BY <1>10, <3>2 DEF IInv, Mapped
    <3>3. QED
      BY <3>1, <3>2
  <2>2. QED
    BY <1>4, <2>1 DEF Mapped, Pos, Distance
<1>17. Held'
  BY <1>4, <1>12 DEF IInv, Held, Pos, Distance
<1>18. NotDone'
  BY <1>4, <1>12 DEF IInv, NotDone, Pos, Distance
<1>19. Room' /\ ScanBehind'
  BY <1>4 DEF IInv, Room, ScanBehind, Pos, Distance
<1>20. Balanced'
  <2>1. \A i : SlotsOf(i)' = SlotsOf(i)
    BY <1>4, <1>12 DEF SlotsOf, Pos, Distance
  <2>2. QED
    BY <1>4, <2>1 DEF IInv, Balanced
<1>21. Ends'
  <2>1. ASSUME NEW s \in Slot
        PROVE  /\ ~va'[s].hdr
               /\ Pos(s) + 1 = Pos(swhead) => va'[s].eop
               /\ Pos(s) < Pos(hwpos) /\ va'[s].eop => va'[s].du
    <3>1. CASE New(s)
      <4>1. Pos(s) \in Nat /\ Pos(hwpos) \in Nat /\ Pos(hwpos) <= Pos(swhead)
        BY <1>1, <1>8, Indices, PosType, SizeAssumption DEF IInv, DeviceInside
      <4>2. ~(Pos(s) + 1 = Pos(swhead)) /\ ~(Pos(s) < Pos(hwpos))
        BY <1>6, <3>1, <4>1
      <4>3. ~va'[s].hdr
        BY <1>10, <3>1 DEF Idle
      <4>4. QED
        BY <4>2, <4>3
    <3>2. CASE ~New(s)
      <4>1. va'[s] = va[s]
        BY <1>10, <3>2
      <4>2. QED
        BY <4>1 DEF IInv, Ends
    <3>3. QED
      BY <3>1, <3>2
  <2>2. QED
    BY <1>4, <2>1 DEF Ends, Pos, Distance
<1>22. QED
  BY <1>13, <1>15, <1>16, <1>17, <1>18, <1>19, <1>20, <1>21 DEF IInv

-----------------------------------------------------------------------------
(* wil_tx_complete. *)
\* A set of numbers that is not empty has a least element.
LEMMA LeastNat ==
  ASSUME NEW S \in SUBSET Nat, S # {}
  PROVE  \E x \in S : \A y \in S : x <= y
<1>1. PICK x \in S : \A y \in S : ~(<<y, x>> \in OpToRel(<, Nat))
  BY NatLessThanWellFounded, WFMin
<1>2. \A y \in S : ~(y < x)
  BY <1>1 DEF OpToRel
<1>3. QED
  BY <1>2

\* A bounded set of numbers that is not empty has a greatest element.
LEMMA GreatestNat ==
  ASSUME NEW m \in Nat, NEW S \in SUBSET (0..m), S # {}
  PROVE  Max(S) \in S
<1> DEFINE D == {m - k : k \in S}
<1>1. D \in SUBSET Nat /\ D # {}
  <2>1. ASSUME NEW k \in S PROVE k \in 0..m /\ m - k \in Nat
    <3>1. k \in 0..m
      OBVIOUS
    <3>2. QED
      BY <3>1
  <2>2. QED
    BY <2>1
<1>2. PICK d \in D : \A e \in D : d <= e
  BY <1>1, LeastNat
<1>3. PICK k \in S : d = m - k
  OBVIOUS
<1>4. ASSUME NEW j \in S PROVE k >= j
  <2>1. d <= m - j
    BY <1>2
  <2>2. j \in 0..m /\ k \in 0..m
    OBVIOUS
  <2>3. QED
    BY <1>3, <2>1, <2>2
<1>5. QED
  BY <1>4 DEF Max

\* The first loop finds a descriptor that the device is done with.
LEMMA ScanInv ==
  ASSUME IInv, CompScan
  PROVE  IInv'
<1> DEFINE done == {k \in 0..(Used - 1) : va[FromTail(k)].du}
           n == IF done = {} THEN 0 ELSE Max(done)
<1>1. /\ comp' = [pc |-> "release", n |-> n] /\ irq' = FALSE
      /\ UNCHANGED <<ring, xmit, requeued, stopped, hwpos>>
  BY DEF CompScan
<1>2. /\ swtail \in Slot /\ hwpos \in Slot /\ Used = Pos(swhead) /\ Pos(swhead) \in 0..(Size - 1)
      /\ Pos(hwpos) \in 0..(Size - 1)
  BY Indices, PosType DEF IInv
<1>3. ASSUME NEW k \in done PROVE k < Pos(hwpos)
  <2>1. k \in 0..(Size - 1) /\ k < Pos(swhead) /\ va[FromTail(k)].du
    BY <1>2, SizeAssumption
  <2>2. FromTail(k) \in Slot /\ Pos(FromTail(k)) = k
    BY <1>2, <2>1, Forward DEF FromTail, Pos
  <2>3. ~(Pos(hwpos) <= k)
    BY <2>1, <2>2 DEF IInv, NotDone
  <2>4. QED
    BY <1>2, <2>1, <2>3
<1>4. n \in Slot /\ n <= Pos(hwpos)
  <2>1. CASE done = {}
    BY <1>2, <2>1, SizeAssumption DEF Slot
  <2>2. CASE done # {}
    <3>1. done \in SUBSET (0..(Size - 1)) /\ Size - 1 \in Nat
      BY <1>2, SizeAssumption
    <3>2. Max(done) \in done
      <4> HIDE DEF done
      <4>1. QED
        BY <2>2, <3>1, GreatestNat
    <3>3. Max(done) \in 0..(Size - 1) /\ Max(done) < Pos(hwpos)
      BY <1>3, <3>1, <3>2
    <3>4. QED
      BY <1>2, <2>2, <3>3 DEF Slot
  <2>3. QED
    BY <2>1, <2>2
<1> HIDE DEF n
<1>5. TypeOK'
  BY <1>1, <1>4 DEF IInv, TypeOK, ring
<1>6. Room' /\ ScanBehind'
  BY <1>1, <1>4 DEF IInv, Room, ScanBehind, Pos, Distance, ring
<1>7. QED
  BY <1>1, <1>5, <1>6, RingKept DEF IInv

\* The second loop stops somewhere.
LEMMA Stops ==
  ASSUME NEW n \in Nat
  PROVE  Releasable(n) \in 0..n
<1> DEFINE B(k) == va[FromTail(k)].eop /\ ~va[FromTail(k)].du
           S == {k \in 0..n : k = n \/ B(k)}
<1>1. S \in SUBSET Nat /\ n \in S
  OBVIOUS
<1>2. PICK m \in S : \A k \in S : m <= k
  BY <1>1, LeastNat
<1>3. m \in 0..n /\ (m = n \/ B(m))
  OBVIOUS
<1>4. \A k \in 0..(m - 1) : ~B(k)
  <2>1. SUFFICES ASSUME NEW k \in 0..(m - 1), B(k) PROVE FALSE
    OBVIOUS
  <2>2. k \in 0..n
    BY <1>3
  <2>3. m <= k
    BY <1>2, <2>1, <2>2
  <2>4. QED
    BY <1>3, <2>3
<1>5. QED
  BY <1>3, <1>4 DEF Releasable
\* The second loop releases what the device is done with.
LEMMA ReleaseInv ==
  ASSUME IInv, CompRelease
  PROVE  IInv'
<1>1. comp # NULL /\ comp.pc = "release" /\ TypeOK
  BY DEF CompRelease, IInv
<1>2. /\ swhead \in Slot /\ swtail \in Slot /\ hwpos \in Slot
      /\ Pos(swhead) \in 0..(Size - 1) /\ Pos(hwpos) \in 0..(Size - 1)
  BY <1>1, Indices, PosType
<1>3. comp.n \in Nat /\ comp.n <= Pos(hwpos) /\ Pos(hwpos) <= Pos(swhead)
  <2>1. comp.n \in Slot
    BY <1>1 DEF TypeOK
  <2>2. QED
    BY <1>1, <2>1, SizeAssumption DEF IInv, ScanBehind, DeviceInside, Slot
<1>4. PICK n \in 0..comp.n : n = Releasable(comp.n)
  BY <1>3, Stops
<1>5. n \in Nat /\ n \in 0..(Size - 1) /\ n <= Pos(hwpos) /\ n <= Pos(swhead)
  BY <1>2, <1>3, <1>4, SizeAssumption
<1> DEFINE gone == {FromTail(k) : k \in 0..(n - 1)}
           G(i) == {s \in gone : ctx[s].frame = i}
<1>6. /\ va' = [s \in Slot |-> IF s \in gone THEN Idle(FALSE) ELSE va[s]]
      /\ ctx' = [s \in Slot |-> IF s \in gone THEN NULL ELSE ctx[s]]
      /\ refs' = [i \in Slot |-> refs[i] - Cardinality(G(i))]
      /\ swtail' = FromTail(n) /\ comp' = [pc |-> "avail", n |-> n]
      /\ UNCHANGED <<swhead, xmit, requeued, stopped, irq, hwpos>>
  BY <1>4 DEF CompRelease
<1>7. \A s \in Slot : Pos(s) \in 0..(Size - 1)
  BY <1>1, PosType
<1>8. ASSUME NEW s PROVE s \in gone <=> s \in Slot /\ Pos(s) < n
  <2>1. ASSUME NEW k \in 0..(n - 1), s = FromTail(k) PROVE s \in Slot /\ Pos(s) < n
    <3>1. k \in 0..(Size - 1) /\ k < n
      BY <1>5, SizeAssumption
    <3>2. QED
      BY <1>2, <2>1, <3>1, Forward DEF FromTail, Pos
  <2>2. ASSUME s \in Slot, Pos(s) < n PROVE \E k \in 0..(n - 1) : s = FromTail(k)
    <3>1. Pos(s) \in 0..(n - 1) /\ Pos(s) \in 0..(Size - 1)
      BY <1>5, <1>7, <2>2, SizeAssumption
    <3>2. FromTail(Pos(s)) \in Slot /\ Pos(FromTail(Pos(s))) = Pos(s)
      BY <1>2, <3>1, Forward DEF FromTail, Pos
    <3>3. s = FromTail(Pos(s))
      BY <1>2, <2>2, <3>2, DistanceOne DEF Pos
    <3>4. QED
      BY <3>1, <3>3
  <2>3. QED
    BY <2>1, <2>2
<1> HIDE DEF gone
<1>9. swtail' \in Slot /\ Pos(swtail') = n
  BY <1>2, <1>5, <1>6, Forward DEF FromTail, Pos
<1> DEFINE Left(s) == Distance(swtail', s)
<1>10. ASSUME NEW s \in Slot
       PROVE  Left(s) = IF n <= Pos(s) THEN Pos(s) - n ELSE Size + Pos(s) - n
  BY <1>2, <1>9, SeenFrom DEF Pos
<1>11. Left(swhead) = Pos(swhead) - n /\ Left(hwpos) = Pos(hwpos) - n
  BY <1>2, <1>5, <1>10
<1> HIDE DEF Left
<1>12. ASSUME NEW s \in Slot
       PROVE  /\ Left(s) < Left(swhead) <=> n <= Pos(s) /\ Pos(s) < Pos(swhead)
              /\ s \in gone <=> Pos(s) < n
              /\ n <= Pos(s) => Left(s) = Pos(s) - n
              /\ Pos(s) \in Nat /\ Left(s) \in Int
              /\ Pos(s) < n => Left(s) >= Left(swhead)
  BY <1>2, <1>5, <1>7, <1>8, <1>10, <1>11, SizeAssumption
<1>13. /\ \A s : Pos(s)' = Distance(swtail', s')
       /\ Pos(swhead)' = Left(swhead) /\ Pos(hwpos)' = Left(hwpos)
  BY <1>6 DEF Pos, Distance, Left
<1>14. ASSUME NEW s \in Slot
       PROVE  /\ va'[s] = IF Pos(s) < n THEN Idle(FALSE) ELSE va[s]
              /\ ~(Pos(s) < n) => ctx'[s] = ctx[s]
  BY <1>6, <1>12
<1>15. DeviceInside'
  BY <1>2, <1>3, <1>5, <1>11, <1>13 DEF DeviceInside
<1>16. Mapped'
  <2>1. Idle(FALSE).map = "none"
    BY DEF Idle
  <2>2. ASSUME NEW s \in Slot PROVE va'[s].map # "none" <=> Left(s) < Left(swhead)
    <3>1. CASE Pos(s) < n
      <4>1. va'[s].map = "none"
        BY <1>14, <2>1, <3>1
      <4>2. ~(Left(s) < Left(swhead))
        BY <1>5, <1>12, <3>1
      <4>3. QED
        BY <4>1, <4>2
    <3>2. CASE ~(Pos(s) < n)
      <4>1. va'[s] = va[s]
        BY <1>14, <3>2
      <4>2. n <= Pos(s)
        BY <1>5, <1>7, <3>2, SizeAssumption
      <4>3. QED
        BY <1>12, <4>1, <4>2 DEF IInv, Mapped
    <3>3. QED
      BY <3>1, <3>2
  <2>3. QED
    BY <1>6, <1>13, <2>2 DEF Mapped, Pos, Distance, Left
<1>17. ASSUME NEW s \in Slot, Left(s) < Left(swhead)
       PROVE  /\ ctx'[s] = ctx[s] /\ va'[s] = va[s] /\ ctx[s] \in [frame : Slot, sngl : Slot]
              /\ Pos(s) <= Pos(ctx[s].frame) /\ Pos(ctx[s].frame) < Pos(swhead)
  <2>1. n <= Pos(s) /\ Pos(s) < Pos(swhead) /\ ~(Pos(s) < n)
    BY <1>5, <1>12, <1>17
  <2>2. QED
    BY <1>14, <2>1 DEF IInv, Held
<1>18. Held'
  <2>1. ASSUME NEW s \in Slot, Left(s) < Left(swhead)
        PROVE  /\ ctx'[s] \in [frame : Slot, sngl : Slot]
               /\ Left(s) <= Left(ctx'[s].frame) /\ Left(ctx'[s].frame) < Left(swhead)
    <3>1. PICK i \in Slot : ctx[s].frame = i /\ ctx'[s].frame = i
      BY <1>17, <2>1
    <3>2. n <= Pos(s) /\ Pos(s) <= Pos(i) /\ Pos(i) < Pos(swhead)
      BY <1>12, <1>17, <2>1, <3>1
    <3>3. n <= Pos(i) /\ Left(i) = Pos(i) - n /\ Left(s) = Pos(s) - n
      BY <1>5, <1>12, <3>2
    <3>4. Left(s) <= Left(i) /\ Left(i) < Left(swhead)
      BY <1>2, <1>5, <1>11, <1>12, <3>2, <3>3
    <3>5. QED
      BY <1>17, <2>1, <3>1, <3>4
  <2>2. QED
    BY <1>6, <1>13, <2>1 DEF Held, Pos, Distance, Left
<1>19. NotDone'
  <2>1. ASSUME NEW s \in Slot, Left(hwpos) <= Left(s), Left(s) < Left(swhead) PROVE ~va'[s].du
    <3>1. n <= Pos(s) /\ Pos(s) < Pos(swhead) /\ Left(s) = Pos(s) - n
      BY <1>12, <2>1
    <3>2. Pos(hwpos) <= Pos(s)
      BY <1>2, <1>5, <1>11, <1>12, <2>1, <3>1
    <3>3. QED
      BY <1>17, <2>1, <3>1, <3>2 DEF IInv, NotDone
  <2>2. QED
    BY <1>6, <1>13, <2>1 DEF NotDone, Pos, Distance, Left
<1>20. \A i \in Slot : G(i) \subseteq SlotsOf(i) /\ SlotsOf(i)' = SlotsOf(i) \ G(i)
  <2>1. ASSUME NEW i \in Slot PROVE G(i) \subseteq SlotsOf(i)
    <3>1. \A s \in gone : s \in Slot /\ Pos(s) < Pos(swhead)
      BY <1>2, <1>5, <1>7, <1>8
    <3>2. QED
      BY <3>1 DEF SlotsOf
  <2>2. ASSUME NEW i \in Slot PROVE SlotsOf(i)' = SlotsOf(i) \ G(i)
    <3>1. SlotsOf(i)' = {s \in Slot : Left(s) < Left(swhead) /\ ctx'[s].frame = i}
      BY <1>6, <1>13 DEF SlotsOf, Pos, Distance, Left
    <3>2. \A s \in Slot : Left(s) < Left(swhead) <=> Pos(s) < Pos(swhead) /\ s \notin gone
      BY <1>5, <1>12
    <3>3. \A s \in Slot : Left(s) < Left(swhead) => ctx'[s] = ctx[s]
      BY <1>17
    <3>4. QED
      BY <3>1, <3>2, <3>3 DEF SlotsOf
  <2>3. QED
    BY <2>1, <2>2
<1>21. ASSUME NEW i \in Slot
       PROVE  /\ Cardinality(SlotsOf(i)') = Cardinality(SlotsOf(i)) - Cardinality(G(i))
              /\ Cardinality(SlotsOf(i)) \in Nat /\ Cardinality(G(i)) \in Nat
              /\ Cardinality(G(i)) <= Cardinality(SlotsOf(i))
  <2>1. IsFiniteSet(SlotsOf(i)) /\ SlotsOf(i) \cap G(i) = G(i) /\ G(i) \in SUBSET SlotsOf(i)
    BY <1>20, SlotsFinite
  <2>2. IsFiniteSet(G(i)) /\ Cardinality(G(i)) <= Cardinality(SlotsOf(i))
    BY <2>1, FS_Subset
  <2>3. Cardinality(SlotsOf(i) \ G(i)) = Cardinality(SlotsOf(i)) - Cardinality(G(i))
    BY <2>1, FS_Difference
  <2>4. QED
    BY <1>20, <2>1, <2>2, <2>3, FS_CardinalityType
<1> HIDE DEF G
<1>22. ASSUME NEW i \in Slot
       PROVE  /\ refs'[i] = refs[i] - Cardinality(G(i)) /\ refs'[i] \in Nat
              /\ Cardinality(SlotsOf(i)') <= refs'[i]
              /\ NoCopies => refs'[i] = Cardinality(SlotsOf(i)')
  <2>1. refs[i] \in Nat /\ Cardinality(SlotsOf(i)) <= refs[i] /\ (NoCopies => refs[i] = Cardinality(SlotsOf(i)))
    BY <1>1 DEF IInv, Balanced, TypeOK
  <2>2. refs'[i] = refs[i] - Cardinality(G(i))
    BY <1>6
  <2>3. QED
    BY <1>21, <2>1, <2>2
<1>23. Balanced'
  BY <1>22 DEF Balanced
<1>24. TypeOK'
  <2>1. Idle(FALSE) \in Desc
    BY DEF Idle, Desc
  <2>2. va' \in [Slot -> Desc] /\ ctx' \in [Slot -> [frame : Slot, sngl : Slot] \cup {NULL}]
    BY <1>1, <1>6, <2>1 DEF TypeOK
  <2>3. refs' \in [Slot -> Nat]
    BY <1>6, <1>22
  <2>4. n \in Slot
    BY <1>5 DEF Slot
  <2>5. QED
    BY <1>1, <1>6, <1>9, <2>2, <2>3, <2>4 DEF TypeOK
<1>25. Room'
  <2>1. SUFFICES ASSUME xmit # NULL PROVE Room'
    BY <1>6 DEF Room
  <2>2. xmit.avail <= Size - Pos(swhead) - 1 /\ (xmit.pc = "fill" => Need(xmit.skb) <= xmit.avail)
    BY <2>1 DEF IInv, Room
  <2>3. xmit.avail \in Nat
    BY <1>1, <2>1, SizeAssumption DEF TypeOK, Slot
  <2>4. xmit.avail <= Size - Left(swhead) - 1
    BY <1>2, <1>5, <1>11, <2>2, <2>3, SizeAssumption
  <2>5. QED
    BY <1>6, <1>13, <2>2, <2>4 DEF Room, Pos, Distance, Left, Need
<1>26. ScanBehind'
  BY <1>6 DEF ScanBehind
<1>27. Ends'
  <2>1. ASSUME NEW s \in Slot
        PROVE  /\ ~va'[s].hdr
               /\ Left(s) + 1 = Left(swhead) => va'[s].eop
               /\ Left(s) < Left(hwpos) /\ va'[s].eop => va'[s].du
    <3>1. CASE Pos(s) < n
      <4>1. ~va'[s].hdr
        BY <1>14, <3>1 DEF Idle
      <4>2. ~(Left(s) < Left(swhead)) /\ Left(s) \in Int /\ Left(swhead) \in Int
        BY <1>2, <1>5, <1>12, <3>1
      <4>3. ~(Left(s) + 1 = Left(swhead)) /\ ~(Left(s) < Left(hwpos))
        BY <1>2, <1>3, <1>5, <1>11, <4>2
      <4>4. QED
        BY <4>1, <4>3
    <3>2. CASE ~(Pos(s) < n)
      <4>1. va'[s] = va[s]
        BY <1>14, <3>2
      <4>2. Pos(s) \in Nat /\ n <= Pos(s)
        BY <1>5, <1>7, <3>2, SizeAssumption
      <4>3. Left(s) = Pos(s) - n
        BY <1>12, <4>2
      <4>4. /\ Left(s) + 1 = Left(swhead) => Pos(s) + 1 = Pos(swhead)
            /\ Left(s) < Left(hwpos) => Pos(s) < Pos(hwpos)
        BY <1>2, <1>5, <1>11, <4>2, <4>3
      <4>5. QED
        BY <4>1, <4>4 DEF IInv, Ends
    <3>3. QED
      BY <3>1, <3>2
  <2>2. QED
    BY <1>6, <1>13, <2>1 DEF Ends, Pos, Distance, Left
<1>28. QED
  BY <1>15, <1>16, <1>18, <1>19, <1>23, <1>24, <1>25, <1>26, <1>27 DEF IInv
\* The rest of wil_tx_complete looks at the ring and wakes the stack.
LEMMA CompInv ==
  ASSUME IInv, CompAvail \/ CompWake \/ CompEnd
  PROVE  IInv'
<1>1. UNCHANGED <<ring, xmit, requeued, hwpos>> /\ comp # NULL
  BY DEF CompAvail, CompWake, CompEnd
<1>2. wil_vring_avail_tx \in Slot
  BY Indices DEF IInv
<1>3. /\ comp' \in {NULL} \cup [pc : {"release", "avail", "next"}, n : Slot]
                          \cup [pc : {"wake"}, n : Slot, avail : Slot]
      /\ comp' = NULL \/ comp'.pc # "release"
      /\ stopped' \in BOOLEAN /\ irq' \in BOOLEAN
  <2>1. comp.n \in Slot
    BY <1>1 DEF IInv, TypeOK
  <2>2. stopped \in BOOLEAN /\ irq \in BOOLEAN
    BY DEF IInv, TypeOK
  <2>3. CASE CompAvail
    BY <1>2, <2>1, <2>2, <2>3 DEF CompAvail
  <2>4. CASE CompWake
    BY <2>1, <2>2, <2>4 DEF CompWake
  <2>5. CASE CompEnd
    BY <2>1, <2>2, <2>5 DEF CompEnd
  <2>6. QED
    BY <2>3, <2>4, <2>5
<1>4. TypeOK'
  BY <1>1, <1>3 DEF IInv, TypeOK, ring
<1>5. Room' /\ ScanBehind'
  BY <1>1, <1>3 DEF IInv, Room, ScanBehind, Pos, Distance, ring
<1>6. QED
  BY <1>1, <1>4, <1>5, RingKept DEF IInv

-----------------------------------------------------------------------------
\* The device is done with a descriptor between tail and head.
LEMMA TransmitInv ==
  ASSUME IInv, HwTransmit
  PROVE  IInv'
<1>1. PICK du \in BOOLEAN :
        /\ va' = [va EXCEPT ![hwpos].du = du] /\ irq' \in BOOLEAN
        /\ va[hwpos].eop /\ ~va[hwpos].hdr => du
        /\ hwpos # swhead /\ hwpos' = (hwpos + 1) % Size
        /\ UNCHANGED <<swhead, swtail, ctx, refs, xmit, requeued, comp, stopped>>
  BY DEF HwTransmit, IInv, TypeOK, Desc
<1>2. /\ swhead \in Slot /\ swtail \in Slot /\ hwpos \in Slot /\ TypeOK
      /\ Pos(swhead) \in 0..(Size - 1) /\ Pos(hwpos) \in 0..(Size - 1)
  BY Indices, PosType DEF IInv
<1>3. Pos(hwpos) < Pos(swhead)
  <2>1. Pos(hwpos) # Pos(swhead)
    BY <1>1, <1>2, DistanceOne DEF Pos
  <2>2. QED
    BY <1>2, <2>1 DEF IInv, DeviceInside
<1>4. hwpos' \in Slot /\ Pos(hwpos') = Pos(hwpos) + 1
  <2>1. 1 \in 0..(Size - 1) /\ Pos(hwpos) + 1 < Size
    BY <1>2, <1>3, SizeAssumption
  <2>2. QED
    BY <1>1, <1>2, <2>1, ForwardSeen DEF Pos
<1>5. Pos(swhead)' = Pos(swhead) /\ Pos(hwpos)' = Pos(hwpos) + 1
  BY <1>1, <1>4 DEF Pos, Distance
<1>6. /\ va' \in [Slot -> Desc]
      /\ \A s \in Slot : va'[s].map = va[s].map /\ (s # hwpos => va'[s] = va[s])
      /\ va'[hwpos].hdr = va[hwpos].hdr /\ va'[hwpos].eop = va[hwpos].eop /\ va'[hwpos].du = du
  <2>1. [va[hwpos] EXCEPT !.du = du] \in Desc
    BY <1>2 DEF TypeOK, Desc
  <2>2. LET d == [va[hwpos] EXCEPT !.du = du]
        IN  d.map = va[hwpos].map /\ d.hdr = va[hwpos].hdr /\ d.eop = va[hwpos].eop /\ d.du = du
    BY <1>2 DEF TypeOK, Desc
  <2>3. va' = [va EXCEPT ![hwpos] = [va[hwpos] EXCEPT !.du = du]]
    BY <1>1
  <2>4. QED
    BY <1>2, <2>1, <2>2, <2>3 DEF TypeOK
<1>7. TypeOK'
  BY <1>1, <1>2, <1>4, <1>6 DEF TypeOK
<1>8. DeviceInside'
  BY <1>2, <1>3, <1>5 DEF DeviceInside
<1>9. Mapped' /\ Held'
  BY <1>1, <1>6 DEF IInv, Mapped, Held, Pos, Distance
<1>10. NotDone'
  <2>1. ASSUME NEW s \in Slot, Pos(hwpos) + 1 <= Pos(s), Pos(s) < Pos(swhead) PROVE ~va'[s].du
    <3>1. Pos(s) \in Nat /\ Pos(hwpos) <= Pos(s) /\ s # hwpos
      BY <1>2, <2>1, PosType, SizeAssumption
    <3>2. QED
      BY <1>6, <2>1, <3>1 DEF IInv, NotDone
  <2>2. QED
    BY <1>1, <1>5, <2>1 DEF NotDone, Pos, Distance
<1>11. Room'
  BY <1>1 DEF IInv, Room, Pos, Distance
<1>12. ScanBehind'
  <2>1. SUFFICES ASSUME comp # NULL, comp.pc = "release" PROVE comp.n <= Pos(hwpos) + 1
    BY <1>1, <1>5 DEF ScanBehind
  <2>2. comp.n <= Pos(hwpos) /\ comp.n \in Nat
    BY <1>2, <2>1, SizeAssumption DEF IInv, ScanBehind, TypeOK, Slot
  <2>3. QED
    BY <1>2, <2>2
<1>13. Balanced'
  <2>1. \A i : SlotsOf(i)' = SlotsOf(i)
    BY <1>1 DEF SlotsOf, Pos, Distance
  <2>2. QED
    BY <1>1, <2>1 DEF IInv, Balanced
<1>14. Ends'
  <2>1. ASSUME NEW s \in Slot
        PROVE  /\ ~va'[s].hdr
               /\ Pos(s) + 1 = Pos(swhead) => va'[s].eop
               /\ Pos(s) < Pos(hwpos) + 1 /\ va'[s].eop => va'[s].du
    <3>1. CASE s = hwpos
      BY <1>1, <1>6, <3>1 DEF IInv, Ends
    <3>2. CASE s # hwpos
      <4>1. Pos(s) # Pos(hwpos) /\ Pos(s) \in Nat /\ Pos(hwpos) \in Nat
        BY <1>2, <3>2, DistanceOne, PosType, SizeAssumption DEF Pos
      <4>2. Pos(s) < Pos(hwpos) + 1 => Pos(s) < Pos(hwpos)
        BY <4>1
      <4>3. QED
        BY <1>6, <3>2, <4>2 DEF IInv, Ends
    <3>3. QED
      BY <3>1, <3>2
  <2>2. QED
    BY <1>1, <1>5, <2>1 DEF Ends, Pos, Distance
<1>15. QED
  BY <1>7, <1>8, <1>9, <1>10, <1>11, <1>12, <1>13, <1>14 DEF IInv

\* Every step.
LEMMA StepInv ==
  ASSUME NoGso, IInv, [Next]_vars
  PROVE  IInv'
<1>1. CASE \E f \in SkbShapes : XmitBegin(f)
  BY <1>1, BeginInv
<1>2. CASE XmitCheck \/ XmitFill \/ XmitFail
  BY <1>2, CheckInv, FillInv, FailInv
<1>3. CASE CompScan \/ CompRelease \/ CompAvail \/ CompWake \/ CompEnd
  BY <1>3, ScanInv, ReleaseInv, CompInv
<1>4. CASE HwTransmit
  BY <1>4, TransmitInv
<1>5. CASE UNCHANGED vars
  <2>1. UNCHANGED <<ring, hwpos>> /\ UNCHANGED <<xmit, requeued, comp, stopped, irq>>
    BY <1>5 DEF vars, ring
  <2>2. TypeOK'
    BY <2>1 DEF IInv, TypeOK, ring
  <2>3. Room' /\ ScanBehind'
    BY <2>1 DEF IInv, Room, ScanBehind, Pos, Distance, ring
  <2>4. QED
    BY <2>1, <2>2, <2>3, RingKept DEF IInv
<1>6. QED
  BY <1>1, <1>2, <1>3, <1>4, <1>5 DEF Next

-----------------------------------------------------------------------------
\* The invariant, for any size of the ring and any plain frames and copies:
\* wil_start_xmit, wil_tx_complete and the device agree on who owns which slot.
THEOREM Inductive ==
  ASSUME NoGso
  PROVE  Spec => []IInv
<1>1. Init => IInv
  BY InitInv
<1>2. IInv /\ [Next]_vars => IInv'
  BY StepInv
<1>3. QED
  BY <1>1, <1>2, PTL DEF Spec

\* The state has its type: no index leaves the ring, no reference count falls
\* below zero (txrx.c:47, 1307).
THEOREM TypeCorrect ==
  ASSUME NoGso
  PROVE  Spec => []TypeOK
<1>1. IInv => TypeOK
  BY DEF IInv
<1>2. QED
  BY <1>1, Inductive, PTL

\* wil_tx_complete does not release what the device still reads, and
\* wil_start_xmit does not write over it (txrx.c:1075, 1278).
THEOREM DeviceSafe ==
  ASSUME NoGso
  PROVE  Spec => []HwInWindow
<1>1. IInv => HwInWindow
  BY Indices DEF IInv, DeviceInside, HwInWindow, Pos, Distance
<1>2. QED
  BY <1>1, Inductive, PTL

\* A buffer is mapped exactly while its descriptor is in the window, whatever
\* mapping fails (the error path, txrx.c:1152).
THEOREM MapsPaired ==
  ASSUME NoGso
  PROVE  Spec => []MappedInWindow
<1>1. IInv => MappedInWindow
  BY InWindow DEF IInv, Mapped, MappedInWindow
<1>2. QED
  BY <1>1, Inductive, PTL

\* An skb has as many references as slots, if nothing is copied: it is freed once,
\* with its last descriptor (txrx.c:1109).
THEOREM FreedOnce ==
  ASSUME NoGso, NoCopies
  PROVE  Spec => []RefsBalanced
<1>1. IInv => RefsBalanced
  <2>1. SUFFICES ASSUME IInv, NEW i \in Slot
                 PROVE  refs[i] = Cardinality({s \in Window : ctx[s].frame = i})
    BY DEF RefsBalanced
  <2>2. SlotsOf(i) = {s \in Window : ctx[s].frame = i}
    BY <2>1, InWindow DEF IInv, SlotsOf
  <2>3. QED
    BY <2>1, <2>2 DEF IInv, Balanced
<1>2. QED
  BY <1>1, Inductive, PTL

-----------------------------------------------------------------------------
(* The ring implements one ring of TxQueue. *)

\* The only ring is ring 0, and it is allocated.
LEMMA OneRing ==
  /\ Q!Ring = {0} /\ Q!Allocated = {0} /\ Q!Min({0}) = 0
  /\ Q!CopiesAfter(0) = {} /\ Q!RingsAfter(0) = {}
<1>1. Q!Ring = {0}
  BY DEF Q!Ring
<1>2. Q!Allocated = {0}
  BY <1>1, NullApart DEF Q!Allocated, OnRing
<1>3. Q!Min({0}) = 0
  BY DEF Q!Min
<1>4. QED
  BY <1>1, <1>2, <1>3 DEF Q!CopiesAfter, Q!RingsAfter

\* The counts of TxQueue are distances.
LEMMA Counts ==
  ASSUME TypeOK, DeviceInside
  PROVE  /\ Distance(hwpos, swhead) = Pos(swhead) - Pos(hwpos)
         /\ Distance(swtail, hwpos) = Pos(hwpos)
         /\ Q!Avail(0) = wil_vring_avail_tx
<1>1. /\ swhead \in Slot /\ swtail \in Slot /\ hwpos \in Slot
      /\ Pos(swhead) \in 0..(Size - 1) /\ Pos(hwpos) \in 0..(Size - 1)
      /\ wil_vring_avail_tx = Size - Pos(swhead) - 1
  BY Indices, PosType
<1>2. Distance(hwpos, swhead) = Pos(swhead) - Pos(hwpos)
  BY <1>1, SeenFrom DEF DeviceInside, Pos
<1>3. Distance(swtail, hwpos) = Pos(hwpos)
  BY DEF Pos
<1>4. Q!Avail(0) = Size - (Pos(swhead) - Pos(hwpos)) - Pos(hwpos) - 1
  BY <1>2, <1>3 DEF Q!Avail, OnRing
<1>5. QED
  BY <1>1, <1>2, <1>3, <1>4, SizeAssumption

\* A frame of TxQueue is not NULL.
LEMMA FrameBar ==
  ASSUME NEW f \in SkbShapes
  PROVE  /\ f # NULL /\ SkbBar(f) # NULL /\ Need(f) \in Nat
         /\ SkbBar(f) \in Q!Frame
         /\ SkbBar(f) \in [to : {Peer}, need : {Need(g) : g \in SkbShapes}, got : {{}}]
<1>1. Need(f) \in Nat
  BY ShapeAssumption DEF Need
<1>2. SkbBar(f) \in [to : {Peer}, need : Nat, got : {{}}]
  BY <1>1 DEF SkbBar
<1>3. SkbBar(f) \in [to : {Peer}, need : {Need(g) : g \in SkbShapes}, got : {{}}]
  BY DEF SkbBar
<1>4. SkbBar(f) \in Q!Frame
  BY DEF SkbBar, Q!Frame
<1>5. QED
  BY <1>1, <1>2, <1>3, <1>4, NullApart

\* Neither is the progress of a call, here and there.
LEMMA CallBar ==
  ASSUME NEW f \in SkbShapes, NEW at \in {"check", "fill"}, NEW a \in Nat
  PROVE  /\ [pc |-> at, skb |-> f, avail |-> a] # NULL
         /\ [pc |-> at, skb |-> SkbBar(f), ring |-> 0, first |-> 0, avail |-> a] # NULL
<1>1. at \in Pc
  BY DEF Pc
<1>2. [pc |-> at, skb |-> f, avail |-> a] \in [pc : Pc, skb : SkbShapes, avail : Nat]
  BY <1>1
<1>3. SkbBar(f) \in [to : {Peer}, need : Nat, got : {{}}]
  BY FrameBar DEF SkbBar
<1>4. [pc |-> at, skb |-> SkbBar(f), ring |-> 0, first |-> 0, avail |-> a]
        \in [pc : Pc, skb : [to : {Peer}, need : Nat, got : {{}}], ring : {0}, first : {0}, avail : Nat]
  BY <1>1, <1>3
<1>5. QED
  BY <1>2, <1>4, NullApart

\* The progress of a call, as TxQueue sees it.
LEMMA CallIs ==
  ASSUME TypeOK, xmit # NULL
  PROVE  /\ xmit.skb \in SkbShapes /\ xmit.avail \in Nat /\ XmitBar # NULL
         /\ XmitBar = [pc |-> xmit.pc, skb |-> SkbBar(xmit.skb), ring |-> 0, first |-> 0,
                       avail |-> xmit.avail]
<1>1. xmit \in [pc : {"check", "fill"}, skb : SkbShapes, avail : Slot]
  BY DEF TypeOK
<1>2. xmit.skb \in SkbShapes /\ xmit.avail \in Nat /\ xmit.pc \in {"check", "fill"}
  BY <1>1, SizeAssumption DEF Slot
<1>3. QED
  BY <1>2, CallBar DEF XmitBar

\* The stack gives a frame.
LEMMA BeginImplements ==
  ASSUME IInv, NEW f \in SkbShapes, XmitBegin(f)
  PROVE  Q!Next
<1>1. /\ xmit = NULL /\ ~stopped /\ requeued \in {NULL, f} /\ requeued' = NULL
      /\ xmit' = [pc |-> "check", skb |-> f, avail |-> wil_vring_avail_tx]
      /\ UNCHANGED <<swhead, swtail, hwpos, comp, stopped, irq>>
  BY DEF XmitBegin, ring
<1>2. wil_vring_avail_tx \in Nat /\ Q!Avail(0) = wil_vring_avail_tx
  BY Indices, Counts, SizeAssumption DEF IInv, Slot
<1>3. XmitBar = NULL /\ RetryBar' = NULL
  BY <1>1 DEF XmitBar, RetryBar
<1>4. XmitBar' = [pc |-> "check", skb |-> SkbBar(f), ring |-> 0, first |-> 0, avail |-> Q!Avail(0)]
  <2>1. xmit' # NULL
    BY <1>1, <1>2, CallBar
  <2>2. QED
    BY <1>1, <1>2, <2>1 DEF XmitBar, SkbBar, Need
<1>5. IF RetryBar = NULL THEN SkbBar(f) \in [to : {Peer}, need : {Need(g) : g \in SkbShapes}, got : {{}}]
                         ELSE SkbBar(f) = RetryBar
  BY <1>1, FrameBar DEF RetryBar
<1>6. Q!StackSends(SkbBar(f))
  BY <1>1, <1>3, <1>5 DEF Q!StackSends
<1>7. UNCHANGED <<Distance(hwpos, swhead), Distance(swtail, hwpos), CompBar>>
  BY <1>1 DEF Distance, CompBar
<1>8. OnRing(Peer)[0] = SkbBar(f).to
  BY DEF OnRing, SkbBar
<1>9. Q!XmitUnicast(SkbBar(f))
  BY <1>1, <1>3, <1>4, <1>6, <1>7, <1>8, OneRing DEF Q!XmitUnicast, Q!Visit, Q!rings, OnRing
<1>10. QED
  BY <1>9, FrameBar DEF Q!Next
\* The tests of avail.
LEMMA CheckImplements ==
  ASSUME NoCopies, IInv, XmitCheck
  PROVE  Q!Next
<1> DEFINE f == xmit.skb
<1>1. /\ xmit # NULL /\ xmit.pc = "check" /\ TypeOK
      /\ stopped' = (stopped \/ xmit.avail < StopBelow)
      /\ IF xmit.avail < Need(f) THEN xmit' = NULL /\ requeued' = f
         ELSE xmit' = [xmit EXCEPT !.pc = "fill"] /\ requeued' = requeued
      /\ UNCHANGED <<swhead, swtail, hwpos, comp, irq>>
  BY CallIs DEF XmitCheck, IInv, ring, NoCopies
<1>2. /\ f \in SkbShapes /\ xmit.avail \in Nat /\ XmitBar # NULL
      /\ XmitBar = [pc |-> "check", skb |-> SkbBar(f), ring |-> 0, first |-> 0, avail |-> xmit.avail]
  BY <1>1, CallIs
<1>3. UNCHANGED <<Distance(hwpos, swhead), Distance(swtail, hwpos), CompBar>>
  BY <1>1 DEF Distance, CompBar
<1>4. XmitBar.skb.need = Need(f) /\ XmitBar.avail = xmit.avail /\ XmitBar.ring = 0 /\ XmitBar.first = 0
      /\ XmitBar.skb = SkbBar(f) /\ XmitBar.pc = "check"
  BY <1>2 DEF SkbBar
<1>5. CASE xmit.avail < Need(f)
  <2>1. XmitBar' = NULL
    BY <1>1, <1>5 DEF XmitBar
  <2>2. RetryBar' = SkbBar(f)
    BY <1>1, <1>2, <1>5, FrameBar DEF RetryBar, SkbBar, Need
  <2>3. Q!XmitCheck
    BY <1>1, <1>2, <1>3, <1>4, <1>5, <2>1, <2>2 DEF Q!XmitCheck, Q!Leave, Q!IsCopy, Q!rings, OnRing
  <2>4. QED
    BY <2>3 DEF Q!Next
<1>6. CASE ~(xmit.avail < Need(f))
  <2>1. xmit \in [pc : {"check", "fill"}, skb : SkbShapes, avail : Slot]
    BY <1>1 DEF TypeOK
  <2>2. xmit' = [pc |-> "fill", skb |-> f, avail |-> xmit.avail]
    BY <1>1, <1>6, <2>1
  <2>3. xmit' # NULL
    BY <1>2, <2>2, CallBar
  <2>4. XmitBar' = [pc |-> "fill", skb |-> SkbBar(f), ring |-> 0, first |-> 0, avail |-> xmit.avail]
    BY <2>2, <2>3 DEF XmitBar, SkbBar, Need
  <2>5. XmitBar' = [XmitBar EXCEPT !.pc = "fill"]
    BY <1>2, <2>4
  <2>6. RetryBar' = RetryBar
    BY <1>1, <1>6 DEF RetryBar, SkbBar, Need
  <2>7. Q!XmitCheck
    BY <1>1, <1>2, <1>3, <1>4, <1>6, <2>5, <2>6 DEF Q!XmitCheck, Q!rings, OnRing
  <2>8. QED
    BY <2>7 DEF Q!Next
<1>7. QED
  BY <1>5, <1>6

\* A frame is put in the ring.
LEMMA FillImplements ==
  ASSUME NoGso, IInv, XmitFill
  PROVE  Q!Next
<1> DEFINE f == xmit.skb
<1>1. xmit # NULL /\ xmit.pc = "fill" /\ TypeOK /\ DeviceInside
  BY DEF XmitFill, IInv
<1>2. /\ f \in SkbShapes /\ f.frags \in Nat /\ Descs(f) = f.frags + 1 /\ ~f.tso
      /\ Pos(swhead) + Descs(f) <= Size - 1
  BY <1>1, PlainFrame
<1>3. /\ swhead' = FromHead(Descs(f)) /\ xmit' = NULL
      /\ UNCHANGED <<swtail, requeued, comp, stopped, irq, hwpos>>
  BY DEF XmitFill
<1>4. Need(f) = Descs(f) /\ Need(f) \in Nat
  BY <1>2 DEF Need
<1>5. /\ XmitBar # NULL /\ XmitBar.pc = "fill" /\ XmitBar.ring = 0 /\ XmitBar.first = 0
      /\ XmitBar.skb.need = Need(f)
  BY <1>1, CallIs DEF SkbBar
<1>6. XmitBar' = NULL
  BY <1>3 DEF XmitBar
<1>7. UNCHANGED <<Distance(swtail, hwpos), CompBar, RetryBar>>
  BY <1>3 DEF Distance, CompBar, RetryBar, SkbBar, Need
<1>8. Distance(hwpos, swhead)' = Distance(hwpos, swhead) + Need(f)
  <2>1. TypeOK' /\ DeviceInside'
    BY FillInv DEF IInv
  <2>2. Distance(hwpos, swhead)' = Pos(swhead)' - Pos(hwpos)'
    <3>1. /\ swhead' \in Slot /\ swtail' \in Slot /\ hwpos' \in Slot
          /\ Distance(swtail', hwpos') <= Distance(swtail', swhead')
      BY <2>1 DEF TypeOK, DeviceInside, Pos, Distance
    <3>2. Distance(hwpos', swhead') = Distance(swtail', swhead') - Distance(swtail', hwpos')
      BY <3>1, SeenFrom
    <3>3. QED
      BY <3>2 DEF Pos, Distance
  <2>3. /\ swhead \in Slot /\ swtail \in Slot /\ hwpos \in Slot
        /\ Pos(swhead) \in 0..(Size - 1) /\ Pos(hwpos) \in 0..(Size - 1)
    BY <1>1, Indices, PosType
  <2>4. Distance(swtail, swhead') = Pos(swhead) + Descs(f)
    <3>1. Descs(f) \in 0..(Size - 1) /\ Pos(swhead) + Descs(f) < Size
      BY <1>2, <2>3, SizeAssumption
    <3>2. QED
      BY <1>3, <2>3, <3>1, ForwardSeen DEF FromHead, Pos
  <2>5. Pos(swhead)' = Pos(swhead) + Descs(f) /\ Pos(hwpos)' = Pos(hwpos)
    BY <1>3, <2>4 DEF Pos, Distance
  <2>6. QED
    BY <1>1, <1>4, <2>2, <2>3, <2>5, Counts
<1>9. OnRing(Distance(hwpos, swhead))' = [OnRing(Distance(hwpos, swhead)) EXCEPT ![0] = @ + XmitBar.skb.need]
  BY <1>5, <1>8 DEF OnRing
<1>10. OnRing(TRUE)' = [OnRing(TRUE) EXCEPT ![0] = NULL # 0]
  <2>1. (NULL # 0) = TRUE
    BY NullAssumption
  <2>2. OnRing(TRUE)' = [OnRing(TRUE) EXCEPT ![0] = TRUE]
    BY DEF OnRing
  <2>3. QED
    BY <2>1, <2>2
<1>11. Q!XmitFill
  BY <1>3, <1>5, <1>6, <1>7, <1>9, <1>10 DEF Q!XmitFill, Q!Leave, Q!IsCopy, OnRing
<1>12. QED
  BY <1>11 DEF Q!Next
\* A frame is given up.
LEMMA FailImplements ==
  ASSUME NoGso, NoCopies, IInv, XmitFail
  PROVE  Q!Next
<1>1. xmit # NULL /\ xmit.pc = "fill" /\ TypeOK
  BY DEF XmitFail, IInv
<1>2. Fits /\ ~xmit.skb.copy
  BY <1>1, PlainFrame, CallIs DEF NoCopies
<1>3. FailsAt(xmit.skb) # {} /\ DmaErrors
  BY <1>2 DEF XmitFail, FailsAt
<1>4. /\ xmit' = NULL /\ stopped' = (stopped \/ TRUE)
      /\ UNCHANGED <<swhead, swtail, requeued, comp, irq, hwpos>>
  BY <1>2 DEF XmitFail
<1>5. XmitBar # NULL /\ XmitBar.pc = "fill" /\ XmitBar.ring = 0 /\ XmitBar.first = 0
  BY <1>1, CallIs
<1>6. XmitBar' = NULL
  BY <1>4 DEF XmitBar
<1>7. UNCHANGED <<Distance(hwpos, swhead), Distance(swtail, hwpos), CompBar, RetryBar>>
  BY <1>4 DEF Distance, CompBar, RetryBar, SkbBar, Need
<1>8. Q!XmitFail
  BY <1>3, <1>4, <1>5, <1>6, <1>7 DEF Q!XmitFail, Q!Leave, Q!IsCopy, Q!rings, OnRing
<1>9. QED
  BY <1>8 DEF Q!Next

\* The progress of a poll is not NULL, here and there.
LEMMA PollBar ==
  ASSUME NEW n \in Nat, NEW a \in Nat, NEW at \in Pc
  PROVE  /\ [pc |-> at, n |-> n] # NULL /\ [pc |-> at, n |-> n, avail |-> a] # NULL
         /\ [pc |-> at, ring |-> 0, n |-> n, total |-> 0] # NULL
         /\ [pc |-> at, ring |-> 0, total |-> n] # NULL
         /\ [pc |-> at, ring |-> 0, total |-> n, avail |-> a] # NULL
<1>1. /\ [pc |-> at, n |-> n] \in [pc : Pc, n : Nat]
      /\ [pc |-> at, n |-> n, avail |-> a] \in [pc : Pc, n : Nat, avail : Nat]
      /\ [pc |-> at, ring |-> 0, n |-> n, total |-> 0] \in [pc : Pc, ring : {0}, n : Nat, total : Nat]
      /\ [pc |-> at, ring |-> 0, total |-> n] \in [pc : Pc, ring : {0}, total : Nat]
      /\ [pc |-> at, ring |-> 0, total |-> n, avail |-> a] \in [pc : Pc, ring : {0}, total : Nat, avail : Nat]
  OBVIOUS
<1>2. QED
  BY <1>1, NullApart

\* The progress of a poll, as TxQueue sees it.
LEMMA PollIs ==
  ASSUME TypeOK, comp # NULL
  PROVE  /\ comp.n \in Nat /\ CompBar # NULL
         /\ comp.pc = "release" => CompBar = [pc |-> "release", ring |-> 0, n |-> comp.n, total |-> 0]
         /\ comp.pc \in {"avail", "next"} => CompBar = [pc |-> comp.pc, ring |-> 0, total |-> comp.n]
         /\ comp.pc = "wake" =>
              comp.avail \in Nat /\ CompBar = [pc |-> "wake", ring |-> 0, total |-> comp.n, avail |-> comp.avail]
<1>1. \/ comp \in [pc : {"release", "avail", "next"}, n : Slot]
      \/ comp \in [pc : {"wake"}, n : Slot, avail : Slot]
  BY DEF TypeOK
<1>2. comp.n \in Nat /\ (comp.pc = "wake" => comp.avail \in Nat)
  BY <1>1, SizeAssumption DEF Slot
<1>3. comp.pc \in {"release", "avail", "next", "wake"}
  BY <1>1
<1>4. comp.pc = "release" => CompBar = [pc |-> "release", ring |-> 0, n |-> comp.n, total |-> 0]
  BY DEF CompBar
<1>5. comp.pc \in {"avail", "next"} => CompBar = [pc |-> comp.pc, ring |-> 0, total |-> comp.n]
  BY DEF CompBar
<1>6. comp.pc = "wake" => CompBar = [pc |-> "wake", ring |-> 0, total |-> comp.n, avail |-> comp.avail]
  BY DEF CompBar
<1>7. CompBar # NULL
  BY <1>2, <1>3, <1>4, <1>5, <1>6, PollBar DEF Pc
<1>8. QED
  BY <1>2, <1>4, <1>5, <1>6, <1>7

\* wil_tx_complete begins: it finds the last descriptor of all if the device is
\* done with all.
LEMMA ScanImplements ==
  ASSUME IInv, CompScan
  PROVE  Q!Next
<1> DEFINE done == {k \in 0..(Used - 1) : va[FromTail(k)].du}
           n == IF done = {} THEN 0 ELSE Max(done)
           sent == Pos(hwpos)
<1>1. /\ comp = NULL /\ irq /\ irq' = FALSE /\ comp' = [pc |-> "release", n |-> n]
      /\ UNCHANGED <<swhead, swtail, xmit, requeued, stopped, hwpos>>
  BY DEF CompScan, ring
<1>2. /\ swhead \in Slot /\ swtail \in Slot /\ hwpos \in Slot /\ TypeOK /\ DeviceInside
      /\ Used = Pos(swhead) /\ Pos(swhead) \in 0..(Size - 1) /\ sent \in 0..(Size - 1)
  BY Indices, PosType DEF IInv
<1>3. ASSUME NEW k \in 0..(Used - 1)
      PROVE  k \in 0..(Size - 1) /\ k < Pos(swhead) /\ FromTail(k) \in Slot /\ Pos(FromTail(k)) = k
  <2>1. k \in 0..(Size - 1) /\ k < Pos(swhead)
    BY <1>2, SizeAssumption
  <2>2. QED
    BY <1>2, <2>1, Forward DEF FromTail, Pos
<1>4. ASSUME NEW k \in done PROVE k < sent /\ k \in 0..(Size - 1)
  <2>1. k \in 0..(Used - 1) /\ va[FromTail(k)].du
    OBVIOUS
  <2>2. ~(sent <= k)
    BY <1>3, <2>1 DEF IInv, NotDone
  <2>3. QED
    BY <1>2, <1>3, <2>1, <2>2
<1>5. done # {} => Max(done) \in done
  <2>1. done \in SUBSET (0..(Size - 1)) /\ Size - 1 \in Nat
    BY <1>4, SizeAssumption
  <2> HIDE DEF done
  <2>2. QED
    BY <2>1, GreatestNat
<1>6. n \in 0..(sent - (IF sent > 0 THEN 1 ELSE 0))
  <2>1. CASE done = {}
    BY <1>2, <2>1
  <2>2. CASE done # {}
    <3>1. Max(done) < sent /\ Max(done) \in 0..(Size - 1)
      BY <1>4, <1>5, <2>2
    <3>2. QED
      BY <1>2, <2>2, <3>1
  <2>3. QED
    BY <2>1, <2>2
<1>7. ASSUME Pos(swhead) - sent = 0, sent > 0 PROVE n = sent - 1
  <2>1. sent - 1 \in 0..(Used - 1) /\ Pos(swhead) = sent
    BY <1>2, <1>7
  <2>2. PICK s \in Slot : s = FromTail(sent - 1) /\ Pos(s) = sent - 1
    BY <1>3, <2>1
  <2>3. Pos(s) + 1 = Pos(swhead) /\ Pos(s) < Pos(hwpos)
    BY <1>2, <2>1, <2>2
  <2>4. va[s].du
    BY <2>3 DEF IInv, Ends
  <2>5. sent - 1 \in done
    BY <2>1, <2>2, <2>4
  <2>6. Max(done) \in done /\ \A k \in done : k <= sent - 1
    <3>1. Max(done) \in done
      BY <1>5, <2>5
    <3>2. \A k \in done : k <= sent - 1
      BY <1>2, <1>4
    <3>3. QED
      BY <3>1, <3>2
  <2>7. Max(done) >= sent - 1
    <3>1. \E x \in done : \A y \in done : x >= y
      BY <2>5, <2>6, <1>2, <1>4
    <3>2. QED
      BY <2>5, <3>1 DEF Max
  <2>8. QED
    BY <1>2, <1>4, <2>5, <2>6, <2>7
<1> HIDE DEF n, done
<1>8. CompBar = NULL /\ CompBar' = [pc |-> "release", ring |-> 0, n |-> n, total |-> 0]
  <2>1. n \in Nat
    BY <1>2, <1>6
  <2>2. comp' # NULL
    BY <1>1, <2>1, PollBar DEF Pc
  <2>3. QED
    BY <1>1, <2>2 DEF CompBar
<1>9. Q!Scan(0, 0)
  <2>1. Distance(hwpos, swhead) = Pos(swhead) - sent /\ Distance(swtail, hwpos) = sent
    BY <1>2, Counts
  <2>2. /\ n \in 0..(OnRing(Distance(swtail, hwpos))[0] - (IF OnRing(Distance(swtail, hwpos))[0] > 0 THEN 1 ELSE 0))
        /\ OnRing(Distance(hwpos, swhead))[0] = 0 /\ OnRing(Distance(swtail, hwpos))[0] > 0
             => n = OnRing(Distance(swtail, hwpos))[0] - 1
    BY <1>6, <1>7, <2>1 DEF OnRing
  <2>3. QED
    BY <1>8, <2>2 DEF Q!Scan
<1>10. UNCHANGED <<Distance(hwpos, swhead), Distance(swtail, hwpos), XmitBar, RetryBar>>
  BY <1>1 DEF Distance, XmitBar, RetryBar, SkbBar, Need
<1>11. Q!PollBegin
  BY <1>1, <1>8, <1>9, <1>10, OneRing DEF Q!PollBegin, Q!rings, OnRing
<1>12. QED
  BY <1>11 DEF Q!Next
\* The second loop reaches what the first one found: no descriptor before it ends a
\* packet and is not done.
LEMMA ReleaseImplements ==
  ASSUME IInv, CompRelease
  PROVE  Q!Next
<1>1. comp # NULL /\ comp.pc = "release" /\ TypeOK /\ DeviceInside
  BY DEF CompRelease, IInv
<1>2. /\ swhead \in Slot /\ swtail \in Slot /\ hwpos \in Slot
      /\ Pos(swhead) \in 0..(Size - 1) /\ Pos(hwpos) \in 0..(Size - 1) /\ Pos(hwpos) <= Pos(swhead)
  BY <1>1, Indices, PosType DEF DeviceInside
<1>3. comp.n \in Nat /\ comp.n <= Pos(hwpos)
  BY <1>1, PollIs DEF IInv, ScanBehind
<1> DEFINE n == comp.n
<1>4. Releasable(n) = n
  <2>1. ASSUME NEW k \in 0..(n - 1) PROVE ~(va[FromTail(k)].eop /\ ~va[FromTail(k)].du)
    <3>1. k \in 0..(Size - 1) /\ k < Pos(hwpos)
      BY <1>2, <1>3, SizeAssumption
    <3>2. FromTail(k) \in Slot /\ Pos(FromTail(k)) = k
      BY <1>2, <3>1, Forward DEF FromTail, Pos
    <3>3. QED
      BY <3>1, <3>2 DEF IInv, Ends
  <2>2. \A m \in 0..n : m = n \/ m \in 0..(n - 1)
    BY <1>3
  <2>3. n \in 0..n
    BY <1>3
  <2>4. QED
    BY <2>1, <2>2, <2>3 DEF Releasable
<1>5. /\ swtail' = FromTail(n) /\ comp' = [pc |-> "avail", n |-> n]
      /\ UNCHANGED <<swhead, xmit, requeued, stopped, irq, hwpos>>
  BY <1>4 DEF CompRelease
<1>6. /\ CompBar # NULL /\ CompBar.pc = "release" /\ CompBar.ring = 0 /\ CompBar.n = n
      /\ CompBar.total = 0
  BY <1>1, PollIs
<1>7. CompBar' = [pc |-> "avail", ring |-> 0, total |-> 0 + n]
  <2>1. comp' # NULL /\ comp'.pc = "avail" /\ comp'.n = n
    BY <1>3, <1>5, PollBar DEF Pc
  <2>2. 0 + n = n
    BY <1>3
  <2>3. QED
    BY <2>1, <2>2 DEF CompBar
<1>8. Distance(swtail, hwpos)' = Distance(swtail, hwpos) - n
  <2>1. n \in 0..(Size - 1)
    BY <1>2, <1>3, SizeAssumption
  <2>2. swtail' \in Slot /\ Distance(swtail, swtail') = n
    BY <1>2, <1>5, <2>1, Forward DEF FromTail
  <2>3. Distance(swtail', hwpos) = Distance(swtail, hwpos) - n
    BY <1>2, <1>3, <2>2, SeenFrom DEF Pos
  <2>4. QED
    BY <1>5, <2>3 DEF Distance
<1>9. OnRing(Distance(swtail, hwpos))' = [OnRing(Distance(swtail, hwpos)) EXCEPT ![0] = @ - n]
  BY <1>8 DEF OnRing
<1>10. UNCHANGED <<Distance(hwpos, swhead), XmitBar, RetryBar>>
  BY <1>5 DEF Distance, XmitBar, RetryBar, SkbBar, Need
<1>11. Q!CompRelease
  BY <1>5, <1>6, <1>7, <1>9, <1>10 DEF Q!CompRelease, OnRing
<1>12. QED
  BY <1>11 DEF Q!Next

\* The rest of wil_tx_complete.
LEMMA CompImplements ==
  ASSUME IInv, CompAvail \/ CompWake \/ CompEnd
  PROVE  Q!Next
<1>1. comp # NULL /\ TypeOK /\ DeviceInside /\ comp.n \in Nat
      /\ UNCHANGED <<swhead, swtail, xmit, requeued, hwpos>>
  BY PollIs DEF CompAvail, CompWake, CompEnd, IInv, ring
<1>2. UNCHANGED <<Distance(hwpos, swhead), Distance(swtail, hwpos), XmitBar, RetryBar>>
  BY <1>1 DEF Distance, XmitBar, RetryBar, SkbBar, Need
<1>3. CompBar # NULL
  BY <1>1, PollIs
<1>4. CASE CompAvail
  <2>1. /\ comp.pc = "avail" /\ comp' = [pc |-> "wake", n |-> comp.n, avail |-> wil_vring_avail_tx]
        /\ UNCHANGED <<stopped, irq>>
    BY <1>4 DEF CompAvail
  <2>2. wil_vring_avail_tx \in Nat /\ Q!Avail(0) = wil_vring_avail_tx
    BY <1>1, Indices, Counts, SizeAssumption DEF Slot
  <2>3. comp' # NULL /\ comp'.pc = "wake" /\ comp'.n = comp.n /\ comp'.avail = Q!Avail(0)
    BY <1>1, <2>1, <2>2, PollBar DEF Pc
  <2>4. CompBar' = [pc |-> "wake", ring |-> 0, total |-> comp.n, avail |-> Q!Avail(0)]
    BY <2>3 DEF CompBar
  <2>5. CompBar.pc = "avail" /\ CompBar.ring = 0 /\ CompBar.total = comp.n
    BY <1>1, <2>1, PollIs
  <2>6. Q!CompAvail
    BY <1>2, <1>3, <2>1, <2>4, <2>5 DEF Q!CompAvail, Q!rings, OnRing
  <2>7. QED
    BY <2>6 DEF Q!Next
<1>5. CASE CompWake
  <2>1. /\ comp.pc = "wake" /\ comp' = [pc |-> "next", n |-> comp.n]
        /\ stopped' = (stopped /\ comp.avail <= WakeAbove) /\ UNCHANGED irq
    BY <1>5 DEF CompWake
  <2>2. comp' # NULL /\ comp'.pc = "next" /\ comp'.n = comp.n
    BY <1>1, <2>1, PollBar DEF Pc
  <2>3. CompBar' = [pc |-> "next", ring |-> 0, total |-> comp.n]
    BY <2>2 DEF CompBar
  <2>4. CompBar.pc = "wake" /\ CompBar.ring = 0 /\ CompBar.total = comp.n /\ CompBar.avail = comp.avail
    BY <1>1, <2>1, PollIs
  <2>5. Q!CompWake
    BY <1>2, <1>3, <2>1, <2>3, <2>4 DEF Q!CompWake, Q!rings, OnRing
  <2>6. QED
    BY <2>5 DEF Q!Next
<1>6. CASE CompEnd
  <2>1. comp.pc = "next" /\ comp' = NULL /\ irq' = (irq \/ comp.n > 1) /\ UNCHANGED stopped
    BY <1>6 DEF CompEnd
  <2>2. CompBar' = NULL
    BY <2>1 DEF CompBar
  <2>3. CompBar.pc = "next" /\ CompBar.ring = 0 /\ CompBar.total = comp.n
    BY <1>1, <2>1, PollIs
  <2>4. Q!CompNext
    BY <1>2, <1>3, <2>1, <2>2, <2>3, OneRing DEF Q!CompNext, Q!rings, OnRing
  <2>5. QED
    BY <2>4 DEF Q!Next
<1>7. QED
  BY <1>4, <1>5, <1>6

\* The device is done with a descriptor; the last one of all ends a packet.
LEMMA TransmitImplements ==
  ASSUME IInv, HwTransmit
  PROVE  Q!Next
<1>1. /\ irq' = (irq \/ (va[hwpos].eop /\ ~va[hwpos].hdr)) /\ irq \in BOOLEAN
      /\ hwpos # swhead /\ hwpos' = (hwpos + 1) % Size
      /\ UNCHANGED <<swhead, swtail, xmit, requeued, comp, stopped>>
  BY DEF HwTransmit, IInv, TypeOK
<1>2. /\ swhead \in Slot /\ swtail \in Slot /\ hwpos \in Slot /\ TypeOK /\ DeviceInside
      /\ Pos(swhead) \in 0..(Size - 1) /\ Pos(hwpos) \in 0..(Size - 1)
  BY Indices, PosType DEF IInv
<1>3. Pos(hwpos) < Pos(swhead)
  <2>1. Pos(hwpos) # Pos(swhead)
    BY <1>1, <1>2, DistanceOne DEF Pos
  <2>2. QED
    BY <1>2, <2>1 DEF DeviceInside
<1>4. hwpos' \in Slot /\ Distance(swtail, hwpos') = Pos(hwpos) + 1
  <2>1. 1 \in 0..(Size - 1) /\ Pos(hwpos) + 1 < Size
    BY <1>2, <1>3, SizeAssumption
  <2>2. QED
    BY <1>1, <1>2, <2>1, ForwardSeen DEF Pos
<1>5. Distance(hwpos', swhead) = Pos(swhead) - (Pos(hwpos) + 1)
  BY <1>2, <1>3, <1>4, SeenFrom DEF Pos
<1>6. /\ Distance(swtail, hwpos)' = Pos(hwpos) + 1
      /\ Distance(hwpos, swhead)' = Pos(swhead) - (Pos(hwpos) + 1)
      /\ Distance(swtail, hwpos) = Pos(hwpos)
      /\ Distance(hwpos, swhead) = Pos(swhead) - Pos(hwpos)
  <2>1. Distance(swtail, hwpos)' = Distance(swtail, hwpos') /\ Distance(hwpos, swhead)' = Distance(hwpos', swhead)
    BY <1>1 DEF Distance
  <2>2. QED
    BY <1>2, <1>4, <1>5, <2>1, Counts
<1> DEFINE todo == OnRing(Distance(hwpos, swhead))
           sent == OnRing(Distance(swtail, hwpos))
<1>7. /\ todo[0] = Pos(swhead) - Pos(hwpos) /\ todo'[0] = Pos(swhead) - (Pos(hwpos) + 1)
      /\ todo' = [todo EXCEPT ![0] = @ - 1] /\ sent' = [sent EXCEPT ![0] = @ + 1]
  <2>1. Distance(hwpos, swhead)' = Distance(hwpos, swhead) - 1 /\ Distance(swtail, hwpos)' = Distance(swtail, hwpos) + 1
    BY <1>2, <1>6
  <2>2. QED
    BY <1>6, <2>1 DEF OnRing
<1>8. todo[0] > 0
  BY <1>2, <1>3, <1>7
<1>9. todo'[0] = 0 => irq'
  <2>1. SUFFICES ASSUME todo'[0] = 0 PROVE irq'
    OBVIOUS
  <2>2. Pos(hwpos) + 1 = Pos(swhead)
    BY <1>2, <1>7, <2>1
  <2>3. va[hwpos].eop /\ ~va[hwpos].hdr
    BY <1>2, <2>2 DEF IInv, Ends
  <2>4. QED
    BY <1>1, <2>3
<1>10. irq' \in {irq, TRUE}
  BY <1>1
<1>11. UNCHANGED <<XmitBar, RetryBar, CompBar>>
  BY <1>1 DEF XmitBar, RetryBar, CompBar, SkbBar, Need
<1>12. OnRing(TRUE)[0] /\ UNCHANGED <<OnRing(Peer), OnRing(TRUE)>>
  BY DEF OnRing
<1> HIDE DEF todo, sent
<1>13. Q!HwTransmit(0)
  BY <1>1, <1>7, <1>8, <1>9, <1>10, <1>11, <1>12 DEF Q!HwTransmit, todo, sent
<1>14. QED
  BY <1>13, OneRing DEF Q!Next

\* The ring begins as TxQueue does.
LEMMA InitImplements == Init => Q!Init
<1> SUFFICES ASSUME Init PROVE Q!Init
  OBVIOUS
<1>1. Distance(hwpos, swhead) = 0 /\ Distance(swtail, hwpos) = 0
  BY InitInv, Indices, DistanceOne DEF Init, IInv
<1>2. XmitBar = NULL /\ RetryBar = NULL /\ CompBar = NULL /\ stopped = FALSE /\ irq = FALSE
  BY DEF Init, XmitBar, RetryBar, CompBar
<1>3. OnRing(Peer) \in [Q!Ring -> {Peer} \cup {NULL}]
  BY OneRing DEF OnRing
<1>4. QED
  BY <1>1, <1>2, <1>3, OneRing DEF Q!Init, OnRing

\* A step of the ring is a step of TxQueue.
LEMMA StepImplements ==
  ASSUME NoGso, NoCopies, IInv, [Next]_vars
  PROVE  [Q!Next]_(Q!vars)
<1>1. CASE \E f \in SkbShapes : XmitBegin(f)
  BY <1>1, BeginImplements
<1>2. CASE XmitCheck \/ XmitFill \/ XmitFail
  BY <1>2, CheckImplements, FillImplements, FailImplements
<1>3. CASE CompScan \/ CompRelease \/ CompAvail \/ CompWake \/ CompEnd
  BY <1>3, ScanImplements, ReleaseImplements, CompImplements
<1>4. CASE HwTransmit
  BY <1>4, TransmitImplements
<1>5. CASE UNCHANGED vars
  BY <1>5 DEF vars, Q!vars, Distance, OnRing, XmitBar, RetryBar, CompBar, SkbBar, Need
<1>6. QED
  BY <1>1, <1>2, <1>3, <1>4, <1>5 DEF Next

\* What TxQueue says of a ring by two counts is what wil_tx_vring, wil_tx_complete
\* and the device do with indices and status bits (txrx.c:1057, 1244), for every
\* size of the ring, if no frame is a GSO frame or a copy.
THEOREM RingImplements ==
  ASSUME NoGso, NoCopies
  PROVE  Spec => ImplementsQueue
<1>1. Init => Q!Init
  BY InitImplements
<1>2. IInv /\ [Next]_vars => [Q!Next]_(Q!vars)
  BY StepImplements
<1>3. QED
  BY <1>1, <1>2, Inductive, PTL DEF Spec, ImplementsQueue, Q!Spec

-----------------------------------------------------------------------------
(* FlattenSeq, for sequences of every length.  It is a recursive function, so *)
(* that what it yields takes an induction: over the least index that is wrong. *)

\* fl is what FlattenSeq computes for the first n members of ss.
IsFlat(fl, ss, n) ==
  fl = [i \in 1..n |-> IF i = 1 THEN ss[i] ELSE fl[i - 1] \o ss[i]]

\* ss and tt begin with the same n members.
Agree(ss, tt, n) == \A i \in 1..n : ss[i] = tt[i]

LEMMA FlatExists ==
  ASSUME NEW S, NEW ss \in Seq(Seq(S)), NEW n \in 0..Len(ss)
  PROVE  \E fl \in [1..n -> Seq(S)] : IsFlat(fl, ss, n)
<1> DEFINE Good(m) == \E fl \in [1..m -> Seq(S)] : IsFlat(fl, ss, m)
           Bad == {m \in 0..Len(ss) : ~Good(m)}
<1>1. Good(0)
  <2> DEFINE fl == [i \in 1..0 |-> IF i = 1 THEN ss[i] ELSE <<>>]
  <2>1. fl \in [1..0 -> Seq(S)]
    OBVIOUS
  <2>2. fl = [i \in 1..0 |-> IF i = 1 THEN ss[i] ELSE fl[i - 1] \o ss[i]]
    OBVIOUS
  <2> HIDE DEF fl
  <2>3. QED
    BY <2>1, <2>2 DEF IsFlat
<1>2. ASSUME NEW m \in 0..Len(ss), m < Len(ss), Good(m) PROVE Good(m + 1)
  <2>1. PICK fl \in [1..m -> Seq(S)] : IsFlat(fl, ss, m)
    BY <1>2
  <2> DEFINE new == IF m = 0 THEN ss[1] ELSE fl[m] \o ss[m + 1]
             gl == [i \in 1..(m + 1) |-> IF i = m + 1 THEN new ELSE fl[i]]
  <2>2. ss[m + 1] \in Seq(S)
    BY <1>2
  <2>3. new \in Seq(S)
    <3>1. CASE m = 0
      BY <2>2, <3>1
    <3>2. CASE m # 0
      <4>1. fl[m] \in Seq(S)
        BY <3>2
      <4>2. QED
        BY <4>1, <2>2, <3>2
    <3>3. QED
      BY <3>1, <3>2
  <2>4. gl \in [1..(m + 1) -> Seq(S)]
    BY <2>3
  <2>5. ASSUME NEW i \in 1..(m + 1)
        PROVE  gl[i] = IF i = 1 THEN ss[i] ELSE gl[i - 1] \o ss[i]
    <3>1. CASE i = m + 1
      BY <3>1
    <3>2. CASE i # m + 1
      <4>1. fl[i] = IF i = 1 THEN ss[i] ELSE fl[i - 1] \o ss[i]
        <5>1. i \in 1..m
          BY <3>2
        <5>2. QED
          BY <5>1, <2>1 DEF IsFlat
      <4>2. gl[i] = fl[i] /\ (i # 1 => gl[i - 1] = fl[i - 1])
        BY <3>2
      <4>3. QED
        BY <4>1, <4>2
    <3>3. QED
      BY <3>1, <3>2
  <2>6. IsFlat(gl, ss, m + 1)
    <3> HIDE DEF gl
    <3>1. QED
      BY <2>4, <2>5 DEF IsFlat
  <2>7. QED
    BY <2>4, <2>6
<1>3. Bad = {}
  <2>1. SUFFICES ASSUME Bad # {} PROVE FALSE
    OBVIOUS
  <2>2. Bad \in SUBSET Nat
    OBVIOUS
  <2>3. PICK m \in Bad : \A k \in Bad : m <= k
    <3> HIDE DEF Bad
    <3>1. QED
      BY <2>1, <2>2, LeastNat
  <2>4. m \in 0..Len(ss) /\ ~Good(m)
    OBVIOUS
  <2> HIDE DEF Good
  <2>5. m # 0
    BY <2>4, <1>1
  <2>6. m - 1 \in 0..Len(ss) /\ m - 1 < Len(ss) /\ m - 1 < m
    BY <2>4, <2>5
  <2>7. Good(m - 1)
    BY <2>3, <2>6
  <2>8. Good((m - 1) + 1)
    BY <2>6, <2>7, <1>2
  <2>9. QED
    BY <2>4, <2>8
<1>4. QED
  BY <1>3

LEMMA FlatAgree ==
  ASSUME NEW ss, NEW tt, NEW n \in Nat, NEW m \in Nat, n <= m,
         Agree(ss, tt, n),
         NEW fl, IsFlat(fl, ss, n), NEW gl, IsFlat(gl, tt, m)
  PROVE  Agree(fl, gl, n)
<1> DEFINE Bad == {i \in 1..n : fl[i] # gl[i]}
<1>1. SUFFICES ASSUME Bad # {} PROVE FALSE
  BY DEF Agree
<1>2. Bad \in SUBSET Nat
  OBVIOUS
<1>3. PICK i \in Bad : \A k \in Bad : i <= k
  <2> HIDE DEF Bad
  <2>1. QED
    BY <1>1, <1>2, LeastNat
<1>4. i \in 1..n /\ i \in 1..m /\ fl[i] # gl[i]
  OBVIOUS
<1>5. fl[i] = IF i = 1 THEN ss[i] ELSE fl[i - 1] \o ss[i]
  BY <1>4 DEF IsFlat
<1>6. gl[i] = IF i = 1 THEN tt[i] ELSE gl[i - 1] \o tt[i]
  BY <1>4 DEF IsFlat
<1>7. i # 1 => fl[i - 1] = gl[i - 1]
  BY <1>3, <1>4
<1>8. QED
  BY <1>4, <1>5, <1>6, <1>7 DEF Agree

\* What FlattenSeq computes is the last of these.
LEMMA FlattenIs ==
  ASSUME NEW S, NEW ss \in Seq(Seq(S)), Len(ss) # 0,
         NEW fl, IsFlat(fl, ss, Len(ss))
  PROVE  FlattenSeq(ss) = fl[Len(ss)]
<1> DEFINE gl == CHOOSE g : IsFlat(g, ss, Len(ss))
<1>1. IsFlat(gl, ss, Len(ss))
  OBVIOUS
<1>2. FlattenSeq(ss) = gl[Len(ss)]
  BY DEF FlattenSeq, IsFlat
<1> HIDE DEF gl
<1>3. Len(ss) \in Nat /\ Len(ss) \in 1..Len(ss) /\ Agree(ss, ss, Len(ss))
  BY DEF Agree
<1>4. Agree(fl, gl, Len(ss))
  BY <1>1, <1>3, FlatAgree
<1>5. QED
  BY <1>2, <1>3, <1>4 DEF Agree

LEMMA FlattenEmpty == FlattenSeq(<<>>) = <<>>
  BY DEF FlattenSeq

LEMMA FlattenType ==
  ASSUME NEW S, NEW ss \in Seq(Seq(S))
  PROVE  FlattenSeq(ss) \in Seq(S)
<1>1. CASE Len(ss) = 0
  <2>1. ss = <<>>
    BY <1>1
  <2>2. QED
    BY <2>1, FlattenEmpty, EmptySeq
<1>2. CASE Len(ss) # 0
  <2>1. Len(ss) \in 0..Len(ss) /\ Len(ss) \in 1..Len(ss)
    BY <1>2
  <2>2. PICK fl \in [1..Len(ss) -> Seq(S)] : IsFlat(fl, ss, Len(ss))
    BY <2>1, FlatExists
  <2>3. QED
    BY <1>2, <2>1, <2>2, FlattenIs
<1>3. QED
  BY <1>1, <1>2

\* One member more is appended to what was there.
LEMMA FlattenMore ==
  ASSUME NEW S, NEW ss \in Seq(Seq(S)), NEW tt \in Seq(Seq(S)),
         Len(tt) = Len(ss) + 1, \A i \in 1..Len(ss) : tt[i] = ss[i]
  PROVE  FlattenSeq(tt) = FlattenSeq(ss) \o tt[Len(tt)]
<1> DEFINE n == Len(ss)
<1>0. n \in Nat /\ n \in 0..Len(ss) /\ n + 1 \in 0..Len(tt) /\ tt[n + 1] \in Seq(S)
      /\ n + 1 \in 1..(n + 1) /\ n <= n + 1 /\ Len(tt) = n + 1 /\ Len(ss) = n
  OBVIOUS
<1> HIDE DEF n
<1>1. PICK gl \in [1..(n + 1) -> Seq(S)] : IsFlat(gl, tt, n + 1)
  BY <1>0, FlatExists
<1>2. FlattenSeq(tt) = gl[n + 1]
  BY <1>0, <1>1, FlattenIs
<1>3. gl[n + 1] = IF n + 1 = 1 THEN tt[n + 1] ELSE gl[n] \o tt[n + 1]
  <2>1. gl[n + 1] = IF n + 1 = 1 THEN tt[n + 1] ELSE gl[(n + 1) - 1] \o tt[n + 1]
    BY <1>0, <1>1 DEF IsFlat
  <2>2. (n + 1) - 1 = n
    BY <1>0
  <2>3. QED
    BY <2>1, <2>2
<1>4. CASE n = 0
  <2>1. ss = <<>>
    BY <1>4, <1>0
  <2>2. <<>> \o tt[n + 1] = tt[n + 1]
    BY <1>0, ConcatEmptySeq
  <2>3. QED
    BY <2>1, <2>2, <1>2, <1>3, <1>4, <1>0, FlattenEmpty
<1>5. CASE n # 0
  <2>1. PICK fl \in [1..n -> Seq(S)] : IsFlat(fl, ss, n)
    BY <1>0, FlatExists
  <2>2. FlattenSeq(ss) = fl[n]
    BY <1>0, <1>5, <2>1, FlattenIs
  <2>3. Agree(ss, tt, n)
    BY <1>0 DEF Agree
  <2>4. n \in 1..n /\ n + 1 \in Nat
    BY <1>0, <1>5
  <2>5. n \in Nat /\ n + 1 \in Nat /\ n <= n + 1
    BY <1>0
  <2>6. Agree(fl, gl, n)
    BY <1>1, <2>1, <2>3, <2>5, FlatAgree
  <2>7. fl[n] = gl[n]
    BY <2>4, <2>6 DEF Agree
  <2>8. n + 1 # 1 /\ Len(tt) = n + 1
    BY <1>0, <1>5
  <2>9. FlattenSeq(tt) = gl[n] \o tt[n + 1]
    BY <1>2, <1>3, <2>8
  <2>10. QED
    BY <2>2, <2>7, <2>8, <2>9
<1>6. QED
  BY <1>4, <1>5

-----------------------------------------------------------------------------
(* How a GSO frame is cut (module Tso), for frames with any number of          *)
(* fragments of any sizes and any segment size, with a linear part that fits   *)
(* in a segment.                                                               *)

\* What wil_tx_vring_tso takes for granted of the linear part.
LinearFits == \A m \in Mss, n \in LinearLens : n <= m

\* The octets that the first n descriptors of ds cover, those of the linear part
\* and those of the first n fragments of fs.
Cover(ds, n) == FlattenSeq([i \in 1..n |-> Octets(ds[i].buf, ds[i].off, ds[i].len)])

FragCover(fs, n) == FlattenSeq([i \in 1..n |-> Octets(i, 0, fs[i])])

LinearOctets == Octets("linear", 0, skb.lin)

\* The types of the frame and the descriptors.
OctetBuf == {"hdr", "linear"} \cup Nat

DescSet == [buf : OctetBuf, off : Nat, len : Nat, kind : 0..3, eop : BOOLEAN, cnt : Nat]

CutTypes ==
  /\ skb \in [mss : Mss, lin : LinearLens, frags : Frags]
  /\ descs \in Seq(DescSet)
  /\ TsoTypeOK

\* Descriptors are being filled.
Filling == pc \in {"linear", "frag", "chunk"}

\* Where the walk over the frame stands.
WalkPosition ==
  /\ pc \in {"start", "busy"} => descs = <<>>
  /\ pc \in {"start", "linear"} =>
       frag = 0 /\ sg_desc = 0 /\ sg_desc_cnt = 0 /\ first_chunk = 1
  /\ pc = "linear" => Len(descs) = 1 /\ rem_data = skb.mss /\ skb.lin > 0
  /\ Filling => Len(descs) >= 1 /\ rem_data \in 0..skb.mss
  /\ pc = "chunk" => frag >= 1 /\ len \in 0..skb.frags[frag]

\* What the descriptors cover, by where the walk stands.
CutSoFar ==
  /\ pc \in {"start", "busy", "linear"} => Cover(descs, Len(descs)) = <<>>
  /\ pc = "frag" => Cover(descs, Len(descs)) = LinearOctets \o FragCover(skb.frags, frag)
  /\ pc = "chunk" =>
       Cover(descs, Len(descs)) =
         (LinearOctets \o FragCover(skb.frags, frag - 1)) \o Octets(frag, 0, skb.frags[frag] - len)
  /\ pc = "done" => Cover(descs, Len(descs)) = Payload
  /\ pc = "dma_error" => IsPrefix(Cover(descs, Len(descs)), Payload)

\* rem_data is what the packet lacks, and packets end where it lacked nothing.
PacketEnds ==
  Filling =>
    /\ (Len(Cover(descs, Len(descs))) + rem_data) % skb.mss = 0
    /\ Len(descs) > 1 => (descs[Len(descs)].eop <=> rem_data = skb.mss)
    /\ \A i \in 2..(Len(descs) - 1) : descs[i].eop <=> Len(Cover(descs, i)) % skb.mss = 0

\* Descriptors i to j are a packet.
IsPacket(ds, i, j) ==
  i <= j /\ j <= Len(ds) /\ ds[j].eop /\ \A k \in i..(j - 1) : ~ds[k].eop

\* Descriptor i tells the size of the packet that it begins.
TellsSize(ds, i) ==
  \E j \in 1..Len(ds) :
    IsPacket(ds, i, j) /\ ds[i].cnt = j - i + 1 + (IF i = 2 THEN 1 ELSE 0)

\* sg_desc begins the packet that is being filled, and sg_desc_cnt and
\* first_chunk are the count it will be given.
OpenPacket ==
  IF sg_desc = 0
  THEN /\ rem_data = skb.mss /\ sg_desc_cnt = 0
       /\ descs[Len(descs)].eop
       /\ first_chunk = 1 <=> Len(descs) = 1
  ELSE /\ rem_data < skb.mss
       /\ sg_desc \in 2..Len(descs) /\ sg_desc_cnt = Len(descs) - sg_desc + 1
       /\ descs[sg_desc - 1].eop /\ \A k \in sg_desc..Len(descs) : ~descs[k].eop
       /\ first_chunk = 1 <=> sg_desc = 2

PacketCounts ==
  Filling =>
    /\ OpenPacket
    /\ descs[1].eop
    /\ \A i \in 1..Len(descs) : descs[i].kind # 3
    /\ \A i \in 2..Len(descs) : descs[i - 1].eop /\ i # sg_desc => TellsSize(descs, i)

TsoIInv ==
  /\ CutTypes /\ WalkPosition /\ CutSoFar /\ PacketEnds /\ PacketCounts
  /\ PacketsOfMss /\ CountsTrue

\* Sequences of octets.
Octet == OctetBuf \X Int

LEMMA OctetsType ==
  ASSUME NEW buf \in OctetBuf, NEW off \in Int, NEW n \in Nat
  PROVE  Octets(buf, off, n) \in Seq(Octet) /\ Len(Octets(buf, off, n)) = n
<1>1. Octets(buf, off, n) = [i \in 1..n |-> <<buf, off + i - 1>>]
  BY DEF Octets
<1>2. \A i \in 1..n : <<buf, off + i - 1>> \in Octet
  BY DEF Octet
<1>3. Octets(buf, off, n) \in [1..n -> Octet]
  BY <1>1, <1>2
<1>4. QED
  BY <1>3

LEMMA OctetsNone ==
  ASSUME NEW buf \in OctetBuf, NEW off \in Int
  PROVE  Octets(buf, off, 0) = <<>>
<1>1. Octets(buf, off, 0) \in Seq(Octet) /\ Len(Octets(buf, off, 0)) = 0
  BY OctetsType
<1>2. QED
  BY <1>1, EmptySeq

\* Adjoining octets of one buffer.
LEMMA OctetsSplit ==
  ASSUME NEW buf \in OctetBuf, NEW off \in Int, NEW m \in Nat, NEW n \in Nat
  PROVE  Octets(buf, off, m) \o Octets(buf, off + m, n) = Octets(buf, off, m + n)
<1> DEFINE s == Octets(buf, off, m)
           t == Octets(buf, off + m, n)
           u == Octets(buf, off, m + n)
<1>1. /\ s \in Seq(Octet) /\ Len(s) = m
      /\ t \in Seq(Octet) /\ Len(t) = n
      /\ u \in Seq(Octet) /\ Len(u) = m + n
  BY OctetsType
<1>2. ASSUME NEW i \in 1..(m + n) PROVE (s \o t)[i] = u[i]
  <2>1. u[i] = <<buf, off + i - 1>>
    BY DEF Octets
  <2>2. CASE i <= m
    <3>1. s[i] = <<buf, off + i - 1>>
      BY <2>2 DEF Octets
    <3>2. (s \o t)[i] = s[i]
      <4> HIDE DEF s, t
      <4>1. QED
        BY <1>1, <2>2, ConcatProperties
    <3>3. QED
      BY <2>1, <3>1, <3>2
  <2>3. CASE i > m
    <3>1. t[i - m] = <<buf, off + m + (i - m) - 1>>
      <4>1. i - m \in 1..n
        BY <2>3
      <4>2. QED
        BY <4>1 DEF Octets
    <3>2. off + m + (i - m) - 1 = off + i - 1
      BY <2>3
    <3>3. (s \o t)[i] = t[i - m]
      <4> HIDE DEF s, t
      <4>1. i \in 1..(Len(s) + Len(t)) /\ ~(i <= Len(s))
        BY <1>1, <2>3
      <4>2. (s \o t)[i] = t[i - Len(s)]
        BY <1>1, <4>1, ConcatProperties
      <4>3. QED
        BY <1>1, <4>2
    <3>4. QED
      BY <2>1, <3>1, <3>2, <3>3
  <2>4. i <= m \/ i > m
    OBVIOUS
  <2> HIDE DEF s, t, u
  <2>5. QED
    BY <2>2, <2>3, <2>4
<1> HIDE DEF s, t, u
<1>3. s \o t \in Seq(Octet) /\ Len(s \o t) = m + n
  BY <1>1, ConcatProperties
<1>4. s \o t = u
  BY <1>1, <1>2, <1>3, SeqEqual
<1>5. QED
  BY <1>4 DEF s, t, u

LEMMA CoverParts ==
  ASSUME NEW ds \in Seq(DescSet), NEW n \in 0..Len(ds)
  PROVE  LET parts == [i \in 1..n |-> Octets(ds[i].buf, ds[i].off, ds[i].len)]
         IN  parts \in Seq(Seq(Octet)) /\ Len(parts) = n
<1>1. \A i \in 1..n : Octets(ds[i].buf, ds[i].off, ds[i].len) \in Seq(Octet)
  <2>1. SUFFICES ASSUME NEW i \in 1..n
                 PROVE  Octets(ds[i].buf, ds[i].off, ds[i].len) \in Seq(Octet)
    OBVIOUS
  <2>2. ds[i] \in DescSet
    OBVIOUS
  <2>3. ds[i].buf \in OctetBuf /\ ds[i].off \in Int /\ ds[i].len \in Nat
    BY <2>2 DEF DescSet
  <2>4. QED
    BY <2>3, OctetsType
<1>2. n \in Nat
  OBVIOUS
<1>3. QED
  BY <1>1, <1>2

LEMMA CoverType ==
  ASSUME NEW ds \in Seq(DescSet), NEW n \in 0..Len(ds)
  PROVE  Cover(ds, n) \in Seq(Octet)
  BY CoverParts, FlattenType DEF Cover

LEMMA CoverNone ==
  ASSUME NEW ds
  PROVE  Cover(ds, 0) = <<>>
<1>1. [i \in 1..0 |-> Octets(ds[i].buf, ds[i].off, ds[i].len)] = <<>>
  OBVIOUS
<1>2. QED
  BY <1>1, FlattenEmpty DEF Cover

LEMMA CoverMore ==
  ASSUME NEW ds \in Seq(DescSet), NEW n \in 1..Len(ds)
  PROVE  /\ Cover(ds, n) = Cover(ds, n - 1) \o Octets(ds[n].buf, ds[n].off, ds[n].len)
         /\ Len(Cover(ds, n)) = Len(Cover(ds, n - 1)) + ds[n].len
<1> DEFINE s == [i \in 1..(n - 1) |-> Octets(ds[i].buf, ds[i].off, ds[i].len)]
           t == [i \in 1..n |-> Octets(ds[i].buf, ds[i].off, ds[i].len)]
           u == Octets(ds[n].buf, ds[n].off, ds[n].len)
<1>1. n \in 0..Len(ds) /\ n - 1 \in 0..Len(ds)
  OBVIOUS
<1>2. /\ s \in Seq(Seq(Octet)) /\ Len(s) = n - 1
      /\ t \in Seq(Seq(Octet)) /\ Len(t) = n
  BY <1>1, CoverParts
<1>3. \A i \in 1..(n - 1) : t[i] = s[i]
  OBVIOUS
<1>4. t[n] = u
  OBVIOUS
<1>5. Cover(ds, n - 1) = FlattenSeq(s) /\ Cover(ds, n) = FlattenSeq(t)
  BY DEF Cover
<1>6. ds[n] \in DescSet
  OBVIOUS
<1>7. ds[n].buf \in OctetBuf /\ ds[n].off \in Int /\ ds[n].len \in Nat
  BY <1>6 DEF DescSet
<1>8. u \in Seq(Octet) /\ Len(u) = ds[n].len
  BY <1>7, OctetsType
<1> HIDE DEF s, t
<1>9. FlattenSeq(t) = FlattenSeq(s) \o t[n]
  <2>1. Len(t) = Len(s) + 1 /\ \A i \in 1..Len(s) : t[i] = s[i]
    BY <1>2, <1>3
  <2>2. QED
    BY <1>2, <2>1, FlattenMore
<1>10. Cover(ds, n - 1) \in Seq(Octet)
  BY <1>1, CoverType
<1>11. Cover(ds, n) = Cover(ds, n - 1) \o u
  BY <1>4, <1>5, <1>9
<1> HIDE DEF u
<1>12. Len(Cover(ds, n - 1) \o u) = Len(Cover(ds, n - 1)) + Len(u)
  BY <1>8, <1>10, ConcatProperties
<1>13. QED
  BY <1>8, <1>11, <1>12 DEF u

\* What is covered depends on the buffers and the octets of them only.
LEMMA CoverSame ==
  ASSUME NEW ds, NEW es, NEW n \in Nat,
         \A i \in 1..n : es[i].buf = ds[i].buf /\ es[i].off = ds[i].off /\ es[i].len = ds[i].len
  PROVE  Cover(es, n) = Cover(ds, n)
<1>1. [i \in 1..n |-> Octets(es[i].buf, es[i].off, es[i].len)]
        = [i \in 1..n |-> Octets(ds[i].buf, ds[i].off, ds[i].len)]
  OBVIOUS
<1>2. QED
  BY <1>1 DEF Cover

LEMMA FragParts ==
  ASSUME NEW fs \in Seq(Nat \ {0}), NEW n \in 0..Len(fs)
  PROVE  LET parts == [i \in 1..n |-> Octets(i, 0, fs[i])]
         IN  parts \in Seq(Seq(Octet)) /\ Len(parts) = n
<1>1. \A i \in 1..n : Octets(i, 0, fs[i]) \in Seq(Octet)
  <2>1. SUFFICES ASSUME NEW i \in 1..n PROVE Octets(i, 0, fs[i]) \in Seq(Octet)
    OBVIOUS
  <2>2. fs[i] \in Nat /\ i \in OctetBuf /\ 0 \in Int
    BY DEF OctetBuf
  <2>3. QED
    BY <2>2, OctetsType
<1>2. n \in Nat
  OBVIOUS
<1>3. QED
  BY <1>1, <1>2

LEMMA FragType ==
  ASSUME NEW fs \in Seq(Nat \ {0}), NEW n \in 0..Len(fs)
  PROVE  FragCover(fs, n) \in Seq(Octet)
  BY FragParts, FlattenType DEF FragCover

LEMMA FragNone ==
  ASSUME NEW fs
  PROVE  FragCover(fs, 0) = <<>>
<1>1. [i \in 1..0 |-> Octets(i, 0, fs[i])] = <<>>
  OBVIOUS
<1>2. QED
  BY <1>1, FlattenEmpty DEF FragCover

LEMMA FragMore ==
  ASSUME NEW fs \in Seq(Nat \ {0}), NEW n \in 1..Len(fs)
  PROVE  FragCover(fs, n) = FragCover(fs, n - 1) \o Octets(n, 0, fs[n])
<1> DEFINE s == [i \in 1..(n - 1) |-> Octets(i, 0, fs[i])]
           t == [i \in 1..n |-> Octets(i, 0, fs[i])]
<1>1. n \in 0..Len(fs) /\ n - 1 \in 0..Len(fs)
  OBVIOUS
<1>2. /\ s \in Seq(Seq(Octet)) /\ Len(s) = n - 1
      /\ t \in Seq(Seq(Octet)) /\ Len(t) = n
  BY <1>1, FragParts
<1>3. \A i \in 1..(n - 1) : t[i] = s[i]
  OBVIOUS
<1>4. t[n] = Octets(n, 0, fs[n])
  OBVIOUS
<1>5. FragCover(fs, n - 1) = FlattenSeq(s) /\ FragCover(fs, n) = FlattenSeq(t)
  BY DEF FragCover
<1> HIDE DEF s, t
<1>6. FlattenSeq(t) = FlattenSeq(s) \o t[n]
  <2>1. Len(t) = Len(s) + 1 /\ \A i \in 1..Len(s) : t[i] = s[i]
    BY <1>2, <1>3
  <2>2. QED
    BY <1>2, <2>1, FlattenMore
<1>7. QED
  BY <1>4, <1>5, <1>6

\* The first fragments begin what all fragments are.
LEMMA FragPrefix ==
  ASSUME NEW fs \in Seq(Nat \ {0}), NEW n \in 0..Len(fs)
  PROVE  \E t \in Seq(Octet) : FragCover(fs, Len(fs)) = FragCover(fs, n) \o t
<1> DEFINE Good(m) == \E t \in Seq(Octet) : FragCover(fs, m) = FragCover(fs, n) \o t
           Bad == {m \in n..Len(fs) : ~Good(m)}
<1>1. FragCover(fs, n) \in Seq(Octet)
  BY FragType
<1>2. Good(n)
  <2>1. FragCover(fs, n) \o <<>> = FragCover(fs, n) /\ <<>> \in Seq(Octet)
    BY <1>1, ConcatEmptySeq, EmptySeq
  <2>2. QED
    BY <2>1
<1>3. ASSUME NEW m \in n..Len(fs), m # n, Good(m - 1) PROVE Good(m)
  <2>1. PICK t \in Seq(Octet) : FragCover(fs, m - 1) = FragCover(fs, n) \o t
    BY <1>3
  <2>2. m \in 1..Len(fs)
    BY <1>3
  <2>3. FragCover(fs, m) = FragCover(fs, m - 1) \o Octets(m, 0, fs[m])
    BY <2>2, FragMore
  <2>4. Octets(m, 0, fs[m]) \in Seq(Octet)
    <3>1. fs[m] \in Nat /\ m \in OctetBuf /\ 0 \in Int
      BY <2>2 DEF OctetBuf
    <3>2. QED
      BY <3>1, OctetsType
  <2> DEFINE u == t \o Octets(m, 0, fs[m])
  <2>5. u \in Seq(Octet)
    BY <2>1, <2>4, ConcatProperties
  <2>6. (FragCover(fs, n) \o t) \o Octets(m, 0, fs[m]) = FragCover(fs, n) \o u
    <3> DEFINE s == FragCover(fs, n)
               v == Octets(m, 0, fs[m])
    <3>1. s \in Seq(Octet) /\ t \in Seq(Octet) /\ v \in Seq(Octet)
      BY <1>1, <2>1, <2>4
    <3> HIDE DEF s, v
    <3>2. (s \o t) \o v = s \o (t \o v)
      BY ONLY <3>1
    <3>3. QED
      BY <3>2 DEF s, v
  <2>7. QED
    BY <2>1, <2>3, <2>5, <2>6
<1>4. Bad = {}
  <2>1. SUFFICES ASSUME Bad # {} PROVE FALSE
    OBVIOUS
  <2>2. Bad \in SUBSET Nat
    OBVIOUS
  <2>3. PICK m \in Bad : \A k \in Bad : m <= k
    <3> HIDE DEF Bad
    <3>1. QED
      BY <2>1, <2>2, LeastNat
  <2>4. m \in n..Len(fs) /\ ~Good(m)
    OBVIOUS
  <2> HIDE DEF Good
  <2>5. m # n
    BY <2>4, <1>2
  <2>6. m - 1 \in n..Len(fs) /\ m - 1 < m
    BY <2>4, <2>5
  <2>7. Good(m - 1)
    BY <2>3, <2>4, <2>6
  <2>8. QED
    BY <2>4, <2>5, <2>7, <1>3
<1>5. Len(fs) \in n..Len(fs)
  OBVIOUS
<1>6. QED
  BY <1>4, <1>5

LEMMA PrefixOfConcat ==
  ASSUME NEW S, NEW s \in Seq(S), NEW t \in Seq(S)
  PROVE  IsPrefix(s, s \o t)
<1>1. s \o t \in Seq(S) /\ Len(s \o t) = Len(s) + Len(t)
  BY ConcatProperties
<1>2. \A i \in 1..Len(s) : (s \o t)[i] = s[i]
  BY ConcatProperties
<1>3. QED
  BY <1>1, <1>2 DEF IsPrefix

\* Multiples of the segment size.
LEMMA ModMultiple ==
  ASSUME NEW m \in Nat, m > 0, NEW x \in Int, NEW z \in Int
  PROVE  (x + m * z) % m = x % m
<1> DEFINE y == x + m * z
<1>1. m * z \in Int /\ y \in Int
  OBVIOUS
<1>2. x = m * (x \div m) + (x % m) /\ x \div m \in Int /\ x % m \in 0..(m - 1)
  OBVIOUS
<1>3. y = m * (y \div m) + (y % m) /\ y \div m \in Int /\ y % m \in 0..(m - 1)
  <2> HIDE DEF y
  <2>1. QED
    BY <1>1
<1>4. PICK i \in Int, j \in Int, d \in Int, e \in Int :
        i = x \div m /\ j = y \div m /\ d = x % m /\ e = y % m
  BY <1>2, <1>3
<1>5. PICK k \in Int : k = j - i - z
  OBVIOUS
<1>6. m * k = d - e /\ d \in 0..(m - 1) /\ e \in 0..(m - 1)
  BY <1>2, <1>3, <1>4, <1>5
<1>7. (k >= 1 => m * k >= m) /\ (k <= -1 => m * k <= -m)
  OBVIOUS
<1>8. d = e
  BY <1>6, <1>7
<1>9. QED
  BY <1>4, <1>8

LEMMA Quotient ==
  ASSUME NEW m \in Nat, m > 0, NEW x \in Int
  PROVE  \E e \in Int : x = m * e + (x % m) /\ x % m \in Int
<1>1. x = m * (x \div m) + (x % m) /\ x \div m \in Int /\ x % m \in Int
  OBVIOUS
<1>2. QED
  BY <1>1

\* What lacks less than m of a multiple of m is none itself.
LEMMA ModLacks ==
  ASSUME NEW m \in Nat \ {0}, NEW a \in Nat, NEW r \in 0..m, (a + r) % m = 0
  PROVE  /\ a % m = 0 <=> r = 0 \/ r = m
         /\ (a + r + m) % m = 0
<1>1. m \in Nat /\ m > 0 /\ a \in Int /\ r \in Int /\ 1 \in Int /\ m * 1 = m /\ a + r \in Int
  OBVIOUS
<1>2. (a + m * 1) % m = a % m /\ ((a + r) + m * 1) % m = (a + r) % m
  BY ONLY <1>1, ModMultiple
<1>3. ASSUME a % m = 0, r # 0, r # m PROVE FALSE
  <2>1. PICK e \in Int : a = m * e
    <3>1. PICK e \in Int : a = m * e + (a % m) /\ a % m \in Int
      BY <1>1, Quotient
    <3>2. PICK p \in Int, v \in Int : p = m * e /\ v = a % m
      BY <3>1
    <3>3. a = p
      BY <3>1, <3>2, <1>3
    <3>4. QED
      BY <3>2, <3>3
  <2>2. (r + m * e) % m = r % m
    BY <1>1, <2>1, ModMultiple
  <2>3. PICK p \in Int : p = m * e
    BY <2>1
  <2>4. (r + p) % m = r % m /\ a = p
    BY <2>1, <2>2, <2>3
  <2>5. (a + r) % m = r % m
    BY <2>4
  <2>6. r % m = r
    BY <1>3
  <2>7. QED
    BY <1>3, <2>5, <2>6
<1>4. r = m => a % m = 0
  BY <1>1, <1>2
<1>5. QED
  BY <1>1, <1>2, <1>3, <1>4

-----------------------------------------------------------------------------
(* The frame and its descriptors.                                             *)

LEMMA CoveredIs == \A n : Covered(n) = Cover(descs, n)
  BY DEF Covered, Cover

LEMMA FrameFacts ==
  ASSUME CutTypes
  PROVE  /\ skb.mss \in Mss /\ skb.mss \in Nat \ {0}
         /\ skb.lin \in LinearLens /\ skb.lin \in Nat
         /\ skb.frags \in Seq(Nat \ {0}) /\ Len(skb.frags) \in Nat
         /\ LinearOctets \in Seq(Octet)
<1>1. skb.mss \in Mss /\ skb.lin \in LinearLens /\ skb.frags \in Frags
  BY DEF CutTypes
<1>2. "linear" \in OctetBuf /\ 0 \in Int
  BY DEF OctetBuf
<1>3. skb.lin \in Nat
  BY <1>1, FrameAssumption
<1>4. LinearOctets \in Seq(Octet)
  BY <1>2, <1>3, OctetsType DEF LinearOctets
<1>5. skb.frags \in Seq(Nat \ {0})
  BY <1>1, FrameAssumption
<1>6. skb.mss \in Nat \ {0}
  BY <1>1, MssAssumption
<1>7. Len(skb.frags) \in Nat
  BY <1>5
<1>8. QED
  BY <1>1, <1>3, <1>4, <1>5, <1>6, <1>7

LEMMA PayloadIs ==
  ASSUME CutTypes
  PROVE  Payload = LinearOctets \o FragCover(skb.frags, Len(skb.frags))
<1>1. DOMAIN skb.frags = 1..Len(skb.frags)
  BY FrameFacts
<1>2. QED
  BY <1>1 DEF Payload, LinearOctets, FragCover

\* That concatenation is associative, as a predicate that the provers match.
Assoc(s, t, u) == (s \o t) \o u = s \o (t \o u)

LEMMA Associative ==
  ASSUME NEW s \in Seq(Octet), NEW t \in Seq(Octet), NEW u \in Seq(Octet)
  PROVE  Assoc(s, t, u)
  BY DEF Assoc

LEMMA Concatenated ==
  ASSUME NEW s \in Seq(Octet), NEW t \in Seq(Octet)
  PROVE  s \o t \in Seq(Octet)
  OBVIOUS

Regroups(s, a, b, c, t) ==
  ((s \o a) \o b) \o (c \o t) = s \o ((a \o (b \o c)) \o t)

LEMMA Regroup ==
  ASSUME NEW s \in Seq(Octet), NEW a \in Seq(Octet), NEW b \in Seq(Octet),
         NEW c \in Seq(Octet), NEW t \in Seq(Octet)
  PROVE  /\ (s \o a) \o b \in Seq(Octet) /\ c \o t \in Seq(Octet)
         /\ Regroups(s, a, b, c, t)
<1>1. s \o a \in Seq(Octet) /\ a \o b \in Seq(Octet) /\ c \o t \in Seq(Octet)
  BY Concatenated, Zenon
<1>2. (s \o a) \o b \in Seq(Octet)
  BY <1>1, Concatenated, Zenon
<1>3. Assoc(s, a, b) /\ Assoc(a, b, c)
  BY Associative, Zenon
<1>4. Assoc(s, a \o b, c \o t) /\ Assoc(a \o b, c, t)
  BY <1>1, Associative, Zenon
<1>5. QED
  BY <1>1, <1>2, <1>3, <1>4, Zenon DEF Assoc, Regroups

\* One descriptor more.
LEMMA CoverAppend ==
  ASSUME NEW ds \in Seq(DescSet), NEW x \in DescSet
  PROVE  LET es == Append(ds, x)
         IN  /\ es \in Seq(DescSet) /\ Len(es) = Len(ds) + 1
             /\ \A i \in 1..Len(ds) : es[i] = ds[i]
             /\ es[Len(ds) + 1] = x
             /\ \A i \in 0..Len(ds) : Cover(es, i) = Cover(ds, i)
             /\ Cover(es, Len(es)) = Cover(ds, Len(ds)) \o Octets(x.buf, x.off, x.len)
             /\ Len(Cover(es, Len(es))) = Len(Cover(ds, Len(ds))) + x.len
<1> DEFINE es == Append(ds, x)
<1>1. /\ es \in Seq(DescSet) /\ Len(es) = Len(ds) + 1
      /\ \A i \in 1..Len(ds) : es[i] = ds[i]
      /\ es[Len(ds) + 1] = x /\ Len(ds) \in Nat
  OBVIOUS
<1> HIDE DEF es
<1>2. ASSUME NEW i \in 0..Len(ds) PROVE Cover(es, i) = Cover(ds, i)
  <2>1. i \in Nat /\ \A k \in 1..i : es[k] = ds[k]
    BY <1>1
  <2>2. QED
    BY <2>1, CoverSame
<1> DEFINE n == Len(ds) + 1
<1>3. n \in 1..Len(es) /\ n - 1 = Len(ds) /\ n = Len(es) /\ es[n] = x
      /\ Len(ds) \in 0..Len(ds)
  BY <1>1
<1> HIDE DEF n
<1>4. /\ Cover(es, n) = Cover(es, n - 1) \o Octets(es[n].buf, es[n].off, es[n].len)
      /\ Len(Cover(es, n)) = Len(Cover(es, n - 1)) + es[n].len
  BY <1>1, <1>3, CoverMore
<1>5. Cover(es, n - 1) = Cover(ds, Len(ds))
  BY <1>2, <1>3
<1>6. /\ Cover(es, Len(es)) = Cover(ds, Len(ds)) \o Octets(x.buf, x.off, x.len)
      /\ Len(Cover(es, Len(es))) = Len(Cover(ds, Len(ds))) + x.len
  BY <1>3, <1>4, <1>5
<1>7. QED
  BY <1>1, <1>2, <1>6 DEF es

\* The descriptor filled last ends its packet, whose first tells the count.
LEMMA PacketClosed ==
  ASSUME CutTypes, Len(descs) >= 1
  PROVE  LET es == CountPacket(wil_tx_last_desc(descs))
         IN  /\ es \in Seq(DescSet) /\ Len(es) = Len(descs)
             /\ \A i \in 1..Len(descs) :
                  /\ es[i].buf = descs[i].buf /\ es[i].off = descs[i].off
                  /\ es[i].len = descs[i].len /\ es[i].kind = descs[i].kind
                  /\ es[i].eop <=> descs[i].eop \/ i = Len(descs)
                  /\ es[i].cnt = IF sg_desc # 0 /\ i = sg_desc THEN sg_desc_cnt + first_chunk
                                 ELSE descs[i].cnt
<1>1. /\ descs \in Seq(DescSet) /\ Len(descs) \in 1..Len(descs)
      /\ sg_desc \in 0..Len(descs) /\ sg_desc_cnt \in Nat /\ first_chunk \in {0, 1}
  BY DEF CutTypes, TsoTypeOK
<1> DEFINE n == Len(descs)
           c == sg_desc_cnt + first_chunk
           last == [descs[n] EXCEPT !.eop = TRUE]
           ds == [descs EXCEPT ![n] = last]
<1>2. c \in Nat /\ n \in Nat
  BY <1>1
<1>3. \A i \in 1..n : descs[i] \in DescSet
  BY <1>1
<1>4. last \in DescSet
  <2>1. descs[n] \in DescSet
    BY <1>1, <1>3
  <2>2. QED
    BY <2>1 DEF DescSet
<1>5. ds \in Seq(DescSet) /\ Len(ds) = n
      /\ \A i \in 1..n : ds[i] = IF i = n THEN last ELSE descs[i]
  <2> HIDE DEF last
  <2>1. QED
    BY <1>1, <1>4, ExceptSeq
<1>6. wil_tx_last_desc(descs) = ds
  BY DEF wil_tx_last_desc
<1>7. \A i \in 1..n :
        /\ ds[i].buf = descs[i].buf /\ ds[i].off = descs[i].off
        /\ ds[i].len = descs[i].len /\ ds[i].kind = descs[i].kind /\ ds[i].cnt = descs[i].cnt
        /\ ds[i].eop <=> descs[i].eop \/ i = n
  <2>1. SUFFICES ASSUME NEW i \in 1..n
        PROVE /\ ds[i].buf = descs[i].buf /\ ds[i].off = descs[i].off
              /\ ds[i].len = descs[i].len /\ ds[i].kind = descs[i].kind
              /\ ds[i].cnt = descs[i].cnt
              /\ ds[i].eop <=> descs[i].eop \/ i = n
    OBVIOUS
  <2>2. descs[i] \in DescSet
    BY <1>3
  <2>3. CASE i = n
    <3>1. ds[i] = [descs[i] EXCEPT !.eop = TRUE]
      BY <1>5, <2>3
    <3> HIDE DEF ds
    <3>2. QED
      BY <2>2, <2>3, <3>1 DEF DescSet
  <2>4. CASE i # n
    <3>1. ds[i] = descs[i]
      BY <1>5, <2>4
    <3> HIDE DEF ds
    <3>2. QED
      BY <2>4, <3>1
  <2>5. QED
    BY <2>3, <2>4
<1> HIDE DEF ds, last
<1>8. CASE sg_desc = 0
  <2>1. CountPacket(ds) = ds
    BY <1>8 DEF CountPacket
  <2>2. QED
    BY <1>5, <1>6, <1>7, <1>8, <2>1
<1>9. CASE sg_desc # 0
  <2> DEFINE new == [ds[sg_desc] EXCEPT !.cnt = c]
             es == [ds EXCEPT ![sg_desc] = new]
  <2>1. CountPacket(ds) = es
    BY <1>9 DEF CountPacket
  <2>2. sg_desc \in 1..n
    BY <1>1, <1>9
  <2>3. ds[sg_desc] \in DescSet
    BY <1>5, <2>2
  <2>4. new \in DescSet
    BY <1>2, <2>3 DEF DescSet
  <2>5. /\ new.buf = ds[sg_desc].buf /\ new.off = ds[sg_desc].off /\ new.len = ds[sg_desc].len
        /\ new.kind = ds[sg_desc].kind /\ new.cnt = c /\ (new.eop <=> ds[sg_desc].eop)
    BY <2>3 DEF DescSet
  <2> HIDE DEF new
  <2>6. es \in Seq(DescSet) /\ Len(es) = n
        /\ \A i \in 1..n : es[i] = IF i = sg_desc THEN new ELSE ds[i]
    BY <1>5, <2>2, <2>4, ExceptSeq
  <2> HIDE DEF es
  <2>7. QED
    BY <1>5, <1>6, <1>7, <1>9, <2>1, <2>2, <2>5, <2>6
<1>10. QED
  BY <1>8, <1>9

\* What is covered is the beginning of the payload.
LEMMA CutIsPrefix ==
  ASSUME CutTypes, WalkPosition, CutSoFar
  PROVE  IsPrefix(Cover(descs, Len(descs)), Payload)
<1> DEFINE fs == skb.frags
           L == LinearOctets
           F(n) == FragCover(fs, n)
<1>1. /\ fs \in Seq(Nat \ {0}) /\ Len(fs) \in Nat /\ L \in Seq(Octet)
      /\ frag \in 0..Len(fs)
  BY FrameFacts DEF CutTypes, TsoTypeOK
<1>2. Payload = L \o F(Len(fs)) /\ F(Len(fs)) \in Seq(Octet)
  BY <1>1, PayloadIs, FragType
<1>3. Payload \in Seq(Octet)
  BY <1>1, <1>2, ConcatProperties
<1>4. CASE pc \in {"start", "busy", "linear"}
  <2>1. Cover(descs, Len(descs)) = <<>> /\ <<>> \in Seq(Octet)
    BY <1>4, EmptySeq DEF CutSoFar
  <2>2. <<>> \o Payload = Payload
    BY <1>3, ConcatEmptySeq
  <2>3. IsPrefix(<<>>, <<>> \o Payload)
    BY <1>3, <2>1, PrefixOfConcat
  <2>4. QED
    BY <2>1, <2>2, <2>3
<1>5. CASE pc = "frag"
  <2>1. Cover(descs, Len(descs)) = L \o F(frag)
    BY <1>5 DEF CutSoFar
  <2>2. F(frag) \in Seq(Octet)
    BY <1>1, FragType
  <2>3. PICK t \in Seq(Octet) : F(Len(fs)) = F(frag) \o t
    BY <1>1, FragPrefix
  <2> DEFINE u == F(frag)
  <2>4. (L \o u) \o t = L \o (u \o t) /\ L \o u \in Seq(Octet)
    <3>1. L \in Seq(Octet) /\ u \in Seq(Octet) /\ t \in Seq(Octet)
      BY <1>1, <2>2, <2>3
    <3> HIDE DEF L, u
    <3>2. QED
      BY ONLY <3>1
  <2>5. Payload = (L \o u) \o t
    BY <1>2, <2>3, <2>4
  <2>6. QED
    BY <2>1, <2>4, <2>5, PrefixOfConcat
<1>6. CASE pc = "chunk"
  <2>1. frag \in 1..Len(fs) /\ len \in 0..fs[frag] /\ frag - 1 \in 0..Len(fs)
    BY <1>1, <1>6 DEF WalkPosition
  <2>2. fs[frag] \in Nat /\ fs[frag] - len \in Nat /\ len \in Nat
    BY <1>1, <2>1
  <2> DEFINE a == F(frag - 1)
             b == Octets(frag, 0, fs[frag] - len)
             c == Octets(frag, fs[frag] - len, len)
  <2>3. Cover(descs, Len(descs)) = (L \o a) \o b
    BY <1>6 DEF CutSoFar
  <2>4. F(frag) = a \o Octets(frag, 0, fs[frag])
    BY <1>1, <2>1, FragMore
  <2>5. frag \in OctetBuf /\ 0 \in Int /\ fs[frag] - len \in Int
    BY <2>1, <2>2 DEF OctetBuf
  <2>6. b \in Seq(Octet) /\ c \in Seq(Octet)
    BY <2>2, <2>5, OctetsType
  <2>7. b \o c = Octets(frag, 0, fs[frag])
    <3>1. b \o Octets(frag, 0 + (fs[frag] - len), len) = Octets(frag, 0, (fs[frag] - len) + len)
      BY <2>2, <2>5, OctetsSplit
    <3>2. 0 + (fs[frag] - len) = fs[frag] - len /\ (fs[frag] - len) + len = fs[frag]
      BY <2>2
    <3>3. QED
      BY <3>1, <3>2
  <2>8. PICK t \in Seq(Octet) : F(Len(fs)) = F(frag) \o t
    BY <1>1, FragPrefix
  <2>9. a \in Seq(Octet)
    BY <1>1, <2>1, FragType
  <2>10. (L \o a) \o b \in Seq(Octet) /\ c \o t \in Seq(Octet)
         /\ Regroups(L, a, b, c, t)
    <3>1. L \in Seq(Octet) /\ a \in Seq(Octet) /\ b \in Seq(Octet) /\ c \in Seq(Octet)
          /\ t \in Seq(Octet)
      BY <1>1, <2>6, <2>8, <2>9
    <3> HIDE DEF L, a, b, c
    <3>2. QED
      BY <3>1, Regroup, Zenon
  <2>11. Payload = ((L \o a) \o b) \o (c \o t)
    BY <1>2, <2>4, <2>7, <2>8, <2>10, Zenon DEF Regroups
  <2>12. QED
    BY <2>3, <2>10, <2>11, PrefixOfConcat
<1>7. CASE pc \in {"done", "dma_error"}
  <2>1. Payload \o <<>> = Payload /\ <<>> \in Seq(Octet)
    BY <1>3, ConcatEmptySeq, EmptySeq
  <2>2. IsPrefix(Payload, Payload)
    <3>1. IsPrefix(Payload, Payload \o <<>>)
      BY <1>3, <2>1, PrefixOfConcat
    <3>2. QED
      BY <2>1, <3>1
  <2>3. QED
    BY <1>7, <2>2 DEF CutSoFar
<1>8. QED
  BY <1>4, <1>5, <1>6, <1>7 DEF CutTypes, TsoTypeOK

-----------------------------------------------------------------------------
(* The steps that fill no descriptor.                                         *)

LEMMA PayloadSame ==
  ASSUME UNCHANGED skb
  PROVE  Payload' = Payload /\ LinearOctets' = LinearOctets
  BY DEF Payload, LinearOctets

LEMMA QuietStep ==
  ASSUME TsoIInv, UNCHANGED <<skb, descs, rem_data, packet>>,
         Filling' => Filling, pc' # "done"
  PROVE  (PacketEnds /\ PacketCounts /\ PacketsOfMss /\ CountsTrue)'
<1>1. skb' = skb /\ descs' = descs /\ rem_data' = rem_data /\ sg_desc' = sg_desc
      /\ sg_desc_cnt' = sg_desc_cnt /\ first_chunk' = first_chunk
  BY DEF packet
<1>2. PacketEnds'
  BY <1>1 DEF TsoIInv, PacketEnds
<1>3. OpenPacket' = OpenPacket
  BY <1>1 DEF OpenPacket
<1>4. PacketCounts'
  BY <1>1, <1>3 DEF TsoIInv, PacketCounts
<1>5. (PacketsOfMss /\ CountsTrue)'
  BY DEF PacketsOfMss, CountsTrue
<1>6. QED
  BY <1>2, <1>4, <1>5

LEMMA StepRingFull ==
  ASSUME TsoIInv, RingFull
  PROVE  TsoIInv'
<1>1. CutTypes'
  BY DEF TsoIInv, RingFull, CutTypes, TsoTypeOK, packet
<1>2. WalkPosition'
  BY DEF TsoIInv, RingFull, WalkPosition, Filling, packet
<1>3. CutSoFar'
  BY PayloadSame DEF TsoIInv, RingFull, CutSoFar, packet
<1>4. (PacketEnds /\ PacketCounts /\ PacketsOfMss /\ CountsTrue)'
  BY QuietStep DEF RingFull, Filling
<1>5. QED
  BY <1>1, <1>2, <1>3, <1>4 DEF TsoIInv

LEMMA StepNextFrag ==
  ASSUME TsoIInv, NextFrag
  PROVE  TsoIInv'
<1> USE DEF TsoIInv
<1>1. /\ skb.frags \in Seq(Nat \ {0}) /\ frag \in 0..Len(skb.frags)
      /\ frag < Len(skb.frags) /\ Len(skb.frags) \in Nat
      /\ skb' = skb /\ descs' = descs /\ frag' = frag + 1 /\ len' = skb.frags[frag + 1]
      /\ pc = "frag" /\ pc' = "chunk" /\ rem_data' = rem_data /\ avail' = avail
      /\ sg_desc' = sg_desc /\ sg_desc_cnt' = sg_desc_cnt /\ first_chunk' = first_chunk
  BY FrameFacts DEF CutTypes, TsoTypeOK, NextFrag, packet
<1>2. skb.frags[frag + 1] \in Nat \ {0} /\ frag + 1 \in 1..Len(skb.frags)
  BY <1>1
<1>3. CutTypes'
  BY <1>1, <1>2 DEF CutTypes, TsoTypeOK
<1>4. WalkPosition'
  BY <1>1, <1>2 DEF WalkPosition, Filling
<1>5. CutSoFar'
  <2>1. Cover(descs, Len(descs)) = LinearOctets \o FragCover(skb.frags, frag)
    BY <1>1 DEF CutSoFar
  <2>2. LinearOctets \in Seq(Octet) /\ FragCover(skb.frags, frag) \in Seq(Octet)
    BY <1>1, FrameFacts, FragType
  <2>3. frag + 1 \in OctetBuf /\ 0 \in Int
    BY <1>2 DEF OctetBuf
  <2>4. Octets(frag + 1, 0, 0) = <<>>
    BY <2>3, OctetsNone
  <2> DEFINE s == LinearOctets \o FragCover(skb.frags, frag)
  <2>5. s \in Seq(Octet)
    BY <2>2, ConcatProperties
  <2>6. s \o <<>> = s
    BY <2>5, ConcatEmptySeq
  <2>7. (frag + 1) - 1 = frag /\ skb.frags[frag + 1] - skb.frags[frag + 1] = 0
    BY <1>1, <1>2
  <2>8. Cover(descs, Len(descs)) =
          (LinearOctets \o FragCover(skb.frags, (frag + 1) - 1))
            \o Octets(frag + 1, 0, skb.frags[frag + 1] - skb.frags[frag + 1])
    BY <2>1, <2>4, <2>6, <2>7
  <2>9. LinearOctets' = LinearOctets
    BY <1>1, PayloadSame
  <2>10. QED
    BY <1>1, <2>8, <2>9 DEF CutSoFar
<1>6. (PacketEnds /\ PacketCounts /\ PacketsOfMss /\ CountsTrue)'
  BY <1>1, QuietStep DEF Filling, packet
<1>7. QED
  BY <1>3, <1>4, <1>5, <1>6

LEMMA StepEndFrag ==
  ASSUME TsoIInv, EndFrag
  PROVE  TsoIInv'
<1> USE DEF TsoIInv
<1>1. /\ skb.frags \in Seq(Nat \ {0}) /\ frag \in 1..Len(skb.frags) /\ Len(skb.frags) \in Nat
      /\ skb' = skb /\ descs' = descs /\ frag' = frag /\ len' = len /\ len = 0
      /\ pc = "chunk" /\ pc' = "frag" /\ rem_data' = rem_data /\ avail' = avail
      /\ sg_desc' = sg_desc /\ sg_desc_cnt' = sg_desc_cnt /\ first_chunk' = first_chunk
  BY FrameFacts DEF CutTypes, TsoTypeOK, WalkPosition, EndFrag, packet
<1>2. CutTypes'
  BY <1>1 DEF CutTypes, TsoTypeOK
<1>3. WalkPosition'
  BY <1>1 DEF WalkPosition, Filling
<1>4. CutSoFar'
  <2>1. skb.frags[frag] \in Nat /\ skb.frags[frag] - len = skb.frags[frag]
        /\ frag - 1 \in 0..Len(skb.frags)
    BY <1>1
  <2> DEFINE s == LinearOctets
             a == FragCover(skb.frags, frag - 1)
             b == Octets(frag, 0, skb.frags[frag])
  <2>2. Cover(descs, Len(descs)) = (s \o a) \o b
    BY <1>1, <2>1 DEF CutSoFar
  <2>3. FragCover(skb.frags, frag) = a \o b
    BY <1>1, FragMore
  <2>4. s \in Seq(Octet) /\ a \in Seq(Octet)
    BY <1>1, <2>1, FrameFacts, FragType
  <2>5. b \in Seq(Octet)
    <3>1. frag \in OctetBuf /\ 0 \in Int
      BY <1>1 DEF OctetBuf
    <3>2. QED
      BY <2>1, <3>1, OctetsType
  <2>6. Assoc(s, a, b)
    <3> HIDE DEF s, a, b
    <3>1. QED
      BY <2>4, <2>5, Associative, Zenon
  <2>7. Cover(descs, Len(descs)) = s \o FragCover(skb.frags, frag)
    BY <2>2, <2>3, <2>6, Zenon DEF Assoc
  <2>8. LinearOctets' = LinearOctets
    BY <1>1, PayloadSame
  <2>9. QED
    BY <1>1, <2>7, <2>8 DEF CutSoFar
<1>5. (PacketEnds /\ PacketCounts /\ PacketsOfMss /\ CountsTrue)'
  BY <1>1, QuietStep DEF Filling, packet
<1>6. QED
  BY <1>2, <1>3, <1>4, <1>5

LEMMA StepGiveUp ==
  ASSUME TsoIInv, GiveUp
  PROVE  TsoIInv'
<1>1. CutTypes'
  BY DEF TsoIInv, GiveUp, CutTypes, TsoTypeOK, packet
<1>2. WalkPosition'
  BY DEF TsoIInv, GiveUp, WalkPosition, Filling, packet
<1>3. CutSoFar'
  <2>1. IsPrefix(Cover(descs, Len(descs)), Payload)
    BY CutIsPrefix DEF TsoIInv
  <2>2. Payload' = Payload
    BY PayloadSame DEF GiveUp
  <2>3. QED
    BY <2>1, <2>2 DEF GiveUp, CutSoFar
<1>4. (PacketEnds /\ PacketCounts /\ PacketsOfMss /\ CountsTrue)'
  BY QuietStep DEF GiveUp, Filling
<1>5. QED
  BY <1>1, <1>2, <1>3, <1>4 DEF TsoIInv

-----------------------------------------------------------------------------
(* The steps that fill a descriptor or end a packet.                          *)

\* A descriptor as wil_tx_desc_map leaves it, and the header's.
LEMMA TsoDescIs ==
  ASSUME NEW buf \in OctetBuf, NEW off \in Nat, NEW n \in Nat, NEW kind \in 0..3
  PROVE  LET x == TsoDesc(buf, off, n, kind)
         IN  /\ x \in DescSet /\ x.buf = buf /\ x.off = off /\ x.len = n
             /\ x.kind = kind /\ ~x.eop
  BY DEF TsoDesc, DescSet

LEMMA HeaderIs ==
  LET h == [TsoDesc("hdr", 0, 0, 0) EXCEPT !.eop = TRUE]
  IN  h \in DescSet /\ h.buf = "hdr" /\ h.off = 0 /\ h.len = 0 /\ h.kind = 0 /\ h.eop
<1> DEFINE x == TsoDesc("hdr", 0, 0, 0)
           h == [x EXCEPT !.eop = TRUE]
<1>1. "hdr" \in OctetBuf /\ 0 \in Nat /\ 0 \in 0..3
  BY DEF OctetBuf
<1>2. x \in DescSet /\ x.buf = "hdr" /\ x.off = 0 /\ x.len = 0 /\ x.kind = 0
  BY <1>1, TsoDescIs
<1> HIDE DEF x
<1>3. h \in DescSet /\ h.buf = "hdr" /\ h.off = 0 /\ h.len = 0 /\ h.kind = 0 /\ h.eop
  BY <1>2 DEF DescSet
<1>4. QED
  BY <1>3 DEF x

LEMMA StepHeader ==
  ASSUME TsoIInv, LinearFits, Header
  PROVE  TsoIInv'
<1> USE DEF TsoIInv
<1> DEFINE h == [TsoDesc("hdr", 0, 0, 0) EXCEPT !.eop = TRUE]
<1>2. h \in DescSet
  BY HeaderIs
<1>3. h.buf = "hdr" /\ h.off = 0 /\ h.len = 0 /\ h.kind = 0 /\ h.eop
  BY HeaderIs
<1>4. /\ descs' = <<h>> /\ rem_data' = skb.mss /\ skb' = skb /\ avail' = avail
      /\ frag' = frag /\ len' = len /\ sg_desc' = sg_desc /\ sg_desc_cnt' = sg_desc_cnt
      /\ first_chunk' = first_chunk
      /\ pc' = IF skb.lin > 0 THEN "linear" ELSE "frag"
  BY DEF Header, packet
<1>5. frag = 0 /\ sg_desc = 0 /\ sg_desc_cnt = 0 /\ first_chunk = 1
  BY DEF Header, WalkPosition
<1>6. skb.mss \in Nat \ {0} /\ skb.lin \in Nat /\ skb.frags \in Seq(Nat \ {0})
      /\ Len(skb.frags) \in Nat
  BY FrameFacts
<1> HIDE DEF h
<1>7. descs' \in Seq(DescSet) /\ Len(descs') = 1 /\ descs'[1] = h
  BY <1>2, <1>4
<1>8. CutTypes'
  BY <1>4, <1>5, <1>6, <1>7 DEF CutTypes, TsoTypeOK
<1>9. WalkPosition'
  BY <1>4, <1>5, <1>6, <1>7 DEF WalkPosition, Filling
<1>10. Cover(descs', 1) = <<>> /\ Len(Cover(descs', 1)) = 0
  <2>1. 1 \in 1..Len(descs') /\ 1 - 1 = 0
    BY <1>7
  <2>2. Cover(descs', 1) = Cover(descs', 0)
          \o Octets(descs'[1].buf, descs'[1].off, descs'[1].len)
    BY <1>7, <2>1, CoverMore
  <2>3. Cover(descs', 0) = <<>>
    BY CoverNone
  <2>4. "hdr" \in OctetBuf /\ 0 \in Int
    BY DEF OctetBuf
  <2>5. Octets("hdr", 0, 0) = <<>>
    BY <2>4, OctetsNone
  <2>6. <<>> \o <<>> = <<>>
    BY EmptySeq, ConcatEmptySeq
  <2>7. Cover(descs', 1) = <<>>
    BY <1>3, <1>7, <2>2, <2>3, <2>5, <2>6
  <2>8. QED
    BY <2>7, EmptySeq
<1>11. CutSoFar'
  <2>1. CASE skb.lin > 0
    BY <1>4, <1>7, <1>10, <2>1 DEF CutSoFar
  <2>2. CASE skb.lin = 0
    <3>1. "linear" \in OctetBuf /\ 0 \in Int
      BY DEF OctetBuf
    <3>2. LinearOctets = <<>>
      BY <2>2, <3>1, OctetsNone DEF LinearOctets
    <3>3. LinearOctets' = <<>>
      BY <1>4, <3>2, PayloadSame
    <3>4. FragCover(skb.frags, 0) = <<>>
      BY FragNone
    <3>5. <<>> \o <<>> = <<>>
      BY EmptySeq, ConcatEmptySeq
    <3>6. QED
      BY <1>4, <1>5, <1>6, <1>7, <1>10, <2>2, <3>3, <3>4, <3>5 DEF CutSoFar
  <2>3. QED
    BY <1>6, <2>1, <2>2
<1>12. PacketEnds'
  <2>1. (0 + skb.mss) % skb.mss = 0
    <3>1. skb.mss % skb.mss = 0
      BY <1>6
    <3>2. 0 + skb.mss = skb.mss
      BY <1>6
    <3>3. QED
      BY <3>1, <3>2
  <2>2. QED
    BY <1>4, <1>7, <1>10, <2>1 DEF PacketEnds
<1>13. PacketCounts'
  <2>1. OpenPacket'
    BY <1>3, <1>4, <1>5, <1>7 DEF OpenPacket
  <2>2. QED
    BY <1>3, <1>7, <2>1 DEF PacketCounts
<1>14. (PacketsOfMss /\ CountsTrue)'
  BY <1>4 DEF PacketsOfMss, CountsTrue
<1>15. QED
  BY <1>8, <1>9, <1>11, <1>12, <1>13, <1>14

\* One data descriptor more, of octets that the packet lacks: what holds of
\* packets goes on to.
LEMMA DataStep ==
  ASSUME TsoIInv, Filling, rem_data # 0,
         NEW x \in DescSet, descs' = Append(descs, x),
         x.len \in 1..rem_data, x.kind # 3, ~x.eop,
         rem_data' = rem_data - x.len, skb' = skb,
         sg_desc' = (IF sg_desc = 0 THEN Len(descs) + 1 ELSE sg_desc),
         sg_desc_cnt' = sg_desc_cnt + 1, first_chunk' = first_chunk,
         Filling', pc' # "done"
  PROVE  (PacketEnds /\ PacketCounts /\ PacketsOfMss /\ CountsTrue)'
<1> USE DEF TsoIInv
<1> DEFINE n == Len(descs)
           m == skb.mss
<1>1. /\ descs \in Seq(DescSet) /\ n \in Nat /\ n >= 1 /\ m \in Nat \ {0}
      /\ rem_data \in 0..m /\ x.len \in Nat
  BY FrameFacts DEF CutTypes, WalkPosition
<1>2. /\ descs' \in Seq(DescSet) /\ Len(descs') = n + 1
      /\ \A i \in 1..n : descs'[i] = descs[i]
      /\ descs'[n + 1] = x
      /\ \A i \in 0..n : Cover(descs', i) = Cover(descs, i)
      /\ Len(Cover(descs', n + 1)) = Len(Cover(descs, n)) + x.len
  BY <1>1, CoverAppend
<1>3. Len(Cover(descs, n)) \in Nat
  <2>1. n \in 0..Len(descs)
    BY <1>1
  <2>2. Cover(descs, n) \in Seq(Octet)
    BY <1>1, <2>1, CoverType
  <2>3. QED
    BY <2>2
<1> DEFINE c == Len(Cover(descs, n))
<1>4. /\ (c + rem_data) % m = 0
      /\ n > 1 => (descs[n].eop <=> rem_data = m)
      /\ \A i \in 2..(n - 1) : descs[i].eop <=> Len(Cover(descs, i)) % m = 0
  BY DEF PacketEnds
<1>5. PacketEnds'
  <2>1. ((c + x.len) + (rem_data - x.len)) % m = 0
    <3>1. (c + x.len) + (rem_data - x.len) = c + rem_data
      BY <1>1, <1>3
    <3>2. QED
      BY <1>4, <3>1
  <2>2. rem_data - x.len # m
    BY <1>1
  <2>3. n > 1 => (descs[n].eop <=> c % m = 0)
    <3>1. c % m = 0 <=> rem_data = 0 \/ rem_data = m
      BY <1>1, <1>3, <1>4, ModLacks
    <3>2. QED
      BY <1>4, <3>1
  <2>4. \A i \in 2..n : descs[i].eop <=> Len(Cover(descs, i)) % m = 0
    <3>1. \A i \in 2..n : i = n \/ i \in 2..(n - 1)
      BY <1>1
    <3>2. QED
      BY <1>4, <2>3, <3>1
  <2>5. \A i \in 2..n : descs'[i].eop <=> Len(Cover(descs', i)) % m = 0
    BY <1>1, <1>2, <2>4
  <2>6. (n + 1) - 1 = n /\ n + 1 > 1
    BY <1>1
  <2>7. (Len(Cover(descs', Len(descs'))) + rem_data') % m = 0
    BY <1>2, <2>1
  <2>8. ~descs'[Len(descs')].eop /\ rem_data' # m
    BY <1>2, <2>2
  <2>9. \A i \in 2..(Len(descs') - 1) : descs'[i].eop <=> Len(Cover(descs', i)) % m = 0
    BY <1>2, <2>5, <2>6
  <2>10. QED
    BY <2>7, <2>8, <2>9 DEF PacketEnds
<1>6. /\ OpenPacket
      /\ descs[1].eop
      /\ \A i \in 1..n : descs[i].kind # 3
      /\ \A i \in 2..n : descs[i - 1].eop /\ i # sg_desc => TellsSize(descs, i)
  BY DEF PacketCounts
<1>7. OpenPacket'
  <2>1. CASE sg_desc = 0
    <3>1. rem_data = m /\ sg_desc_cnt = 0 /\ descs[n].eop /\ (first_chunk = 1 <=> n = 1)
      BY <1>6, <2>1 DEF OpenPacket
    <3>2. sg_desc' = n + 1 /\ n + 1 # 0 /\ n + 1 \in 2..(n + 1) /\ (n + 1) - 1 = n
          /\ n + 1 \in Nat
      BY <1>1, <2>1
    <3>3. descs'[n].eop
      BY <1>1, <1>2, <3>1
    <3>4. \A k \in (n + 1)..(n + 1) : ~descs'[k].eop
      BY <1>1, <1>2
    <3>5. rem_data' < m
      BY <1>1
    <3>6. sg_desc_cnt' = (n + 1) - (n + 1) + 1
      BY <1>1, <3>1
    <3>7. first_chunk' = 1 <=> n + 1 = 2
      <4>1. first_chunk' = first_chunk /\ n \in Nat
        BY <1>1
      <4>2. n = 1 <=> n + 1 = 2
        <5> HIDE DEF n
        <5>1. QED
          BY ONLY <4>1
      <4>3. QED
        BY ONLY <3>1, <4>1, <4>2
    <3>8. QED
      BY <1>2, <3>2, <3>3, <3>4, <3>5, <3>6, <3>7 DEF OpenPacket
  <2>2. CASE sg_desc # 0
    <3>1. /\ rem_data < m /\ sg_desc \in 2..n /\ sg_desc_cnt = n - sg_desc + 1
          /\ descs[sg_desc - 1].eop /\ \A k \in sg_desc..n : ~descs[k].eop
          /\ first_chunk = 1 <=> sg_desc = 2
      BY <1>6, <2>2 DEF OpenPacket
    <3>2. sg_desc' = sg_desc /\ sg_desc \in 2..(n + 1) /\ sg_desc - 1 \in 1..n
      BY <1>1, <2>2, <3>1
    <3>3. descs'[sg_desc - 1].eop
      BY <1>2, <3>1, <3>2
    <3>4. \A k \in sg_desc..(n + 1) : ~descs'[k].eop
      <4>1. \A k \in sg_desc..(n + 1) : k = n + 1 \/ (k \in 1..n /\ k \in sg_desc..n)
        BY <1>1, <3>1
      <4>2. QED
        BY <1>2, <3>1, <4>1
    <3>5. rem_data' < m
      BY <1>1, <3>1
    <3>6. sg_desc_cnt' = (n + 1) - sg_desc + 1
      BY <1>1, <3>1
    <3>7. QED
      BY <1>2, <2>2, <3>1, <3>2, <3>3, <3>4, <3>5, <3>6 DEF OpenPacket
  <2>3. QED
    BY <2>1, <2>2
<1>8. ASSUME NEW i \in 2..(n + 1), descs'[i - 1].eop, i # sg_desc'
      PROVE  TellsSize(descs', i)
  <2>1. i \in 2..n
    <3>1. SUFFICES ASSUME i = n + 1 PROVE FALSE
      BY <1>1
    <3>2. descs[n].eop
      BY <1>1, <1>2, <1>8, <3>1
    <3>3. sg_desc # 0
      BY <1>8, <3>1
    <3>4. sg_desc \in 2..n /\ \A k \in sg_desc..n : ~descs[k].eop
      BY <1>6, <3>3 DEF OpenPacket
    <3>5. QED
      BY <1>1, <3>2, <3>4
  <2>2. descs[i - 1].eop
    BY <1>1, <1>2, <1>8, <2>1
  <2>3. i # sg_desc
    BY <1>1, <1>8, <2>1
  <2>4. TellsSize(descs, i)
    BY <1>6, <2>1, <2>2, <2>3
  <2>5. PICK j \in 1..n : /\ IsPacket(descs, i, j)
                          /\ descs[i].cnt = j - i + 1 + (IF i = 2 THEN 1 ELSE 0)
    BY <2>4 DEF TellsSize
  <2>6. IsPacket(descs', i, j)
    <3>1. \A k \in i..(j - 1) : k \in 1..n
      BY <1>1, <2>1, <2>5
    <3>2. j <= Len(descs')
      BY <1>1, <1>2, <2>5
    <3>3. QED
      BY <1>2, <2>5, <3>1, <3>2 DEF IsPacket
  <2>7. descs'[i].cnt = descs[i].cnt /\ j \in 1..Len(descs')
    BY <1>1, <1>2, <2>1, <2>5
  <2>8. QED
    BY <2>5, <2>6, <2>7 DEF TellsSize
<1>9. PacketCounts'
  <2>1. descs'[1].eop
    BY <1>1, <1>2, <1>6
  <2>2. \A i \in 1..(n + 1) : descs'[i].kind # 3
    <3>1. \A i \in 1..(n + 1) : i = n + 1 \/ i \in 1..n
      BY <1>1
    <3>2. QED
      BY <1>2, <1>6, <3>1
  <2>3. QED
    BY <1>2, <1>7, <1>8, <2>1, <2>2 DEF PacketCounts
<1>10. (PacketsOfMss /\ CountsTrue)'
  BY DEF PacketsOfMss, CountsTrue
<1>11. QED
  BY <1>5, <1>9, <1>10

LEMMA StepLinearPart ==
  ASSUME TsoIInv, LinearFits, LinearPart
  PROVE  TsoIInv'
<1> USE DEF TsoIInv
<1> DEFINE x == TsoDesc("linear", 0, skb.lin, 1)
<1>1. "linear" \in OctetBuf /\ 0 \in Nat /\ 1 \in 0..3
  BY DEF OctetBuf
<1>2. skb.mss \in Nat \ {0} /\ skb.lin \in Nat /\ skb.lin <= skb.mss
      /\ descs \in Seq(DescSet)
  BY FrameFacts DEF LinearFits, CutTypes
<1>3. x \in DescSet
  BY <1>1, <1>2, TsoDescIs
<1>4. x.buf = "linear" /\ x.off = 0 /\ x.len = skb.lin /\ x.kind = 1 /\ ~x.eop
  BY <1>1, <1>2, TsoDescIs
<1>5. /\ pc = "linear" /\ pc' = "frag" /\ descs' = Append(descs, x)
      /\ sg_desc' = 2 /\ sg_desc_cnt' = 1 /\ rem_data' = skb.mss - skb.lin
      /\ skb' = skb /\ avail' = avail /\ frag' = frag /\ len' = len
      /\ first_chunk' = first_chunk
  BY DEF LinearPart
<1>6. /\ Len(descs) = 1 /\ rem_data = skb.mss /\ skb.lin > 0 /\ frag = 0
      /\ sg_desc = 0 /\ sg_desc_cnt = 0 /\ first_chunk = 1
  BY <1>5 DEF WalkPosition
<1> HIDE DEF x
<1>7. /\ descs' \in Seq(DescSet) /\ Len(descs') = 2
      /\ Cover(descs', 2) = Cover(descs, 1) \o Octets("linear", 0, skb.lin)
  <2>1. /\ descs' \in Seq(DescSet) /\ Len(descs') = Len(descs) + 1
        /\ Cover(descs', Len(descs')) =
             Cover(descs, Len(descs)) \o Octets(x.buf, x.off, x.len)
    BY <1>2, <1>3, <1>5, CoverAppend
  <2>2. Len(descs') = 2
    BY <1>6, <2>1
  <2>3. QED
    BY <1>4, <1>6, <2>1, <2>2
<1>8. CutTypes'
  BY <1>2, <1>5, <1>6, <1>7 DEF CutTypes, TsoTypeOK
<1>9. WalkPosition'
  BY <1>2, <1>5, <1>6, <1>7 DEF WalkPosition, Filling
<1>10. CutSoFar'
  <2>1. Cover(descs, 1) = <<>>
    BY <1>5, <1>6 DEF CutSoFar
  <2>2. LinearOctets \in Seq(Octet) /\ LinearOctets = Octets("linear", 0, skb.lin)
    BY FrameFacts DEF LinearOctets
  <2>3. Cover(descs', 2) = LinearOctets
    BY <1>7, <2>1, <2>2, ConcatEmptySeq
  <2>4. LinearOctets \o <<>> = LinearOctets
    BY <2>2, ConcatEmptySeq
  <2>5. FragCover(skb.frags, 0) = <<>>
    BY FragNone
  <2>6. LinearOctets' = LinearOctets
    BY <1>5, PayloadSame
  <2>7. QED
    BY <1>5, <1>6, <1>7, <2>3, <2>4, <2>5, <2>6 DEF CutSoFar
<1>11. (PacketEnds /\ PacketCounts /\ PacketsOfMss /\ CountsTrue)'
  <2>1. Filling /\ Filling' /\ pc' # "done"
    BY <1>5 DEF Filling
  <2>2. rem_data # 0 /\ x.len \in 1..rem_data /\ x.kind # 3
    BY <1>2, <1>4, <1>6
  <2>3. rem_data' = rem_data - x.len
    BY <1>4, <1>5, <1>6
  <2>4. sg_desc' = (IF sg_desc = 0 THEN Len(descs) + 1 ELSE sg_desc)
        /\ sg_desc_cnt' = sg_desc_cnt + 1
    BY <1>5, <1>6
  <2>5. QED
    BY <1>3, <1>4, <1>5, <2>1, <2>2, <2>3, <2>4, DataStep
<1>12. QED
  BY <1>8, <1>9, <1>10, <1>11

LEMMA StepChunk ==
  ASSUME TsoIInv, Chunk
  PROVE  TsoIInv'
<1> USE DEF TsoIInv
<1> DEFINE k == ChunkLen
           o == ChunkOff
           x == TsoDesc(frag, o, k, ChunkKind)
<1>1. /\ pc = "chunk" /\ pc' = "chunk" /\ descs' = Append(descs, x)
      /\ len > 0 /\ rem_data # 0 /\ len' = len - k /\ rem_data' = rem_data - k
      /\ sg_desc' = (IF sg_desc = 0 THEN Len(descs) + 1 ELSE sg_desc)
      /\ sg_desc_cnt' = sg_desc_cnt + 1
      /\ skb' = skb /\ avail' = avail /\ frag' = frag /\ first_chunk' = first_chunk
  BY DEF Chunk
<1>2. /\ skb.mss \in Nat \ {0} /\ skb.frags \in Seq(Nat \ {0}) /\ Len(skb.frags) \in Nat
      /\ descs \in Seq(DescSet) /\ frag \in 1..Len(skb.frags)
      /\ len \in 0..skb.frags[frag] /\ rem_data \in 0..skb.mss /\ Len(descs) >= 1
      /\ sg_desc \in 0..Len(descs) /\ sg_desc_cnt \in Nat /\ first_chunk \in {0, 1}
  BY <1>1, FrameFacts DEF CutTypes, TsoTypeOK, WalkPosition, Filling
<1>3. skb.frags[frag] \in Nat
  BY <1>2
<1>4. k \in 1..rem_data /\ k \in 1..len
  BY <1>1, <1>2, <1>3 DEF ChunkLen
<1>5. o = skb.frags[frag] - len /\ o \in Nat
  BY <1>2, <1>3 DEF ChunkOff
<1>6. ChunkKind \in {1, 2}
  BY DEF ChunkKind
<1> HIDE DEF k, o
<1>8. k \in Nat /\ frag \in OctetBuf /\ ChunkKind \in 0..3
  BY <1>2, <1>4, <1>6 DEF OctetBuf
<1>9. x \in DescSet
  BY <1>5, <1>8, TsoDescIs
<1>10. x.buf = frag /\ x.off = o /\ x.len = k /\ x.kind # 3 /\ ~x.eop
  <2>1. x.buf = frag /\ x.off = o /\ x.len = k /\ x.kind = ChunkKind /\ ~x.eop
    BY ONLY TRUE DEF TsoDesc
  <2>2. QED
    BY <1>6, <2>1
<1> HIDE DEF x
<1>11. /\ descs' \in Seq(DescSet) /\ Len(descs') = Len(descs) + 1
       /\ Cover(descs', Len(descs')) = Cover(descs, Len(descs)) \o Octets(frag, o, k)
  BY <1>1, <1>2, <1>9, <1>10, CoverAppend
<1>12. CutTypes'
  <2>1. sg_desc' \in 0..Len(descs') /\ sg_desc_cnt' \in Nat
    <3>1. Len(descs) \in Nat
      BY <1>2
    <3>2. CASE sg_desc = 0
      BY ONLY <1>1, <1>2, <1>11, <3>1, <3>2
    <3>3. CASE sg_desc # 0
      BY ONLY <1>1, <1>2, <1>11, <3>1, <3>3
    <3>4. QED
      BY <3>2, <3>3
  <2>2. len' \in Int /\ rem_data' \in Int
    BY <1>1, <1>2, <1>3, <1>4
  <2>3. QED
    BY <1>1, <1>2, <1>11, <2>1, <2>2 DEF CutTypes, TsoTypeOK
<1>13. WalkPosition'
  <2>1. len' \in 0..skb.frags[frag] /\ rem_data' \in 0..skb.mss
    <3>1. len' = len - k /\ rem_data' = rem_data - k
      BY <1>1
    <3>2. /\ len \in Nat /\ len <= skb.frags[frag] /\ rem_data \in Nat /\ rem_data <= skb.mss
          /\ skb.mss \in Nat
      BY <1>2, <1>3
    <3>3. QED
      BY ONLY <1>3, <1>4, <3>1, <3>2
  <2>2. Len(descs') >= 1
    BY <1>2, <1>11
  <2>3. QED
    BY <1>1, <1>2, <2>1, <2>2 DEF WalkPosition, Filling
<1>14. CutSoFar'
  <2> DEFINE s == LinearOctets \o FragCover(skb.frags, frag - 1)
             b == Octets(frag, 0, o)
             c == Octets(frag, o, k)
  <2>1. Cover(descs, Len(descs)) = s \o b
    BY <1>1, <1>5 DEF CutSoFar
  <2>2. frag - 1 \in 0..Len(skb.frags) /\ 0 \in Int /\ o \in Int
    BY <1>2, <1>5
  <2>3. LinearOctets \in Seq(Octet) /\ FragCover(skb.frags, frag - 1) \in Seq(Octet)
    BY <1>2, <2>2, FrameFacts, FragType
  <2>4. s \in Seq(Octet)
    BY <2>3, Concatenated
  <2>5. b \in Seq(Octet) /\ c \in Seq(Octet)
    BY <1>5, <1>8, <2>2, OctetsType
  <2>6. b \o c = Octets(frag, 0, o + k)
    <3>1. Octets(frag, 0, o) \o Octets(frag, 0 + o, k) = Octets(frag, 0, o + k)
      BY <1>5, <1>8, <2>2, OctetsSplit
    <3>2. 0 + o = o
      BY <1>5
    <3>3. QED
      BY <3>1, <3>2
  <2>7. o + k = skb.frags[frag] - len'
    <3>1. len' = len - k /\ len \in Nat /\ k \in Nat
      BY <1>1, <1>2, <1>3, <1>4
    <3>2. QED
      BY ONLY <1>3, <1>5, <3>1
  <2>8. Assoc(s, b, c)
    <3> HIDE DEF s, b, c
    <3>1. QED
      BY <2>4, <2>5, Associative, Zenon
  <2>9. (s \o b) \o c = s \o (b \o c)
    BY <2>8, Zenon DEF Assoc
  <2>10. Cover(descs', Len(descs')) = s \o Octets(frag, 0, skb.frags[frag] - len')
    BY <1>11, <2>1, <2>6, <2>7, <2>9, Zenon
  <2>11. LinearOctets' = LinearOctets
    BY <1>1, PayloadSame
  <2>12. QED
    BY <1>1, <2>10, <2>11 DEF CutSoFar
<1>15. (PacketEnds /\ PacketCounts /\ PacketsOfMss /\ CountsTrue)'
  <2>1. Filling /\ Filling' /\ pc' # "done"
    BY <1>1 DEF Filling
  <2>2. x.len \in 1..rem_data /\ rem_data' = rem_data - x.len
    BY <1>1, <1>4, <1>10
  <2>3. QED
    BY <1>1, <1>9, <1>10, <2>1, <2>2, DataStep
<1>16. QED
  BY <1>12, <1>13, <1>14, <1>15

\* When the packet is closed, every first descriptor tells the size of its packet.
LEMMA ClosedStep ==
  ASSUME TsoIInv, Filling, NEW es, es = CountPacket(wil_tx_last_desc(descs))
  PROVE  /\ es \in Seq(DescSet) /\ Len(es) = Len(descs) /\ es[1].eop
         /\ \A i \in 1..Len(descs) :
              es[i].kind # 3 /\ (es[i].eop <=> descs[i].eop \/ i = Len(descs))
         /\ \A i \in 0..Len(descs) : Cover(es, i) = Cover(descs, i)
         /\ \A i \in 2..Len(descs) : es[i - 1].eop => TellsSize(es, i)
<1> USE DEF TsoIInv
<1> DEFINE n == Len(descs)
<1>1. descs \in Seq(DescSet) /\ n \in Nat /\ n >= 1
  BY DEF CutTypes, WalkPosition
<1>2. /\ es \in Seq(DescSet) /\ Len(es) = n
      /\ \A i \in 1..n :
           /\ es[i].buf = descs[i].buf /\ es[i].off = descs[i].off
           /\ es[i].len = descs[i].len /\ es[i].kind = descs[i].kind
           /\ es[i].eop <=> descs[i].eop \/ i = n
           /\ es[i].cnt = IF sg_desc # 0 /\ i = sg_desc THEN sg_desc_cnt + first_chunk
                          ELSE descs[i].cnt
  BY <1>1, PacketClosed
<1>3. /\ OpenPacket
      /\ descs[1].eop
      /\ \A i \in 1..n : descs[i].kind # 3
      /\ \A i \in 2..n : descs[i - 1].eop /\ i # sg_desc => TellsSize(descs, i)
  BY DEF PacketCounts
<1>4. ASSUME NEW i \in 0..n PROVE Cover(es, i) = Cover(descs, i)
  <2>1. i \in Nat /\ \A k \in 1..i : k \in 1..n
    BY <1>1
  <2>2. QED
    BY <1>2, <2>1, CoverSame
<1>5. ASSUME NEW i \in 2..n, es[i - 1].eop PROVE TellsSize(es, i)
  <2>1. i - 1 \in 1..n /\ i - 1 # n /\ i \in 1..n
    BY <1>1
  <2>2. descs[i - 1].eop
    BY <1>2, <1>5, <2>1
  <2>3. CASE i = sg_desc
    <3>1. /\ sg_desc_cnt = n - i + 1 /\ \A k \in i..n : ~descs[k].eop
          /\ first_chunk = 1 <=> i = 2
      BY <1>1, <1>3, <2>3 DEF OpenPacket
    <3>2. first_chunk \in {0, 1}
      BY DEF CutTypes, TsoTypeOK
    <3>3. es[i].cnt = n - i + 1 + (IF i = 2 THEN 1 ELSE 0)
      BY <1>1, <1>2, <2>1, <2>3, <3>1, <3>2
    <3>4. IsPacket(es, i, n)
      <4>1. i <= n /\ n <= Len(es) /\ n \in 1..n
        BY <1>1, <1>2
      <4>2. es[n].eop
        BY <1>2, <4>1
      <4>3. ASSUME NEW k \in i..(n - 1) PROVE ~es[k].eop
        <5>1. k \in 1..n /\ k # n /\ k \in i..n
          BY <1>1
        <5>2. QED
          BY <1>2, <3>1, <5>1
      <4>4. QED
        BY <4>1, <4>2, <4>3 DEF IsPacket
    <3>5. n \in 1..Len(es)
      BY <1>1, <1>2
    <3>6. QED
      BY <3>3, <3>4, <3>5 DEF TellsSize
  <2>4. CASE i # sg_desc
    <3>1. PICK j \in 1..n : /\ IsPacket(descs, i, j)
                            /\ descs[i].cnt = j - i + 1 + (IF i = 2 THEN 1 ELSE 0)
      BY <1>3, <2>2, <2>4 DEF TellsSize
    <3>2. es[i].cnt = descs[i].cnt
      BY <1>2, <2>1, <2>4
    <3>3. i <= j /\ descs[j].eop /\ \A k \in i..(j - 1) : ~descs[k].eop
      BY <3>1 DEF IsPacket
    <3>4. ASSUME NEW k \in i..(j - 1) PROVE ~es[k].eop
      <4>1. k \in 1..n /\ k # n
        BY <1>1, <3>1
      <4>2. QED
        BY <1>2, <3>3, <4>1
    <3>5. es[j].eop /\ j <= Len(es) /\ j \in 1..Len(es)
      BY <1>1, <1>2, <3>1, <3>3
    <3>6. IsPacket(es, i, j)
      BY <3>3, <3>4, <3>5 DEF IsPacket
    <3>7. QED
      BY <3>1, <3>2, <3>5, <3>6 DEF TellsSize
  <2>5. QED
    BY <2>3, <2>4
<1>6. es[1].eop /\ \A i \in 1..n : es[i].kind # 3
  BY <1>1, <1>2, <1>3
<1>7. QED
  BY <1>2, <1>4, <1>5, <1>6

LEMMA StepEndPacket ==
  ASSUME TsoIInv, EndPacket
  PROVE  TsoIInv'
<1> USE DEF TsoIInv
<1> DEFINE n == Len(descs)
           m == skb.mss
<1>1. /\ pc = "chunk" /\ pc' = "chunk" /\ rem_data = 0 /\ rem_data' = m
      /\ descs' = CountPacket(wil_tx_last_desc(descs))
      /\ sg_desc' = 0 /\ sg_desc_cnt' = 0 /\ first_chunk' = 0
      /\ skb' = skb /\ avail' = avail /\ frag' = frag /\ len' = len
  BY DEF EndPacket
<1>2. Filling /\ Filling'
  BY <1>1 DEF Filling
<1>3. m \in Nat \ {0} /\ n \in Nat /\ n >= 1 /\ descs \in Seq(DescSet)
  BY <1>2, FrameFacts DEF CutTypes, WalkPosition
<1>4. /\ descs' \in Seq(DescSet) /\ Len(descs') = n /\ descs'[1].eop
      /\ \A i \in 1..n : descs'[i].kind # 3 /\ (descs'[i].eop <=> descs[i].eop \/ i = n)
      /\ \A i \in 0..n : Cover(descs', i) = Cover(descs, i)
      /\ \A i \in 2..n : descs'[i - 1].eop => TellsSize(descs', i)
  BY <1>1, <1>2, ClosedStep
<1>5. n # 1
  <2>1. OpenPacket
    BY <1>2 DEF PacketCounts
  <2>2. sg_desc # 0
    BY <1>1, <1>3, <2>1 DEF OpenPacket
  <2>3. QED
    BY <1>3, <2>1, <2>2 DEF OpenPacket
<1>6. n \in 0..n /\ n \in 1..n
  BY <1>3
<1>7. CutTypes'
  BY <1>1, <1>3, <1>4 DEF CutTypes, TsoTypeOK
<1>8. WalkPosition'
  BY <1>1, <1>3, <1>4 DEF WalkPosition, Filling
<1>9. CutSoFar'
  <2>1. LinearOctets' = LinearOctets
    BY <1>1, PayloadSame
  <2>2. Cover(descs', Len(descs')) = Cover(descs, n)
    BY <1>4, <1>6
  <2>3. QED
    BY <1>1, <2>1, <2>2 DEF CutSoFar
<1>10. PacketEnds'
  <2> DEFINE c == Len(Cover(descs, n))
  <2>1. c \in Nat
    <3>1. Cover(descs, n) \in Seq(Octet)
      BY <1>3, <1>6, CoverType
    <3>2. QED
      BY <3>1
  <2>2. (c + 0) % m = 0 /\ \A i \in 2..(n - 1) : descs[i].eop <=> Len(Cover(descs, i)) % m = 0
    BY <1>1, <1>2 DEF PacketEnds
  <2>3. (c + m) % m = 0
    <3>1. 0 \in 0..m
      BY <1>3
    <3>2. (c + 0 + m) % m = 0
      BY <1>3, <2>1, <2>2, <3>1, ModLacks
    <3>3. c + 0 + m = c + m
      BY <1>3, <2>1
    <3>4. QED
      BY <3>2, <3>3
  <2>4. Len(Cover(descs', Len(descs'))) = c
    BY <1>4, <1>6
  <2>5. descs'[Len(descs')].eop
    BY <1>4, <1>6
  <2>6. ASSUME NEW i \in 2..(Len(descs') - 1)
        PROVE  descs'[i].eop <=> Len(Cover(descs', i)) % m = 0
    <3>1. i \in 2..(n - 1) /\ i \in 1..n /\ i \in 0..n /\ i # n
      BY <1>3, <1>4
    <3>2. QED
      BY <1>4, <2>2, <3>1
  <2>7. QED
    BY <1>1, <2>3, <2>4, <2>5, <2>6 DEF PacketEnds
<1>11. PacketCounts'
  <2>1. OpenPacket'
    BY <1>1, <1>4, <1>5, <1>6 DEF OpenPacket
  <2>2. QED
    BY <1>4, <2>1 DEF PacketCounts
<1>12. (PacketsOfMss /\ CountsTrue)'
  BY <1>1 DEF PacketsOfMss, CountsTrue
<1>13. QED
  BY <1>7, <1>8, <1>9, <1>10, <1>11, <1>12


\* A descriptor whose type is set, or whose count.
LEMMA KindSet ==
  ASSUME NEW d \in DescSet, NEW kind \in 0..3
  PROVE  LET x == [d EXCEPT !.kind = kind]
         IN  /\ x \in DescSet /\ x.buf = d.buf /\ x.off = d.off /\ x.len = d.len
             /\ x.kind = kind /\ x.cnt = d.cnt /\ (x.eop <=> d.eop)
  BY DEF DescSet

LEMMA CountSet ==
  ASSUME NEW d \in DescSet, NEW cnt \in Nat
  PROVE  LET x == [d EXCEPT !.cnt = cnt]
         IN  /\ x \in DescSet /\ x.buf = d.buf /\ x.off = d.off /\ x.len = d.len
             /\ x.kind = d.kind /\ x.cnt = cnt /\ (x.eop <=> d.eop)
  BY DEF DescSet

\* The last descriptor is of the type that says so, and the header counts all.
Closed(es, n) == [es EXCEPT ![n].kind = 3, ![1].cnt = n]

LEMMA FrameClosed ==
  ASSUME NEW es \in Seq(DescSet), NEW n \in Nat, n = Len(es), n >= 1
  PROVE  LET fs == Closed(es, n)
         IN  /\ fs \in Seq(DescSet) /\ Len(fs) = n
             /\ \A i \in 1..n :
                  /\ fs[i].buf = es[i].buf /\ fs[i].off = es[i].off /\ fs[i].len = es[i].len
                  /\ fs[i].eop <=> es[i].eop
                  /\ fs[i].kind = IF i = n THEN 3 ELSE es[i].kind
                  /\ fs[i].cnt = IF i = 1 THEN n ELSE es[i].cnt
<1> DEFINE last == [es[n] EXCEPT !.kind = 3]
           ds == [es EXCEPT ![n] = last]
           head == [ds[1] EXCEPT !.cnt = n]
           fs == [ds EXCEPT ![1] = head]
<1>1. n \in 1..n /\ 1 \in 1..n /\ \A i \in 1..n : es[i] \in DescSet
  OBVIOUS
<1>2. /\ last \in DescSet /\ last.buf = es[n].buf /\ last.off = es[n].off
      /\ last.len = es[n].len /\ last.kind = 3 /\ last.cnt = es[n].cnt
      /\ last.eop <=> es[n].eop
  <2>1. es[n] \in DescSet /\ 3 \in 0..3
    BY <1>1
  <2>2. QED
    BY <2>1, KindSet
<1> HIDE DEF last
<1>3. ds \in Seq(DescSet) /\ Len(ds) = n
      /\ \A i \in 1..n : ds[i] = IF i = n THEN last ELSE es[i]
  BY <1>1, <1>2, ExceptSeq
<1> HIDE DEF ds
<1>4. /\ head \in DescSet /\ head.buf = ds[1].buf /\ head.off = ds[1].off
      /\ head.len = ds[1].len /\ head.kind = ds[1].kind /\ head.cnt = n
      /\ head.eop <=> ds[1].eop
  <2>1. ds[1] \in DescSet
    BY <1>1, <1>3
  <2>2. QED
    BY <2>1, CountSet
<1> HIDE DEF head
<1>5. fs \in Seq(DescSet) /\ Len(fs) = n
      /\ \A i \in 1..n : fs[i] = IF i = 1 THEN head ELSE ds[i]
  BY <1>1, <1>3, <1>4, ExceptSeq
<1> HIDE DEF fs
<1>6. \A i \in 1..n :
        /\ ds[i].buf = es[i].buf /\ ds[i].off = es[i].off /\ ds[i].len = es[i].len
        /\ ds[i].eop <=> es[i].eop
        /\ ds[i].kind = IF i = n THEN 3 ELSE es[i].kind
        /\ ds[i].cnt = es[i].cnt
  BY <1>1, <1>2, <1>3
<1>7. \A i \in 1..n :
        /\ fs[i].buf = es[i].buf /\ fs[i].off = es[i].off /\ fs[i].len = es[i].len
        /\ fs[i].eop <=> es[i].eop
        /\ fs[i].kind = IF i = n THEN 3 ELSE es[i].kind
        /\ fs[i].cnt = IF i = 1 THEN n ELSE es[i].cnt
  BY <1>1, <1>4, <1>5, <1>6
<1>8. Closed(es, n) = fs
  BY DEF Closed, fs, head, ds, last
<1>9. QED
  BY <1>5, <1>7, <1>8

\* A packet ends where it ends.
LEMMA PacketEndIs ==
  ASSUME NEW ds \in Seq(DescSet), NEW i \in Nat, NEW j \in Nat, IsPacket(ds, i, j)
  PROVE  (CHOOSE e \in i..Len(ds) : ds[e].eop /\ \A k \in i..(e - 1) : ~ds[k].eop) = j
<1> DEFINE P(e) == ds[e].eop /\ \A k \in i..(e - 1) : ~ds[k].eop
<1>1. j \in i..Len(ds) /\ P(j)
  BY DEF IsPacket
<1>2. ASSUME NEW e \in i..Len(ds), P(e) PROVE e = j
  <2>1. ~(e < j)
    <3>1. SUFFICES ASSUME e < j PROVE FALSE
      OBVIOUS
    <3>2. e \in i..(j - 1)
      BY <3>1
    <3>3. QED
      BY <1>1, <1>2, <3>2
  <2>2. ~(j < e)
    <3>1. SUFFICES ASSUME j < e PROVE FALSE
      OBVIOUS
    <3>2. j \in i..(e - 1)
      BY <1>1, <3>1
    <3>3. QED
      BY <1>1, <1>2, <3>2
  <2>3. QED
    BY <1>1, <2>1, <2>2
<1>3. QED
  BY <1>1, <1>2

LEMMA StepFinish ==
  ASSUME TsoIInv, Finish
  PROVE  TsoIInv'
<1> DEFINE n == Len(descs)
           m == skb.mss
           es == CountPacket(wil_tx_last_desc(descs))
<1>1. /\ pc = "frag" /\ pc' = "done" /\ frag = Len(skb.frags)
      /\ descs' = [es EXCEPT ![n].kind = 3, ![1].cnt = n]
      /\ skb' = skb /\ avail' = avail /\ frag' = frag /\ len' = len /\ rem_data' = rem_data
      /\ sg_desc' = sg_desc /\ sg_desc_cnt' = sg_desc_cnt /\ first_chunk' = first_chunk
  BY DEF Finish, packet
<1>2. Filling
  BY <1>1 DEF Filling
<1>3. CutTypes /\ WalkPosition /\ CutSoFar /\ PacketEnds /\ PacketCounts
  BY DEF TsoIInv
<1>4. m \in Nat \ {0} /\ n \in Nat /\ n >= 1 /\ descs \in Seq(DescSet)
  BY <1>2, <1>3, FrameFacts DEF CutTypes, WalkPosition
<1>5. /\ es \in Seq(DescSet) /\ Len(es) = n /\ es[1].eop
      /\ \A i \in 1..n : es[i].kind # 3 /\ (es[i].eop <=> descs[i].eop \/ i = n)
      /\ \A i \in 0..n : Cover(es, i) = Cover(descs, i)
      /\ \A i \in 2..n : es[i - 1].eop => TellsSize(es, i)
  BY <1>2, ClosedStep
<1> HIDE DEF es
<1>6. /\ descs' \in Seq(DescSet) /\ Len(descs') = n
      /\ \A i \in 1..n :
           /\ descs'[i].buf = es[i].buf /\ descs'[i].off = es[i].off
           /\ descs'[i].len = es[i].len
           /\ descs'[i].eop <=> es[i].eop
           /\ descs'[i].kind = IF i = n THEN 3 ELSE es[i].kind
           /\ descs'[i].cnt = IF i = 1 THEN n ELSE es[i].cnt
  <2> DEFINE k == n
  <2>1. k \in Nat /\ k >= 1 /\ k = Len(es) /\ k = n
    BY <1>4, <1>5
  <2>2. descs' = Closed(es, k)
    BY <1>1 DEF Closed
  <2> HIDE DEF k
  <2>3. /\ descs' \in Seq(DescSet) /\ Len(descs') = k
        /\ \A i \in 1..k :
             /\ descs'[i].buf = es[i].buf /\ descs'[i].off = es[i].off
             /\ descs'[i].len = es[i].len
             /\ descs'[i].eop <=> es[i].eop
             /\ descs'[i].kind = IF i = k THEN 3 ELSE es[i].kind
             /\ descs'[i].cnt = IF i = 1 THEN k ELSE es[i].cnt
    BY <1>5, <2>1, <2>2, FrameClosed
  <2>4. QED
    BY ONLY <2>3 DEF k
<1>7. ASSUME NEW i \in 0..n PROVE Cover(descs', i) = Cover(descs, i)
  <2>1. i \in Nat /\ \A k \in 1..i : k \in 1..n
    BY <1>4
  <2>2. Cover(descs', i) = Cover(es, i)
    BY <1>6, <2>1, CoverSame
  <2>3. QED
    BY <1>5, <2>2
<1>8. CutTypes'
  BY <1>1, <1>3, <1>4, <1>6 DEF CutTypes, TsoTypeOK
<1>9. WalkPosition'
  BY <1>1 DEF WalkPosition, Filling
<1>10. CutSoFar'
  <2>1. Cover(descs, n) = Payload
    BY <1>1, <1>3, PayloadIs DEF CutSoFar
  <2>2. n \in 0..n
    BY <1>4
  <2>3. Cover(descs', Len(descs')) = Payload
    BY <1>6, <1>7, <2>1, <2>2
  <2>4. Payload' = Payload
    BY <1>1, PayloadSame
  <2>5. QED
    BY <1>1, <2>3, <2>4 DEF CutSoFar
<1>11. PacketEnds' /\ PacketCounts'
  BY <1>1 DEF PacketEnds, PacketCounts, Filling
<1>12. PacketsOfMss'
  <2>1. \A i \in 2..(n - 1) : descs[i].eop <=> Len(Cover(descs, i)) % m = 0
    BY <1>2, <1>3 DEF PacketEnds
  <2>2. ASSUME NEW i \in 2..n
        PROVE  descs'[i].eop <=> Len(Cover(descs', i)) % m = 0 \/ i = n
    <3>1. i \in 1..n /\ i \in 0..n
      BY <1>4
    <3>2. descs'[i].eop <=> descs[i].eop \/ i = n
      BY <1>5, <1>6, <3>1
    <3>4. Cover(descs', i) = Cover(descs, i)
      BY <1>7, <3>1
    <3>5. i = n \/ i \in 2..(n - 1)
      BY <1>4
    <3>6. QED
      BY <2>1, <3>2, <3>4, <3>5
  <2>3. Len(descs') = n /\ skb'.mss = m
    BY <1>1, <1>6
  <2>4. \A i \in 2..Len(descs') :
          descs'[i].eop <=> Len(Cover(descs', i)) % skb'.mss = 0 \/ i = Len(descs')
    BY <2>2, <2>3
  <2>5. QED
    BY <2>4 DEF PacketsOfMss, Covered, Cover
<1>13. CountsTrue'
  <2>1. descs'[1].cnt = n /\ descs'[1].eop
    <3>1. 1 \in 1..n
      BY <1>4
    <3>2. QED
      BY <1>5, <1>6, <3>1
  <2>2. ASSUME NEW i \in 2..n, descs'[i - 1].eop
        PROVE  descs'[i].cnt = PacketSize(i)' + (IF i = 2 THEN 1 ELSE 0)
    <3>1. i \in 1..n /\ i - 1 \in 1..n /\ i \in Nat /\ i # 1
      BY <1>4
    <3>2. es[i - 1].eop
      BY <1>6, <2>2, <3>1
    <3>3. PICK j \in 1..n : /\ IsPacket(es, i, j)
                            /\ es[i].cnt = j - i + 1 + (IF i = 2 THEN 1 ELSE 0)
      BY <1>5, <3>2 DEF TellsSize
    <3>4. i <= j /\ j <= n /\ es[j].eop /\ (\A k \in i..(j - 1) : ~es[k].eop) /\ j \in Nat
      BY <1>4, <1>5, <3>3 DEF IsPacket
    <3>5. IsPacket(descs', i, j)
      <4>1. \A k \in i..(j - 1) : k \in 1..n
        BY <1>4, <3>1, <3>4
      <4>2. QED
        BY <1>6, <3>3, <3>4, <4>1 DEF IsPacket
    <3>6. PacketSize(i)' = j - i + 1
      BY <1>6, <3>1, <3>4, <3>5, PacketEndIs DEF PacketSize
    <3>7. descs'[i].cnt = es[i].cnt
      BY <1>6, <3>1
    <3>8. QED
      BY <3>3, <3>6, <3>7
  <2>3. ASSUME NEW i \in 2..n PROVE descs'[i].kind = 3 <=> i = n
    <3>1. i \in 1..n
      BY <1>4
    <3>2. QED
      BY <1>5, <1>6, <3>1
  <2>4. QED
    BY <1>6, <2>1, <2>2, <2>3 DEF CountsTrue
<1>14. QED
  BY <1>8, <1>9, <1>10, <1>11, <1>12, <1>13 DEF TsoIInv

-----------------------------------------------------------------------------
(* Every step.                                                                *)

LEMMA TsoStart ==
  ASSUME TsoInit
  PROVE  TsoIInv
<1>1. /\ skb \in [mss : Mss, lin : LinearLens, frags : Frags] /\ avail \in Avail
      /\ descs = <<>> /\ Len(descs) = 0 /\ frag = 0 /\ len = 0 /\ rem_data = 0
      /\ sg_desc = 0 /\ sg_desc_cnt = 0 /\ first_chunk = 1 /\ pc = "start"
  BY DEF TsoInit
<1>2. CutTypes
  <2>1. skb.frags \in Frags
    BY <1>1
  <2>2. Len(skb.frags) \in Nat
    BY <2>1, FrameAssumption
  <2>3. 0 \in 0..Len(skb.frags)
    BY <2>2
  <2>4. descs \in Seq(DescSet)
    BY <1>1, EmptySeq
  <2>5. QED
    BY <1>1, <2>3, <2>4 DEF CutTypes, TsoTypeOK
<1>3. WalkPosition
  BY <1>1 DEF WalkPosition, Filling
<1>4. CutSoFar
  BY <1>1, CoverNone DEF CutSoFar
<1>5. PacketEnds /\ PacketCounts /\ PacketsOfMss /\ CountsTrue
  BY <1>1 DEF PacketEnds, PacketCounts, PacketsOfMss, CountsTrue, Filling
<1>6. QED
  BY <1>2, <1>3, <1>4, <1>5 DEF TsoIInv

LEMMA TsoStutters ==
  ASSUME TsoIInv, UNCHANGED tsoVars
  PROVE  TsoIInv'
<1>1. /\ skb' = skb /\ avail' = avail /\ descs' = descs /\ frag' = frag /\ len' = len
      /\ rem_data' = rem_data /\ sg_desc' = sg_desc /\ sg_desc_cnt' = sg_desc_cnt
      /\ first_chunk' = first_chunk /\ pc' = pc
  BY DEF tsoVars
<1>2. (CutTypes /\ WalkPosition)'
  BY <1>1 DEF TsoIInv, CutTypes, TsoTypeOK, WalkPosition, Filling
<1>3. CutSoFar'
  BY <1>1, PayloadSame DEF TsoIInv, CutSoFar
<1>4. PacketEnds'
  BY <1>1 DEF TsoIInv, PacketEnds, Filling
<1>5. PacketCounts'
  <2>1. OpenPacket' = OpenPacket
    BY <1>1 DEF OpenPacket
  <2>2. QED
    BY <1>1, <2>1 DEF TsoIInv, PacketCounts, Filling
<1>6. PacketsOfMss'
  BY <1>1 DEF TsoIInv, PacketsOfMss, Covered
<1>7. CountsTrue'
  BY <1>1 DEF TsoIInv, CountsTrue, PacketSize
<1>8. QED
  BY <1>2, <1>3, <1>4, <1>5, <1>6, <1>7 DEF TsoIInv

\* The inductive invariant of wil_tx_vring_tso, for a linear part that fits.
THEOREM CutInvariant ==
  ASSUME LinearFits
  PROVE  TsoSpec => []TsoIInv
<1>1. TsoInit => TsoIInv
  BY TsoStart
<1>2. TsoIInv /\ [TsoNext]_tsoVars => TsoIInv'
  <2>1. SUFFICES ASSUME TsoIInv, [TsoNext]_tsoVars PROVE TsoIInv'
    OBVIOUS
  <2>2. CASE RingFull
    BY <2>1, <2>2, StepRingFull
  <2>3. CASE Header
    BY <2>1, <2>3, StepHeader
  <2>4. CASE LinearPart
    BY <2>1, <2>4, StepLinearPart
  <2>5. CASE NextFrag
    BY <2>1, <2>5, StepNextFrag
  <2>6. CASE EndFrag
    BY <2>1, <2>6, StepEndFrag
  <2>7. CASE EndPacket
    BY <2>1, <2>7, StepEndPacket
  <2>8. CASE Chunk
    BY <2>1, <2>8, StepChunk
  <2>9. CASE GiveUp
    BY <2>1, <2>9, StepGiveUp
  <2>10. CASE Finish
    BY <2>1, <2>10, StepFinish
  <2>11. CASE UNCHANGED tsoVars
    BY <2>1, <2>11, TsoStutters
  <2>12. QED
    BY <2>1, <2>2, <2>3, <2>4, <2>5, <2>6, <2>7, <2>8, <2>9, <2>10, <2>11 DEF TsoNext
<1>3. QED
  BY <1>1, <1>2, PTL DEF TsoSpec

\* The loop of wil_tx_vring_tso covers the payload of the frame, every octet once
\* and in order (txrx.c:970-1020).
THEOREM PayloadCovered ==
  ASSUME LinearFits
  PROVE  TsoSpec => []CutExactly
<1>1. TsoIInv => CutExactly
  <2>1. SUFFICES ASSUME TsoIInv PROVE CutExactly
    OBVIOUS
  <2>2. IsPrefix(Cover(descs, Len(descs)), Payload)
    BY <2>1, CutIsPrefix DEF TsoIInv
  <2>3. pc = "done" => Cover(descs, Len(descs)) = Payload
    BY <2>1 DEF TsoIInv, CutSoFar
  <2>4. QED
    BY <2>2, <2>3, CoveredIs DEF CutExactly
<1>2. QED
  BY <1>1, CutInvariant, PTL

\* A finished frame is cut in packets of gso_size octets, the last perhaps of
\* fewer (txrx.c:971).
THEOREM PacketsFull ==
  ASSUME LinearFits
  PROVE  TsoSpec => []PacketsOfMss
<1>1. TsoIInv => PacketsOfMss
  BY DEF TsoIInv
<1>2. QED
  BY <1>1, CutInvariant, PTL

\* In a finished frame the counts that wil_set_tx_desc_count writes are the sizes
\* of the packets, the header counts every descriptor and the last is marked.
THEOREM CountsRight ==
  ASSUME LinearFits
  PROVE  TsoSpec => []CountsTrue
<1>1. TsoIInv => CountsTrue
  BY DEF TsoIInv
<1>2. QED
  BY <1>1, CutInvariant, PTL

-----------------------------------------------------------------------------
(* The frames of TxVring.                                                     *)

\* The frame that was cut, as TxVring has it.
Cut ==
  [tso |-> TRUE, frags |-> Len(skb.frags), lin |-> skb.lin > 0,
   chunks |-> Len(descs) - (IF skb.lin > 0 THEN 2 ELSE 1), copy |-> FALSE]

\* A finished frame takes the descriptors that TxVring has it take, ends packets
\* at one of the sets of descriptors that TxVring allows, and had the room that
\* TxVring asks for; one that is refused had not.
CutAsInRing ==
  /\ pc = "done" =>
       /\ Cut.chunks \in Nat
       /\ Descs(Cut) = Len(descs)
       /\ {i - 1 : i \in {j \in 1..Len(descs) : descs[j].eop}} \in EopSets(Cut)
       /\ Need(Cut) <= avail
       /\ Cut.chunks = 0 \/ Descs(Cut) <= avail
  /\ pc = "busy" => avail < Need(Cut)

\* The descriptors before the fragments, and the room there is.
BeforeFrags == IF skb.lin > 0 THEN 2 ELSE 1

RoomForCut ==
  /\ avail \in Nat
  /\ pc = "busy" => avail < 3 * Len(skb.frags) + 1
  /\ pc \in {"linear", "frag", "chunk", "done"} => avail >= 3 * Len(skb.frags) + 1
  /\ pc \in {"frag", "chunk", "done"} =>
       /\ Len(descs) >= BeforeFrags
       /\ Len(descs) <= avail \/ (frag = 0 /\ Len(descs) = BeforeFrags)

LEMMA RoomStep ==
  ASSUME TsoIInv, RoomForCut, [TsoNext]_tsoVars
  PROVE  RoomForCut'
<1> DEFINE need == 3 * Len(skb.frags) + 1
<1>1. /\ avail \in Nat /\ Len(skb.frags) \in Nat /\ Len(descs) \in Nat /\ need \in Nat
      /\ frag \in 0..Len(skb.frags) /\ descs \in Seq(DescSet)
  BY FrameFacts DEF TsoIInv, CutTypes, TsoTypeOK, RoomForCut
<1>2. CASE RingFull
  BY <1>1, <1>2 DEF RingFull, RoomForCut
<1>3. CASE Header
  <2>1. skb' = skb /\ avail' = avail /\ frag' = frag /\ frag = 0 /\ avail >= need
        /\ pc' = (IF skb.lin > 0 THEN "linear" ELSE "frag")
    BY <1>3 DEF Header, TsoIInv, WalkPosition
  <2>2. Len(descs') = 1
    BY <1>3 DEF Header
  <2>3. BeforeFrags' = BeforeFrags
    BY <2>1 DEF BeforeFrags
  <2>4. QED
    BY <1>1, <2>1, <2>2, <2>3 DEF RoomForCut, BeforeFrags
<1>4. CASE LinearPart
  <2>1. skb' = skb /\ avail' = avail /\ frag' = frag /\ pc = "linear" /\ pc' = "frag"
    BY <1>4 DEF LinearPart
  <2>2. skb.lin > 0 /\ Len(descs) = 1 /\ frag = 0
    BY <2>1 DEF TsoIInv, WalkPosition
  <2>3. Len(descs') = 2
    <3>1. descs' = Append(descs, TsoDesc("linear", 0, skb.lin, 1))
      BY <1>4 DEF LinearPart
    <3>2. Len(descs') = Len(descs) + 1
      BY ONLY <1>1, <3>1
    <3>3. QED
      BY ONLY <2>2, <3>2
  <2>4. BeforeFrags' = 2
    BY <2>1, <2>2 DEF BeforeFrags
  <2>5. QED
    BY <1>1, <2>1, <2>2, <2>3, <2>4 DEF RoomForCut
<1>5. CASE NextFrag
  <2>1. /\ skb' = skb /\ avail' = avail /\ frag' = frag + 1 /\ descs' = descs
        /\ pc = "frag" /\ pc' = "chunk" /\ frag < Len(skb.frags)
    BY <1>5 DEF NextFrag
  <2>2. BeforeFrags' = BeforeFrags /\ BeforeFrags \in {1, 2}
    BY <2>1 DEF BeforeFrags
  <2>3. Len(descs) <= avail
    BY <1>1, <2>1, <2>2 DEF RoomForCut
  <2>4. QED
    BY <1>1, <2>1, <2>2, <2>3 DEF RoomForCut
<1>6. CASE EndFrag
  <2>1. /\ skb' = skb /\ avail' = avail /\ frag' = frag /\ descs' = descs
        /\ pc = "chunk" /\ pc' = "frag"
    BY <1>6 DEF EndFrag
  <2>2. QED
    BY <1>1, <2>1 DEF RoomForCut, BeforeFrags
<1>7. CASE EndPacket
  <2>1. /\ skb' = skb /\ avail' = avail /\ frag' = frag /\ pc = "chunk" /\ pc' = "chunk"
        /\ descs' = CountPacket(wil_tx_last_desc(descs))
    BY <1>7 DEF EndPacket
  <2>2. Len(descs') = Len(descs)
    BY <2>1, ClosedStep DEF Filling
  <2>3. QED
    BY <1>1, <2>1, <2>2 DEF RoomForCut, BeforeFrags
<1>8. CASE Chunk
  <2>1. /\ skb' = skb /\ avail' = avail /\ frag' = frag /\ pc = "chunk" /\ pc' = "chunk"
        /\ Len(descs) # avail
    BY <1>8 DEF Chunk
  <2>2. Len(descs') = Len(descs) + 1
    BY <1>1, <1>8 DEF Chunk
  <2>3. frag >= 1
    BY <2>1 DEF TsoIInv, WalkPosition
  <2>4. Len(descs) <= avail
    BY <1>1, <2>1, <2>3 DEF RoomForCut
  <2>5. BeforeFrags' = BeforeFrags /\ BeforeFrags \in Nat
    BY <2>1 DEF BeforeFrags
  <2>6. QED
    BY <1>1, <2>1, <2>2, <2>4, <2>5 DEF RoomForCut
<1>9. CASE GiveUp
  BY <1>1, <1>9 DEF GiveUp, RoomForCut
<1>10. CASE Finish
  <2>1. /\ skb' = skb /\ avail' = avail /\ frag' = frag /\ pc = "frag" /\ pc' = "done"
        /\ descs' = Closed(CountPacket(wil_tx_last_desc(descs)), Len(descs))
    BY <1>10 DEF Finish, Closed
  <2> DEFINE es == CountPacket(wil_tx_last_desc(descs))
  <2>2. es \in Seq(DescSet) /\ Len(es) = Len(descs) /\ Len(descs) >= 1
    BY <2>1, ClosedStep DEF Filling, TsoIInv, WalkPosition
  <2> HIDE DEF es
  <2>3. Len(Closed(es, Len(descs))) = Len(descs)
    BY <1>1, <2>2, FrameClosed
  <2>4. Len(descs') = Len(descs)
    BY <2>1, <2>3 DEF es
  <2>5. QED
    BY <1>1, <2>1, <2>4 DEF RoomForCut, BeforeFrags
<1>11. CASE UNCHANGED tsoVars
  BY <1>11 DEF tsoVars, RoomForCut, BeforeFrags
<1>12. QED
  BY <1>2, <1>3, <1>4, <1>5, <1>6, <1>7, <1>8, <1>9, <1>10, <1>11 DEF TsoNext

LEMMA RingTakesCut ==
  ASSUME TsoIInv, RoomForCut
  PROVE  CutAsInRing
<1> DEFINE n == Len(descs)
           p == Len(skb.frags)
           E == {i - 1 : i \in {j \in 1..n : descs[j].eop}}
<1>1. avail \in Nat /\ p \in Nat /\ n \in Nat /\ skb.lin \in Nat
  BY FrameFacts DEF TsoIInv, CutTypes, RoomForCut
<1>2. Cut.tso /\ Cut.frags = p /\ Cut.chunks = n - BeforeFrags /\ (Cut.lin <=> skb.lin > 0)
  BY DEF Cut, BeforeFrags
<1>3. Need(Cut) = p * 3 + 1 /\ Linear(Cut) = BeforeFrags /\ BeforeFrags \in {1, 2}
  BY <1>2 DEF Need, Linear, BeforeFrags
<1>4. Descs(Cut) = BeforeFrags + (n - BeforeFrags)
  BY <1>2, <1>3 DEF Descs
<1>5. Descs(Cut) = n
  <2> HIDE DEF n
  <2>1. QED
    BY <1>1, <1>3, <1>4
<1>6. ASSUME pc = "done"
      PROVE  E \in EopSets(Cut)
  <2>1. n >= 1 /\ n >= BeforeFrags
    BY <1>1, <1>3, <1>6 DEF RoomForCut
  <2>2. descs[1].eop
    BY <1>6 DEF TsoIInv, CountsTrue
  <2>3. descs[n].eop
    <3>1. CASE n = 1
      BY <2>2, <3>1
    <3>2. CASE n # 1
      <4>1. n \in 2..n
        <5> HIDE DEF n
        <5>1. QED
          BY ONLY <1>1, <2>1, <3>2
      <4>2. QED
        BY <1>6, <4>1 DEF TsoIInv, PacketsOfMss
    <3>3. QED
      BY <3>1, <3>2
  <2> DEFINE inner == E \cap (1..(n - 2))
  <2>4. 1 \in {j \in 1..n : descs[j].eop} /\ n \in {j \in 1..n : descs[j].eop}
    BY <1>1, <2>1, <2>2, <2>3
  <2>5. 0 \in E /\ n - 1 \in E
    <3>1. 1 - 1 = 0
      OBVIOUS
    <3>2. QED
      BY <2>4, <3>1
  <2>6. \A e \in E : e \in 0..(n - 1)
    BY <1>1
  <2>7. E = {0, n - 1} \cup inner
    <3> HIDE DEF E, n
    <3>1. \A e \in 0..(n - 1) : e = 0 \/ e = n - 1 \/ e \in 1..(n - 2)
      BY <1>1
    <3>2. QED
      BY <2>5, <2>6, <3>1
  <2>8. inner \in SUBSET (1..(n - 2))
    OBVIOUS
  <2>9. EopSets(Cut) = {{0, n - 1} \cup i : i \in SUBSET (1..(n - 2))}
    BY <1>2, <1>5 DEF EopSets
  <2>10. QED
    BY <2>7, <2>8, <2>9
<1>7. ASSUME pc = "done"
      PROVE  Cut.chunks \in Nat /\ Need(Cut) <= avail /\ (Cut.chunks = 0 \/ Descs(Cut) <= avail)
  BY <1>1, <1>2, <1>3, <1>5, <1>7 DEF RoomForCut
<1>8. ASSUME pc = "busy"
      PROVE  avail < Need(Cut)
  BY <1>1, <1>3, <1>8 DEF RoomForCut
<1>9. QED
  BY <1>5, <1>6, <1>7, <1>8 DEF CutAsInRing

\* What TxVring takes for granted of GSO frames is what wil_tx_vring_tso does
\* (txrx.c:871-1036): the number of descriptors, the ends of packets and the room.
THEOREM RingHasCutFrames ==
  ASSUME LinearFits
  PROVE  TsoSpec => []CutAsInRing
<1>1. TsoInit => RoomForCut
  <2>1. SUFFICES ASSUME TsoInit PROVE RoomForCut
    OBVIOUS
  <2>2. avail \in Nat /\ pc = "start"
    BY <2>1, AvailAssumption DEF TsoInit
  <2>3. QED
    BY <2>2 DEF RoomForCut
<1>2. TsoIInv /\ RoomForCut /\ [TsoNext]_tsoVars => RoomForCut'
  BY RoomStep
<1>3. TsoIInv /\ RoomForCut => CutAsInRing
  BY RingTakesCut
<1>4. QED
  BY <1>1, <1>2, <1>3, CutInvariant, PTL DEF TsoSpec
=============================================================================
