--------------------------- MODULE TxQueue_proofs ---------------------------
(***************************************************************************)
(* Proofs about TxQueue, for any number of rings, stations and             *)
(* descriptors, as long as no ring is freed under the transmit path or the *)
(* poll (Overlap = FALSE; the module says what happens otherwise).         *)
(*                                                                         *)
(* BroadcastOnce speaks of the step that fills a ring; the invariant says, *)
(* between the first copy and the last retry of a broadcast frame, which   *)
(* stations have got it and which are still to get it.                     *)
(***************************************************************************)
EXTENDS TxQueue, TLAPS, FiniteSetTheorems

\* What xmit looks like where.
XmitType ==
  [pc : {"check", "fill"}, skb : Frame, ring : Ring, first : Ring, avail : Int]
    \cup [pc : {"next"}, skb : Frame, ring : Ring, first : Ring]

\* A station has one ring.
OneRingEach == \A q, r \in Allocated : sta[q] = sta[r] => q = r

\* The number of free descriptors that the transmit path goes by is not more
\* than there are, and the poll releases no more than the device has done.
Counted ==
  /\ \A r \in Ring : todo[r] + sent[r] <= Size - 1
  /\ xmit # NULL =>
       /\ xmit.pc \in {"check", "fill"} => xmit.avail <= Avail(xmit.ring)
       /\ xmit.pc = "fill" => xmit.skb.need <= xmit.avail
  /\ comp # NULL /\ comp.pc = "release" => comp.n \in 0..sent[comp.ring]

\* A frame on its way, copied or not, has been addressed to the station of its
\* first ring, which has not got it.
Addressed ==
  xmit # NULL =>
    /\ xmit \in XmitType
    /\ {xmit.ring, xmit.first} \subseteq Allocated
    /\ xmit.skb.to = sta[xmit.first] /\ xmit.skb.to \notin xmit.skb.got

\* While copies are made, the stations that have got one are those of rings above
\* the first that were visited before.
Copies ==
  xmit # NULL /\ (xmit.ring # xmit.first \/ xmit.pc = "next") =>
    /\ xmit.first < xmit.ring
    /\ \A s \in xmit.skb.got : \E q \in Allocated :
         /\ sta[q] = s
         /\ q < xmit.ring \/ (q = xmit.ring /\ xmit.pc = "next")

\* A requeued frame is addressed to a station that has not got it.
Requeued == retry # NULL => retry.to \in Stations /\ retry.to \notin retry.got

IInv == TypeOK /\ OneRingEach /\ Counted /\ Addressed /\ Copies /\ Requeued

\* What the progress of the transmit path consists of.
LEMMA XmitFields ==
  ASSUME NEW x \in XmitType
  PROVE  /\ x.skb \in Frame /\ x.ring \in Ring /\ x.first \in Ring /\ x.skb.need \in Nat
         /\ x.pc \in {"check", "fill"} => x.avail \in Int
<1>1. x.skb \in Frame /\ x.ring \in Ring /\ x.first \in Ring
  BY DEF XmitType
<1>2. x.pc \in {"check", "fill"} => x.avail \in Int
  BY DEF XmitType
<1>3. x.skb.need \in Needs
  BY <1>1 DEF Frame
<1>4. Needs \subseteq Nat
  BY NeedAssumption, SizeAssumption
<1>5. QED
  BY <1>1, <1>2, <1>3, <1>4

\* The ring that is visited now belongs to a station without the frame.
LEMMA RingNotServed ==
  ASSUME IInv, xmit # NULL, xmit.pc \in {"check", "fill"}
  PROVE  sta[xmit.ring] \notin xmit.skb.got
<1> USE DEF IInv
<1>1. xmit.ring \in Ring /\ xmit.first \in Ring /\ Ring \subseteq Int
  BY DEF Addressed, Allocated, Ring
<1>2. CASE xmit.ring = xmit.first
  BY <1>2 DEF Addressed
<1>3. CASE xmit.ring # xmit.first
  <2>1. SUFFICES ASSUME sta[xmit.ring] \in xmit.skb.got PROVE FALSE
    OBVIOUS
  <2>2. PICK q \in Allocated : sta[q] = sta[xmit.ring] /\ q < xmit.ring
    BY <1>3, <2>1 DEF Copies
  <2>3. q = xmit.ring
    BY <2>2 DEF OneRingEach, Addressed
  <2>4. xmit.ring \in Int /\ q < xmit.ring /\ q = xmit.ring
    BY <1>1, <2>2, <2>3
  <2>5. QED
    BY <2>4
<1>4. QED
  BY <1>2, <1>3

\* A set of rings that is not empty has a first.
LEMMA MinRing ==
  ASSUME NEW S \in SUBSET Ring, S # {}
  PROVE  Min(S) \in S
<1>0. S \in SUBSET Nat
  BY DEF Ring
<1> DEFINE T == {0..x : x \in S}
<1>1. T \subseteq FiniteSubsetsOf(Nat) /\ T # {}
  <2>1. ASSUME NEW x \in S PROVE 0..x \in FiniteSubsetsOf(Nat)
    <3>1. IsFiniteSet(0..x)
      BY <1>0, FS_Interval
    <3>2. 0..x \in SUBSET Nat
      OBVIOUS
    <3>3. QED
      BY <3>1, <3>2 DEF FiniteSubsetsOf
  <2>2. T # {}
    OBVIOUS
  <2>3. QED
    BY <2>1, <2>2
<1>2. PICK m \in T : \A k \in T : <<k, m>> \notin StrictSubsetOrdering(Nat)
  <2> HIDE DEF T
  <2>1. QED
    BY <1>1, FS_StrictSubsetOrderingWellFounded, WFMin
<1>3. PICK x \in S : m = 0..x
  OBVIOUS
<1>4. \A y \in S : x <= y
  <2>1. SUFFICES ASSUME NEW y \in S, y < x PROVE FALSE
    BY <1>0
  <2>2. 0..y \subseteq 0..x /\ 0..y # 0..x /\ 0..y \in SUBSET Nat /\ 0..x \in SUBSET Nat
    BY <1>0, <2>1
  <2>3. <<0..y, 0..x>> \in StrictSubsetOrdering(Nat)
    BY <2>2 DEF StrictSubsetOrdering
  <2>4. QED
    BY <2>3, <1>2, <1>3
<1>5. QED
  BY <1>4 DEF Min

-----------------------------------------------------------------------------
\* The driver starts with empty rings and nothing on its way.
LEMMA InitInv == Init => IInv
<1> SUFFICES ASSUME Init PROVE IInv
  OBVIOUS
<1>1. TypeOK
  <2>1. /\ todo \in [Ring -> 0..(Size - 1)] /\ sent \in [Ring -> 0..(Size - 1)]
        /\ rung \in [Ring -> BOOLEAN]
    BY SizeAssumption, ThresholdAssumption DEF Init
  <2>2. QED
    BY <2>1 DEF Init, TypeOK
<1>2. QED
  BY <1>1, SizeAssumption, ThresholdAssumption
  DEF Init, IInv, OneRingEach, Counted, Addressed, Copies, Requeued

\* A frame enters the transmit path: copied to the next ring, or not.
LEMMA VisitInv ==
  ASSUME IInv, UNCHANGED <<rings, stopped, irq, comp, linking>>, retry' \in {NULL, retry},
         NEW f \in Frame, NEW r \in Allocated, NEW first \in Allocated,
         Visit(f, r, first), f.to = sta[first], f.to \notin f.got,
         r # first => /\ first < r
                      /\ \A s \in f.got : \E q \in Allocated : sta[q] = s /\ q < r
  PROVE  IInv'
<1> USE DEF IInv
<1>1. r \in Ring /\ first \in Ring /\ Avail(r) \in Int
  BY SizeAssumption DEF Allocated, TypeOK, Avail
<1>2. xmit' \in XmitType /\ xmit' = [pc |-> "check", skb |-> f, ring |-> r, first |-> first,
                                     avail |-> Avail(r)]
  BY <1>1 DEF Visit, XmitType
<1>3. UNCHANGED <<sta, todo, sent, rung, stopped, irq, comp, linking>> /\ Allocated' = Allocated
  BY DEF rings, Allocated
<1>4. TypeOK'
  BY <1>1, <1>2, <1>3 DEF TypeOK
<1>5. OneRingEach' /\ Requeued'
  BY <1>3 DEF OneRingEach, Requeued
<1>6. Counted'
  BY <1>1, <1>2, <1>3 DEF Counted, Avail
<1>7. Addressed'
  BY <1>2, <1>3 DEF Addressed, XmitType
<1>8. Copies'
  BY <1>2, <1>3 DEF Copies
<1>9. QED
  BY <1>4, <1>5, <1>6, <1>7, <1>8

\* The stack sends a new frame or one it requeued.
LEMMA SentFrame ==
  ASSUME IInv, NEW f \in Frame, StackSends(f)
  PROVE  f.to \in Stations \cup {ALL, EAPOL} /\ (f.to \in Stations => f.to \notin f.got)
                /\ (f.to \notin Stations => f.got = {})
BY DestAssumption DEF IInv, StackSends, Requeued, Frame

\* wil_tx_bcast addresses the frame to the station of the first ring: from the stack
\* no station has got it yet, sent again that station still has not.
LEMMA BcastInv == ASSUME IInv, NEW f \in Frame, XmitBcast(f) PROVE IInv'
<1> DEFINE first == Min(Allocated)
<1>1. first \in Allocated /\ Allocated \subseteq Ring /\ Ring \subseteq Int
  BY MinRing DEF XmitBcast, Allocated, Ring
<1>2. f.got = {}
  BY SentFrame, DestAssumption DEF XmitBcast
<1>3. sta[first] \in Stations
  BY <1>1 DEF IInv, TypeOK, Allocated
<1> DEFINE g == wil_set_da_for_vring(f, first)
<1>4. g \in Frame /\ g.to = sta[first] /\ g.got = {}
  BY <1>2, <1>3 DEF wil_set_da_for_vring, Frame
<1> DEFINE r == IF CopiesAfter(first) = {} THEN first ELSE Min(CopiesAfter(first))
<1>5. r \in Allocated /\ (r # first => first < r)
  <2>1. CASE CopiesAfter(first) = {}
    BY <1>1, <2>1
  <2>2. CASE CopiesAfter(first) # {}
    <3>1. CopiesAfter(first) \in SUBSET Ring
      BY <1>1 DEF CopiesAfter
    <3>2. Min(CopiesAfter(first)) \in CopiesAfter(first)
      BY <2>2, <3>1, MinRing
    <3>3. QED
      BY <2>2, <3>2 DEF CopiesAfter
  <2>3. QED
    BY <2>1, <2>2
<1>6. /\ Visit(g, r, first) /\ retry' = NULL
      /\ UNCHANGED <<rings, stopped, irq, comp, linking>>
  BY DEF XmitBcast
<1> HIDE DEF first, g, r
<1>7. QED
  BY <1>1, <1>4, <1>5, <1>6, VisitInv

\* A frame for one station goes to that station's ring, and is never a copy.
LEMMA UnicastInv == ASSUME IInv, NEW f \in Frame, XmitUnicast(f) PROVE IInv'
<1>1. PICK r \in Allocated : sta[r] = f.to /\ Visit(f, r, r)
  BY DEF XmitUnicast
<1>2. f.to \in Stations
  BY <1>1 DEF IInv, TypeOK, Allocated
<1>3. f.to \notin f.got
  BY <1>2, SentFrame DEF XmitUnicast
<1>4. UNCHANGED <<rings, stopped, irq, comp, linking>> /\ retry' = NULL
  BY DEF XmitUnicast
<1>5. QED
  BY <1>1, <1>3, <1>4, VisitInv

\* The next copy goes to a ring above those visited; a station has one ring, so it
\* has not got the frame. After the last ring the original goes to the first.
LEMMA NextInv == ASSUME IInv, XmitNext PROVE IInv'
<1> DEFINE f == xmit.skb
           first == xmit.first
           C == CopiesAfter(xmit.ring)
           r == IF C = {} THEN first ELSE Min(C)
<1>1. /\ xmit \in XmitType /\ xmit.pc = "next" /\ xmit # NULL
      /\ xmit.ring \in Allocated /\ first \in Allocated
      /\ f.to = sta[first] /\ f.to \notin f.got
  BY DEF IInv, Addressed, XmitNext
<1>2. Allocated \subseteq Ring /\ Ring \subseteq Int /\ f \in Frame
  BY <1>1 DEF Allocated, Ring, XmitType
<1>3. /\ first < xmit.ring
      /\ \A s \in f.got : \E q \in Allocated : sta[q] = s /\ q <= xmit.ring
  <2>1. /\ first < xmit.ring
        /\ \A s \in f.got : \E q \in Allocated : sta[q] = s /\ (q < xmit.ring \/ q = xmit.ring)
    BY <1>1 DEF IInv, Copies
  <2>2. \A q \in Allocated : q < xmit.ring \/ q = xmit.ring => q <= xmit.ring
    <3>1. Allocated \subseteq Int /\ xmit.ring \in Int
      BY <1>1, <1>2
    <3> DEFINE m == xmit.ring
    <3> HIDE DEF m
    <3>2. Allocated \subseteq Int /\ m \in Int => \A q \in Allocated : q < m \/ q = m => q <= m
      OBVIOUS
    <3>3. QED
      BY <3>1, <3>2 DEF m
  <2>3. QED
    BY <2>1, <2>2
<1>4. r \in Allocated /\ (r # first => xmit.ring < r)
  <2>1. CASE C = {}
    BY <1>1, <2>1
  <2>2. CASE C # {}
    <3>1. C \in SUBSET Ring
      BY <1>2 DEF CopiesAfter
    <3>2. Min(C) \in C
      BY <2>2, <3>1, MinRing
    <3>3. QED
      BY <2>2, <3>2 DEF CopiesAfter
  <2>3. QED
    BY <2>1, <2>2
<1>5. r # first => /\ first < r
                   /\ \A s \in f.got : \E q \in Allocated : sta[q] = s /\ q < r
  <2> SUFFICES ASSUME r # first
               PROVE  /\ first < r
                      /\ \A s \in f.got : \E q \in Allocated : sta[q] = s /\ q < r
    OBVIOUS
  <2>1. xmit.ring < r /\ xmit.ring \in Int /\ r \in Int /\ first \in Int
    BY <1>1, <1>2, <1>4
  <2> HIDE DEF r, first, f, C
  <2>2. QED
    BY <1>2, <1>3, <2>1
<1>6. Visit(f, r, first) /\ UNCHANGED <<rings, stopped, irq, comp, linking>> /\ retry' = retry
  BY DEF XmitNext
<1> HIDE DEF f, first, C, r
<1>7. QED
  BY <1>1, <1>2, <1>4, <1>5, <1>6, VisitInv


\* The frame or copy is dealt with on the ring it visits: what Leave makes of xmit,
\* when the ring's station may have got it.
LEMMA LeaveInv ==
  ASSUME IInv, xmit # NULL, xmit.pc \in {"check", "fill"}, NEW f \in Frame, Leave(f),
         f.to = xmit.skb.to, f.got \in {xmit.skb.got, xmit.skb.got \cup {sta[xmit.ring]}},
         UNCHANGED sta
  PROVE  /\ xmit' = NULL \/ (xmit' \in XmitType /\ xmit'.pc = "next")
         /\ Addressed' /\ Copies'
<1>1. CASE xmit.ring = xmit.first
  <2>1. xmit' = NULL
    BY <1>1 DEF Leave, IsCopy
  <2>2. QED
    BY <2>1 DEF Addressed, Copies
<1>2. CASE xmit.ring # xmit.first
  <2>1. /\ xmit \in XmitType /\ {xmit.ring, xmit.first} \subseteq Allocated
        /\ f.to = sta[xmit.first] /\ f.to \notin xmit.skb.got
    BY DEF IInv, Addressed
  <2>2. f.to \notin f.got
    BY <1>2, <2>1 DEF IInv, OneRingEach
  <2>3. xmit' = [pc |-> "next", skb |-> f, ring |-> xmit.ring, first |-> xmit.first]
    BY <1>2 DEF Leave, IsCopy
  <2>4. xmit' \in XmitType /\ Allocated' = Allocated
    BY <2>1, <2>3 DEF XmitType, Allocated
  <2>5. Addressed'
    BY <2>1, <2>2, <2>3, <2>4 DEF Addressed
  <2>6. \A s \in f.got : \E q \in Allocated : sta[q] = s /\ (q < xmit.ring \/ q = xmit.ring)
    BY <1>2, <2>1 DEF IInv, Copies
  <2>7. xmit.first < xmit.ring
    BY <1>2 DEF IInv, Copies
  <2>8. Copies'
    BY <2>3, <2>4, <2>6, <2>7 DEF Copies
  <2>9. QED
    BY <2>3, <2>4, <2>5, <2>8
<1>3. QED
  BY <1>1, <1>2

\* The two tests of avail: the frame fits, or a copy is forgotten, or the original is
\* requeued with the stations that got copies.
LEMMA CheckInv == ASSUME IInv, XmitCheck PROVE IInv'
<1>1. /\ xmit # NULL /\ xmit.pc = "check" /\ xmit \in XmitType
      /\ {xmit.ring, xmit.first} \subseteq Allocated
      /\ xmit.skb.to = sta[xmit.first] /\ xmit.skb.to \notin xmit.skb.got
  BY DEF IInv, Addressed, XmitCheck
<1>2. /\ xmit.skb \in Frame /\ xmit.ring \in Ring /\ xmit.first \in Ring
      /\ xmit.avail \in Int /\ xmit.skb.need \in Nat
  BY <1>1, XmitFields
<1>3. UNCHANGED <<sta, todo, sent, rung, irq, comp, linking>> /\ Allocated' = Allocated
  BY DEF XmitCheck, rings, Allocated
<1>4. sta[xmit.first] \in Stations
  BY <1>1, <1>2 DEF IInv, TypeOK, Allocated
<1>5. retry' \in {NULL, retry, xmit.skb} /\ stopped' \in BOOLEAN
  BY DEF XmitCheck, IInv, TypeOK
<1>6. /\ xmit' = NULL \/ xmit' \in XmitType
      /\ Addressed' /\ Copies'
      /\ xmit' # NULL => /\ xmit'.pc \in {"next", "fill"}
                         /\ xmit'.pc = "fill" => xmit'.avail = xmit.avail /\ xmit'.ring = xmit.ring
                              /\ xmit'.skb.need <= xmit'.avail
  <2>1. CASE xmit.avail < xmit.skb.need
    BY <1>1, <1>2, <1>3, <2>1, LeaveInv DEF XmitCheck
  <2>2. CASE ~ (xmit.avail < xmit.skb.need)
    <3>1. xmit' = [xmit EXCEPT !.pc = "fill"]
      BY <2>2 DEF XmitCheck
    <3>2. /\ xmit' \in XmitType /\ xmit'.pc = "fill" /\ xmit'.skb = xmit.skb
          /\ xmit'.ring = xmit.ring /\ xmit'.first = xmit.first /\ xmit'.avail = xmit.avail
      BY <1>1, <3>1 DEF XmitType
    <3>3. Addressed'
      BY <1>1, <1>3, <3>2 DEF Addressed
    <3>4. Copies'
      BY <1>1, <1>3, <3>2 DEF IInv, Copies
    <3>5. QED
      BY <1>2, <2>2, <3>2, <3>3, <3>4
  <2>3. QED
    BY <2>1, <2>2
<1>7. TypeOK'
  <2>1. xmit' = NULL \/ (xmit'.skb \in Frame /\ xmit'.ring \in Ring /\ xmit'.first \in Ring)
    BY <1>6, XmitFields
  <2>2. QED
    BY <1>2, <1>3, <1>5, <2>1 DEF IInv, TypeOK
<1>8. OneRingEach' /\ Requeued'
  BY <1>1, <1>3, <1>4, <1>5 DEF IInv, OneRingEach, Requeued
<1>9. Counted'
  BY <1>1, <1>3, <1>6 DEF IInv, Counted, Avail
<1>10. QED
  BY <1>6, <1>7, <1>8, <1>9 DEF IInv

\* The station of the ring, and no other, has now got the frame.
LEMMA FillInv == ASSUME IInv, XmitFill PROVE IInv'
<1> DEFINE r == xmit.ring
           f == [xmit.skb EXCEPT !.got = @ \cup {sta[r]}]
<1>1. /\ xmit # NULL /\ xmit.pc = "fill" /\ xmit \in XmitType
      /\ {r, xmit.first} \subseteq Allocated
  BY DEF IInv, Addressed, XmitFill
<1>2. /\ xmit.skb \in Frame /\ r \in Ring /\ xmit.skb.need \in Nat
      /\ xmit.avail \in Int
  BY <1>1, XmitFields
<1>3. UNCHANGED <<sta, sent, retry, stopped, irq, comp, linking>> /\ Allocated' = Allocated
  BY DEF XmitFill, Allocated
<1>4. f \in Frame /\ f.to = xmit.skb.to /\ f.got = xmit.skb.got \cup {sta[r]}
  BY <1>1, <1>2 DEF Frame, IInv, TypeOK, Allocated
<1>5. /\ xmit' = NULL \/ (xmit' \in XmitType /\ xmit'.pc = "next")
      /\ Addressed' /\ Copies'
  <2>1. Leave(f)
    BY DEF XmitFill
  <2> HIDE DEF f
  <2>2. QED
    BY <1>1, <1>3, <1>4, <2>1, LeaveInv
<1>6. /\ todo' = [todo EXCEPT ![r] = @ + xmit.skb.need]
      /\ rung' = [rung EXCEPT ![r] = linking # r]
  BY DEF XmitFill
<1>7. todo[r] + xmit.skb.need + sent[r] <= Size - 1
  BY <1>1, <1>2, SizeAssumption DEF IInv, TypeOK, Counted, Avail
<1>8. TypeOK'
  <2>1. xmit' = NULL \/ (xmit'.skb \in Frame /\ xmit'.ring \in Ring /\ xmit'.first \in Ring)
    BY <1>5, XmitFields
  <2>2. todo' \in [Ring -> 0..(Size - 1)] /\ rung' \in [Ring -> BOOLEAN]
    BY <1>2, <1>6, <1>7, SizeAssumption DEF IInv, TypeOK
  <2>3. QED
    BY <1>3, <2>1, <2>2 DEF IInv, TypeOK
<1>9. OneRingEach' /\ Requeued'
  BY <1>3 DEF IInv, OneRingEach, Requeued
<1>10. Counted'
  <2>1. \A q \in Ring : todo'[q] + sent'[q] <= Size - 1
    BY <1>2, <1>3, <1>6, <1>7, SizeAssumption DEF IInv, TypeOK, Counted
  <2>2. QED
    BY <1>3, <1>5, <2>1 DEF IInv, Counted
<1>11. QED
  BY <1>5, <1>8, <1>9, <1>10 DEF IInv

\* A frame that cannot be mapped reaches nobody.
LEMMA FailInv == ASSUME IInv, XmitFail PROVE IInv'
<1>1. /\ xmit # NULL /\ xmit.pc = "fill" /\ xmit \in XmitType
  BY DEF IInv, Addressed, XmitFail
<1>2. UNCHANGED <<sta, todo, sent, rung, retry, irq, comp, linking>> /\ Allocated' = Allocated
  BY DEF XmitFail, rings, Allocated
<1>3. xmit.skb \in Frame
  BY <1>1 DEF XmitType
<1>4. /\ xmit' = NULL \/ (xmit' \in XmitType /\ xmit'.pc = "next")
      /\ Addressed' /\ Copies'
  BY <1>1, <1>2, <1>3, LeaveInv DEF XmitFail
<1>5. TypeOK'
  <2>1. xmit' = NULL \/ (xmit'.skb \in Frame /\ xmit'.ring \in Ring /\ xmit'.first \in Ring)
    BY <1>4, XmitFields
  <2>2. stopped' \in BOOLEAN
    BY DEF XmitFail, IInv, TypeOK
  <2>3. QED
    BY <1>2, <2>1, <2>2 DEF IInv, TypeOK
<1>6. OneRingEach' /\ Requeued' /\ Counted'
  BY <1>2, <1>4 DEF IInv, OneRingEach, Requeued, Counted
<1>7. QED
  BY <1>4, <1>5, <1>6 DEF IInv


\* The frame is dropped, or sent as a command: no ring has to do with it.
LEMMA DroppedInv ==
  ASSUME IInv, UNCHANGED <<sta, todo, sent, rung, xmit, irq, comp, linking>>, retry' = NULL,
         stopped' \in BOOLEAN
  PROVE  IInv'
<1>1. Allocated' = Allocated
  BY DEF Allocated
<1>2. TypeOK' /\ OneRingEach' /\ Requeued' /\ Copies'
  BY <1>1 DEF IInv, TypeOK, OneRingEach, Requeued, Copies
<1>3. Counted' /\ Addressed'
  BY <1>1 DEF IInv, Counted, Avail, Addressed
<1>4. QED
  BY <1>2, <1>3 DEF IInv

\* A poll that goes from ring to ring changes nothing but its own progress, what
\* is pending, and whether the queue is stopped.
LEMMA PollInv ==
  ASSUME IInv, UNCHANGED <<sta, todo, sent, rung, xmit, retry, linking>>,
         stopped' \in BOOLEAN, irq' \in BOOLEAN,
         comp' # NULL => /\ comp'.ring \in Ring
                         /\ comp'.pc = "release" => comp'.n \in 0..sent[comp'.ring]
  PROVE  IInv'
<1>1. Allocated' = Allocated
  BY DEF Allocated
<1>2. TypeOK' /\ OneRingEach' /\ Requeued' /\ Copies'
  BY <1>1 DEF IInv, TypeOK, OneRingEach, Requeued, Copies
<1>3. Counted' /\ Addressed'
  BY <1>1 DEF IInv, Counted, Avail, Addressed
<1>4. QED
  BY <1>2, <1>3 DEF IInv

\* The scan of a ring finds no more than the device has done.
LEMMA ScanFinds ==
  ASSUME IInv, NEW r \in Ring, NEW total, Scan(r, total)
  PROVE  comp'.ring \in Ring /\ comp'.n \in 0..sent[r] /\ comp'.ring = r
<1>1. sent[r] \in Nat
  BY SizeAssumption DEF IInv, TypeOK
<1>2. PICK n \in 0..(sent[r] - (IF sent[r] > 0 THEN 1 ELSE 0)) :
        comp' = [pc |-> "release", ring |-> r, n |-> n, total |-> total]
  BY DEF Scan
<1>3. n \in 0..sent[r]
  BY <1>1, <1>2
<1>4. comp'.ring = r /\ comp'.n = n
  BY <1>2
<1>5. QED
  BY <1>3, <1>4

\* The poll begins with the first allocated ring, and counts no more than is sent.
LEMMA PollBeginInv == ASSUME IInv, PollBegin PROVE IInv'
<1>1. /\ UNCHANGED <<sta, todo, sent, rung, xmit, retry, linking>>
      /\ stopped' \in BOOLEAN /\ irq' \in BOOLEAN
  BY DEF PollBegin, rings, IInv, TypeOK
<1>2. CASE Allocated = {}
  <2>1. comp' = NULL
    BY <1>2 DEF PollBegin
  <2>2. QED
    BY <1>1, <2>1, PollInv
<1>3. CASE Allocated # {}
  <2>1. Min(Allocated) \in Ring
    BY <1>3, MinRing DEF Allocated
  <2>2. Scan(Min(Allocated), 0)
    BY <1>3 DEF PollBegin
  <2>3. comp'.ring \in Ring /\ comp'.n \in 0..sent[comp'.ring]
    BY <2>1, <2>2, ScanFinds
  <2>4. QED
    BY <1>1, <2>3, PollInv
<1>4. QED
  BY <1>2, <1>3

\* So it does with each ring after it.
LEMMA CompNextInv == ASSUME IInv, CompNext PROVE IInv'
<1>1. /\ UNCHANGED <<sta, todo, sent, rung, xmit, retry, linking>>
      /\ stopped' \in BOOLEAN /\ irq' \in BOOLEAN
  BY DEF CompNext, rings, IInv, TypeOK
<1>2. CASE RingsAfter(comp.ring) = {}
  <2>1. comp' = NULL
    BY <1>2 DEF CompNext
  <2>2. QED
    BY <1>1, <2>1, PollInv
<1>3. CASE RingsAfter(comp.ring) # {}
  <2>1. RingsAfter(comp.ring) \in SUBSET Ring
    BY DEF RingsAfter, Allocated
  <2>2. Min(RingsAfter(comp.ring)) \in Ring
    BY <1>3, <2>1, MinRing
  <2>3. Scan(Min(RingsAfter(comp.ring)), comp.total)
    BY <1>3 DEF CompNext
  <2>4. comp'.ring \in Ring /\ comp'.n \in 0..sent[comp'.ring]
    BY <2>2, <2>3, ScanFinds
  <2>5. QED
    BY <1>1, <2>4, PollInv
<1>4. QED
  BY <1>2, <1>3

\* Reading the free descriptors changes no ring.
LEMMA CompAvailInv == ASSUME IInv, CompAvail PROVE IInv'
<1>1. /\ UNCHANGED <<sta, todo, sent, rung, xmit, retry, linking>>
      /\ stopped' \in BOOLEAN /\ irq' \in BOOLEAN
  BY DEF CompAvail, rings, IInv, TypeOK
<1>2. comp'.ring \in Ring /\ comp'.pc # "release"
  BY DEF CompAvail, IInv, TypeOK
<1>3. QED
  BY <1>1, <1>2, PollInv

\* Waking the queue changes no ring.
LEMMA CompWakeInv == ASSUME IInv, CompWake PROVE IInv'
<1>1. /\ UNCHANGED <<sta, todo, sent, rung, xmit, retry, linking>>
      /\ stopped' \in BOOLEAN /\ irq' \in BOOLEAN
  BY DEF CompWake, rings, IInv, TypeOK
<1>2. comp'.ring \in Ring /\ comp'.pc # "release"
  BY DEF CompWake, IInv, TypeOK
<1>3. QED
  BY <1>1, <1>2, PollInv

\* Released descriptors only add to those that are free.
LEMMA ReleaseInv == ASSUME IInv, CompRelease PROVE IInv'
<1> DEFINE r == comp.ring
<1>1. r \in Ring /\ comp.n \in 0..sent[r] /\ sent[r] \in Nat
  BY SizeAssumption DEF IInv, TypeOK, Counted, CompRelease
<1>2. /\ UNCHANGED <<sta, todo, rung, xmit, retry, stopped, irq, linking>>
      /\ sent' = [sent EXCEPT ![r] = @ - comp.n] /\ Allocated' = Allocated
      /\ comp'.ring = r /\ comp'.pc = "avail"
  BY DEF CompRelease, Allocated
<1>3. TypeOK'
  <2>1. sent' \in [Ring -> 0..(Size - 1)]
    BY <1>1, <1>2, SizeAssumption DEF IInv, TypeOK
  <2>2. QED
    BY <1>1, <1>2, <2>1 DEF IInv, TypeOK
<1>4. OneRingEach' /\ Requeued' /\ Copies' /\ Addressed'
  BY <1>2 DEF IInv, OneRingEach, Requeued, Copies, Addressed
<1>5. Counted'
  <2>1. \A q \in Ring : sent'[q] <= sent[q] /\ sent'[q] \in Int /\ sent[q] \in Int
                          /\ todo[q] \in Int
    BY <1>1, <1>2, SizeAssumption DEF IInv, TypeOK
  <2>2. \A q \in Ring : todo'[q] + sent'[q] <= Size - 1
    BY <1>2, <2>1, SizeAssumption DEF IInv, Counted
  <2>3. xmit # NULL /\ xmit.pc \in {"check", "fill"} => xmit.avail <= Avail(xmit.ring)'
    <3> SUFFICES ASSUME xmit # NULL, xmit.pc \in {"check", "fill"}
                 PROVE  xmit.avail <= Avail(xmit.ring)'
      OBVIOUS
    <3>1. xmit.ring \in Ring /\ xmit.avail \in Int
      BY XmitFields DEF IInv, Addressed
    <3>2. xmit.avail <= Avail(xmit.ring)
      BY DEF IInv, Counted
    <3>3. Avail(xmit.ring) <= Avail(xmit.ring)' /\ Avail(xmit.ring) \in Int
            /\ Avail(xmit.ring)' \in Int
      BY <1>2, <2>1, <3>1, SizeAssumption DEF Avail
    <3>4. QED
      BY <3>1, <3>2, <3>3
  <2>4. QED
    BY <1>2, <2>2, <2>3 DEF IInv, Counted
<1>6. QED
  BY <1>3, <1>4, <1>5 DEF IInv


\* What the device has done was waiting for it.
LEMMA TransmitInv == ASSUME IInv, NEW r \in Ring, HwTransmit(r) PROVE IInv'
<1>1. /\ UNCHANGED <<sta, rung, xmit, retry, stopped, comp, linking>>
      /\ todo' = [todo EXCEPT ![r] = @ - 1] /\ sent' = [sent EXCEPT ![r] = @ + 1]
      /\ todo[r] > 0 /\ irq' \in BOOLEAN /\ Allocated' = Allocated
  BY DEF HwTransmit, Allocated, IInv, TypeOK
<1>2. todo[r] \in Nat /\ sent[r] \in Nat /\ todo[r] + sent[r] <= Size - 1
  BY SizeAssumption DEF IInv, TypeOK, Counted
<1>3. TypeOK'
  <2>1. todo' \in [Ring -> 0..(Size - 1)] /\ sent' \in [Ring -> 0..(Size - 1)]
    BY <1>1, <1>2, SizeAssumption DEF IInv, TypeOK
  <2>2. QED
    BY <1>1, <2>1 DEF IInv, TypeOK
<1>4. OneRingEach' /\ Requeued' /\ Copies' /\ Addressed'
  BY <1>1 DEF IInv, OneRingEach, Requeued, Copies, Addressed
<1>5. Counted'
  <2>1. \A q \in Ring : /\ todo'[q] + sent'[q] = todo[q] + sent[q]
                        /\ Avail(q)' = Avail(q)
                        /\ sent'[q] >= sent[q]
    BY <1>1, <1>2, SizeAssumption DEF IInv, TypeOK, Avail
  <2>2. \A q \in Ring : todo'[q] + sent'[q] <= Size - 1
    BY <2>1 DEF IInv, Counted
  <2>3. xmit # NULL /\ xmit.pc \in {"check", "fill"} => xmit.avail <= Avail(xmit.ring)'
    <3> SUFFICES ASSUME xmit # NULL, xmit.pc \in {"check", "fill"}
                 PROVE  xmit.avail <= Avail(xmit.ring)'
      OBVIOUS
    <3>1. xmit.ring \in Ring
      BY XmitFields DEF IInv, Addressed
    <3>2. xmit.avail <= Avail(xmit.ring)
      BY DEF IInv, Counted
    <3>3. QED
      BY <1>1, <2>1, <3>1, <3>2
  <2>4. comp # NULL /\ comp.pc = "release" => comp.n \in 0..sent'[comp.ring]
    <3> SUFFICES ASSUME comp # NULL, comp.pc = "release"
                 PROVE  comp.n \in 0..sent'[comp.ring]
      OBVIOUS
    <3>1. comp.ring \in Ring /\ comp.n \in 0..sent[comp.ring]
      BY DEF IInv, TypeOK, Counted
    <3>2. sent[comp.ring] \in Int /\ sent'[comp.ring] \in Int
      BY <1>1, <1>2, <3>1, SizeAssumption DEF IInv, TypeOK
    <3>3. QED
      BY <2>1, <3>1, <3>2
  <2>5. QED
    BY <1>1, <2>2, <2>3, <2>4 DEF IInv, Counted
<1>6. QED
  BY <1>3, <1>4, <1>5 DEF IInv

\* Nobody uses a ring when one is freed.
LEMMA FreeInv ==
  ASSUME IInv, Overlap = FALSE, NEW r \in Ring, MayFree(r), Freed(r),
         linking' \in {NULL, linking}, UNCHANGED <<xmit, retry, stopped, irq, comp>>
  PROVE  IInv'
<1>1. xmit' = NULL /\ comp' = NULL
  BY DEF MayFree
<1>2. /\ sta' = [sta EXCEPT ![r] = NULL] /\ todo' = [todo EXCEPT ![r] = 0]
      /\ sent' = [sent EXCEPT ![r] = 0] /\ rung' = [rung EXCEPT ![r] = TRUE]
  BY DEF Freed
<1>3. TypeOK'
  <2>1. 0 \in 0..(Size - 1)
    BY SizeAssumption, ThresholdAssumption
  <2>2. /\ sta' \in [Ring -> Stations \cup {NULL}]
        /\ todo' \in [Ring -> 0..(Size - 1)] /\ sent' \in [Ring -> 0..(Size - 1)]
        /\ rung' \in [Ring -> BOOLEAN]
    BY <1>2, <2>1 DEF IInv, TypeOK
  <2>3. QED
    BY <1>1, <2>2 DEF IInv, TypeOK
<1>4. OneRingEach'
  BY <1>2 DEF IInv, TypeOK, OneRingEach, Allocated
<1>5. Counted'
  <2>1. \A q \in Ring : todo'[q] + sent'[q] <= Size - 1
    BY <1>2, SizeAssumption, ThresholdAssumption DEF IInv, TypeOK, Counted
  <2>2. QED
    BY <1>1, <2>1 DEF Counted
<1>6. Requeued' /\ Copies' /\ Addressed'
  BY <1>1 DEF IInv, Requeued, Copies, Addressed
<1>7. QED
  BY <1>3, <1>4, <1>5, <1>6 DEF IInv

\* A ring is given to a station that has none.
LEMMA RingUpInv == ASSUME IInv, NEW r \in Ring, NEW s \in Stations, RingUp(r, s) PROVE IInv'
<1>1. /\ UNCHANGED <<todo, sent, rung, xmit, retry, stopped, irq, comp>>
      /\ sta' = [sta EXCEPT ![r] = s] /\ linking' = r
      /\ sta[r] = NULL /\ \A q \in Ring : sta[q] # s
  BY DEF RingUp
<1>2. TypeOK'
  BY <1>1 DEF IInv, TypeOK
<1>3. r \notin Allocated /\ \A q \in Allocated : q \in Allocated' /\ sta'[q] = sta[q]
  BY <1>1, DestAssumption DEF IInv, TypeOK, Allocated
<1>4. OneRingEach'
  BY <1>1 DEF IInv, TypeOK, OneRingEach, Allocated
<1>5. Counted' /\ Requeued'
  BY <1>1 DEF IInv, Counted, Avail, Requeued
<1>6. Addressed'
  BY <1>1, <1>3 DEF IInv, Addressed
<1>7. Copies'
  BY <1>1, <1>3 DEF IInv, Copies
<1>8. QED
  BY <1>2, <1>4, <1>5, <1>6, <1>7 DEF IInv

\* The link comes up: the queue is woken, the rings stay.
LEMMA LinkOnInv == ASSUME IInv, LinkOn PROVE IInv'
<1>1. /\ UNCHANGED <<sta, todo, sent, rung, xmit, retry, irq, comp>>
      /\ stopped' = FALSE /\ linking' = NULL /\ Allocated' = Allocated
  BY DEF LinkOn, rings, Allocated
<1>2. TypeOK' /\ OneRingEach' /\ Requeued' /\ Copies'
  BY <1>1 DEF IInv, TypeOK, OneRingEach, Requeued, Copies
<1>3. Counted' /\ Addressed'
  BY <1>1 DEF IInv, Counted, Avail, Addressed
<1>4. QED
  BY <1>2, <1>3 DEF IInv

-----------------------------------------------------------------------------
\* Every step keeps the invariant.
LEMMA StepInv == ASSUME Overlap = FALSE, IInv, [Next]_vars PROVE IInv'
<1>1. CASE UNCHANGED vars
  <2>1. /\ UNCHANGED <<sta, todo, sent, rung, xmit, retry, irq, comp, linking>>
        /\ stopped' \in BOOLEAN /\ Allocated' = Allocated
    BY <1>1 DEF vars, Allocated, IInv, TypeOK
  <2>2. TypeOK' /\ OneRingEach' /\ Requeued' /\ Copies'
    BY <2>1 DEF IInv, TypeOK, OneRingEach, Requeued, Copies
  <2>3. Counted' /\ Addressed'
    BY <2>1 DEF IInv, Counted, Avail, Addressed
  <2>4. QED
    BY <2>2, <2>3 DEF IInv
<1>2. ASSUME NEW f \in Frame, XmitNotReady(f) \/ XmitNoRing(f) \/ XmitEapol(f) PROVE IInv'
  BY <1>2, DroppedInv DEF XmitNotReady, XmitNoRing, XmitEapol, rings, IInv, TypeOK
<1>3. ASSUME NEW f \in Frame, XmitBcast(f) \/ XmitUnicast(f) PROVE IInv'
  BY <1>3, BcastInv, UnicastInv
<1>4. CASE XmitNext \/ XmitCheck \/ XmitFill \/ XmitFail
  BY <1>4, NextInv, CheckInv, FillInv, FailInv
<1>5. CASE PollBegin \/ CompRelease \/ CompAvail \/ CompWake \/ CompNext
  BY <1>5, PollBeginInv, ReleaseInv, CompAvailInv, CompWakeInv, CompNextInv
<1>6. ASSUME NEW r \in Ring, HwTransmit(r) PROVE IInv'
  BY <1>6, TransmitInv
<1>7. ASSUME NEW r \in Ring, RingDown(r) PROVE IInv'
  BY <1>7, FreeInv DEF RingDown
<1>8. ASSUME NEW r \in Ring, NEW s \in Stations, RingUp(r, s) PROVE IInv'
  BY <1>8, RingUpInv
<1>9. CASE LinkOn
  BY <1>9, LinkOnInv
<1>10. CASE LinkFail
  <2>1. linking \in Ring
    BY <1>10 DEF LinkFail, IInv, TypeOK
  <2>2. QED
    BY <1>10, <2>1, FreeInv DEF LinkFail
<1>11. QED
  BY <1>1, <1>2, <1>3, <1>4, <1>5, <1>6, <1>7, <1>8, <1>9, <1>10 DEF Next

\* The invariant holds in every state that is reached.
THEOREM Inductive == ASSUME Overlap = FALSE PROVE Spec => []IInv
<1>1. Init => IInv
  BY InitInv
<1>2. IInv /\ [Next]_vars => IInv'
  BY StepInv
<1>3. QED
  BY <1>1, <1>2, PTL DEF Spec

\* The counts of a ring stay below its size: no descriptor that the device has not
\* done, or that is not released, is used again (wil_vring_avail_tx).
THEOREM TypeCorrect == ASSUME Overlap = FALSE PROVE Spec => []TypeOK
<1>1. IInv => TypeOK
  BY DEF IInv
<1>2. QED
  BY <1>1, Inductive, PTL

\* A frame is put in a ring only by XmitFill, and only in the one it visits.
LEMMA FilledRing ==
  ASSUME IInv, [Next]_vars, Overlap = FALSE, NEW r \in Ring, todo'[r] > todo[r]
  PROVE  XmitFill /\ r = xmit.ring
<1>1. todo[r] \in Nat /\ todo \in [Ring -> 0..(Size - 1)]
  BY SizeAssumption DEF IInv, TypeOK
<1>2. ~ UNCHANGED todo
  BY <1>1
<1>3. ~ \E q \in Ring : HwTransmit(q)
  <2>1. SUFFICES ASSUME NEW q \in Ring, HwTransmit(q) PROVE FALSE
    OBVIOUS
  <2>2. todo' = [todo EXCEPT ![q] = @ - 1]
    BY <2>1 DEF HwTransmit
  <2>3. todo'[r] <= todo[r]
    BY <1>1, <2>2
  <2>4. QED
    BY <1>1, <2>2, <2>3
<1>4. ~ \E q \in Ring : Freed(q)
  <2>1. SUFFICES ASSUME NEW q \in Ring, Freed(q) PROVE FALSE
    OBVIOUS
  <2>2. todo' = [todo EXCEPT ![q] = 0]
    BY <2>1 DEF Freed
  <2>3. todo'[r] <= todo[r]
    BY <1>1, <2>2
  <2>4. QED
    BY <1>1, <2>2, <2>3
<1>5. ~ (LinkFail \/ \E q \in Ring : RingDown(q))
  BY <1>4 DEF LinkFail, RingDown, IInv, TypeOK
<1>6. XmitFill
  <2>1. CASE Next
    <3>1. \A f \in Frame : XmitNotReady(f) \/ XmitBcast(f) \/ XmitUnicast(f)
                             \/ XmitNoRing(f) \/ XmitEapol(f) => UNCHANGED todo
      BY DEF XmitNotReady, XmitBcast, XmitUnicast, XmitNoRing, XmitEapol, rings
    <3>2. XmitNext \/ XmitCheck \/ XmitFail => UNCHANGED todo
      BY DEF XmitNext, XmitCheck, XmitFail, rings
    <3>3. PollBegin \/ CompRelease \/ CompAvail \/ CompWake \/ CompNext => UNCHANGED todo
      BY DEF PollBegin, CompRelease, CompAvail, CompWake, CompNext, rings
    <3>4. LinkOn => UNCHANGED todo
      BY DEF LinkOn, rings
    <3>5. \A q \in Ring, s \in Stations : RingUp(q, s) => UNCHANGED todo
      BY DEF RingUp
    <3>6. QED
      BY <1>2, <1>3, <1>5, <2>1, <3>1, <3>2, <3>3, <3>4, <3>5 DEF Next
  <2>2. CASE UNCHANGED vars
    BY <1>2, <2>2 DEF vars
  <2>3. QED
    BY <2>1, <2>2
<1>7. todo' = [todo EXCEPT ![xmit.ring] = @ + xmit.skb.need]
  BY <1>6 DEF XmitFill
<1>8. QED
  BY <1>1, <1>6, <1>7

\* A station gets a broadcast frame once, retried or not.
THEOREM SentOnce == ASSUME Overlap = FALSE PROVE Spec => BroadcastOnce
<1> DEFINE Once == \A r \in Ring : todo'[r] > todo[r] => sta[r] \notin xmit.skb.got
<1>1. IInv /\ [Next]_vars => Once
  <2> SUFFICES ASSUME IInv, [Next]_vars, NEW r \in Ring, todo'[r] > todo[r]
               PROVE  sta[r] \notin xmit.skb.got
    OBVIOUS
  <2>1. XmitFill /\ r = xmit.ring
    BY FilledRing
  <2>2. xmit # NULL /\ xmit.pc = "fill"
    BY <2>1 DEF XmitFill
  <2>3. QED
    BY <2>1, <2>2, RingNotServed
<1>2. Spec => [][Next]_vars
  BY PTL DEF Spec
<1>3. QED
  BY <1>1, <1>2, Inductive, PTL DEF BroadcastOnce

=============================================================================
