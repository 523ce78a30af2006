--------------------------- MODULE RxVring_proofs ---------------------------
(***************************************************************************)
(* Proofs about RxVring, for rings of any size and any number of frames,   *)
(* provided that wil_rx_init is not called with a ring in place            *)
(* (Restart = FALSE).                                                      *)
(*                                                                         *)
(* Indices wrap, so that nothing can be said with <=.  Everything is said  *)
(* with the distance of a slot from the head.                              *)
(***************************************************************************)
EXTENDS RxVring, Integers, TLAPS

\* How many slots s is ahead of i.
Dist(i, s) == IF i <= s THEN s - i ELSE Size + s - i

\* The buffers are in the slots from head to tail.
Window ==
  /\ \A s \in Slot : ctx[s] <=> Dist(swhead, s) < Dist(swhead, swtail)
  /\ up \in {"init", "on"} => mapped = ctx
  /\ up = NULL => swhead = swtail

\* wil_rx_init posts buffers that the device does not know of.
Starting ==
  up = "init" =>
    /\ swhead = 0 /\ hwpos = 0 /\ received = reaped
    /\ \A s \in Slot : Dist(swhead, s) < Dist(swhead, swtail) => ~va[s].du

\* From head to tail there are: the frames received and not reaped, in their
\* order, buffers the device may fill, buffers it has not been told of.
Order ==
  up = "on" =>
    /\ Dist(swhead, hwpos) <= Dist(swhead, hwtail)
    /\ Dist(swhead, hwtail) <= Dist(swhead, swtail)
    /\ received = reaped + Dist(swhead, hwpos)
    /\ \A s \in Slot :
         /\ Dist(swhead, s) < Dist(swhead, hwpos) =>
              va[s].du /\ va[s].frame.n = reaped + Dist(swhead, s) + 1
         /\ Dist(swhead, hwpos) <= Dist(swhead, s) /\ Dist(swhead, s) < Dist(swhead, swtail) =>
              ~va[s].du

\* There is a poll only while the ring is up.
PollOn == poll # NULL => up = "on"

IInv == TypeOK /\ Window /\ Starting /\ Order /\ PollOn

-----------------------------------------------------------------------------
(* Distances. *)

\* A remainder by the ring size, for numbers below twice that size.
LEMMA Wrap ==
  ASSUME NEW a \in Nat, a < 2 * Size
  PROVE  a % Size = IF a < Size THEN a ELSE a - Size
BY SizeAssumption

\* The code's expression for a distance.
LEMMA DistMod ==
  ASSUME NEW i \in Slot, NEW s \in Slot
  PROVE  (Size + s - i) % Size = Dist(i, s)
<1>1. Size + s - i \in Nat /\ Size + s - i < 2 * Size
  BY SizeAssumption DEF Slot
<1>2. QED
  BY <1>1, Wrap, SizeAssumption DEF Slot, Dist

\* What Between means.
LEMMA BetweenDist ==
  ASSUME NEW i \in Slot, NEW j \in Slot, NEW s \in Slot
  PROVE  s \in Between(i, j) <=> Dist(i, s) < Dist(i, j)
BY DistMod DEF Between

\* The slot after x is one farther from h, unless it is h.
LEMMA NextFarther ==
  ASSUME NEW h \in Slot, NEW x \in Slot
  PROVE  /\ NextSlot(x) \in Slot
         /\ NextSlot(x) # h => Dist(h, NextSlot(x)) = Dist(h, x) + 1
<1>1. NextSlot(x) = IF x = Size - 1 THEN 0 ELSE x + 1
  BY Wrap, SizeAssumption DEF Slot, NextSlot
<1>2. QED
  BY <1>1, SizeAssumption DEF Slot, Dist

\* When the head advances, all but the old head come nearer.
LEMMA HeadNearer ==
  ASSUME NEW h \in Slot, NEW s \in Slot
  PROVE  /\ s # h => Dist(NextSlot(h), s) = Dist(h, s) - 1
         /\ Dist(NextSlot(h), h) = Size - 1
<1>1. NextSlot(h) = IF h = Size - 1 THEN 0 ELSE h + 1
  BY Wrap, SizeAssumption DEF Slot, NextSlot
<1>2. QED
  BY <1>1, SizeAssumption DEF Slot, Dist

\* Slots at the same distance are the same.
LEMMA DistOne ==
  ASSUME NEW h \in Slot, NEW s \in Slot, NEW t \in Slot
  PROVE  /\ Dist(h, s) \in 0..(Size - 1)
         /\ Dist(h, s) = Dist(h, t) => s = t
         /\ Dist(h, h) = 0
         /\ Dist(h, s) = 0 => s = h
BY SizeAssumption DEF Slot, Dist

\* What is between two slots of a window, seen from its head.
LEMMA BetweenAhead ==
  ASSUME NEW h \in Slot, NEW p \in Slot, NEW t \in Slot, NEW s \in Slot,
         Dist(h, p) <= Dist(h, t), s \in Between(p, t)
  PROVE  Dist(h, p) <= Dist(h, s) /\ Dist(h, s) < Dist(h, t)
<1>1. Dist(p, s) < Dist(p, t)
  BY BetweenDist
<1>2. QED
  BY <1>1, SizeAssumption DEF Slot, Dist

-----------------------------------------------------------------------------
\* What the type invariant says of the indices.
LEMMA Indices ==
  ASSUME TypeOK
  PROVE  /\ swhead \in Slot /\ swtail \in Slot /\ hwtail \in Slot /\ hwpos \in Slot
         /\ received \in Nat /\ reaped \in Nat
BY BoundAssumption DEF TypeOK

\* The driver starts without a ring.
LEMMA InitInv == Init => IInv
<1> SUFFICES ASSUME Init PROVE IInv
  OBVIOUS
<1>1. 0 \in Slot /\ 0 \in 0..MaxFrames /\ 0 \in 0..MaxInits
  BY SizeAssumption, BoundAssumption DEF Slot
<1>2. TypeOK
  <2>1. [du |-> TRUE, frame |-> NoFrame] \in Desc
    BY DEF Desc
  <2>2. va \in [Slot -> Desc] /\ ctx \in [Slot -> BOOLEAN] /\ mapped \in [Slot -> BOOLEAN]
    BY <2>1 DEF Init
  <2>3. QED
    BY <1>1, <2>2 DEF Init, TypeOK
<1>3. Window
  <2>1. \A s \in Slot : Dist(0, s) >= 0 /\ Dist(0, 0) = 0
    BY <1>1, DistOne
  <2>2. \A s \in Slot : ~ (Dist(0, s) < Dist(0, 0))
    <3>1. SUFFICES ASSUME NEW s \in Slot PROVE ~ (Dist(0, s) < Dist(0, 0))
      OBVIOUS
    <3>2. Dist(0, s) \in 0..(Size - 1) /\ Dist(0, 0) = 0
      BY <1>1, DistOne
    <3>3. QED
      BY <3>2, SizeAssumption
  <2>3. QED
    BY <2>2 DEF Init, Window
<1>4. Starting /\ Order /\ PollOn
  BY NullAssumption DEF Init, Starting, Order, PollOn
<1>5. QED
  BY <1>2, <1>3, <1>4 DEF IInv

\* A buffer is posted at the tail of a ring that is not full.
LEMMA PostInv ==
  ASSUME IInv, PostBuffer, ~Full, up \in {"init", "on"},
         UNCHANGED <<up, swhead, hwtail, poll, irq, hwpos, hist>>
  PROVE  IInv'
<1>1. /\ va' = [va EXCEPT ![swtail] = [du |-> FALSE, frame |-> NoFrame]]
      /\ ctx' = [ctx EXCEPT ![swtail] = TRUE] /\ mapped' = [mapped EXCEPT ![swtail] = TRUE]
      /\ swtail' = NextSlot(swtail) /\ NextSlot(swtail) # swhead
      /\ UNCHANGED <<up, swhead, hwtail, poll, irq, hwpos, received, reaped, inits>>
  BY DEF PostBuffer, Full, hist
<1>2. /\ swhead \in Slot /\ swtail \in Slot /\ hwtail \in Slot /\ hwpos \in Slot
      /\ swtail' \in Slot /\ Dist(swhead, swtail') = Dist(swhead, swtail) + 1
  BY <1>1, Indices, NextFarther DEF IInv
<1>3. \A s \in Slot : Dist(swhead, s) \in Int /\ (Dist(swhead, s) = Dist(swhead, swtail) => s = swtail)
  BY <1>2, DistOne, SizeAssumption
<1>4. \A s \in Slot : Dist(swhead, s) < Dist(swhead, swtail') <=> Dist(swhead, s) < Dist(swhead, swtail) \/ s = swtail
  BY <1>2, <1>3
<1>5. /\ va'[swtail] = [du |-> FALSE, frame |-> NoFrame] /\ ctx'[swtail] /\ mapped'[swtail]
      /\ \A s \in Slot : s # swtail => va'[s] = va[s] /\ ctx'[s] = ctx[s] /\ mapped'[s] = mapped[s]
  BY <1>1, <1>2 DEF IInv, TypeOK
<1>6. TypeOK'
  <2>1. [du |-> FALSE, frame |-> NoFrame] \in Desc
    BY DEF Desc
  <2>2. QED
    BY <1>1, <1>2, <2>1 DEF IInv, TypeOK
<1>7. Window'
  <2>1. \A s \in Slot : ctx'[s] <=> Dist(swhead, s) < Dist(swhead, swtail')
    BY <1>4, <1>5 DEF IInv, Window
  <2>2. mapped' = ctx'
    BY <1>1 DEF IInv, Window
  <2>3. up' # NULL
    BY <1>1, NullAssumption
  <2>4. QED
    BY <1>1, <2>1, <2>2, <2>3 DEF Window
<1>8. Starting'
  <2>1. SUFFICES ASSUME up = "init" PROVE Starting'
    BY <1>1 DEF Starting
  <2>2. \A s \in Slot : Dist(swhead, s) < Dist(swhead, swtail') => ~va'[s].du
    BY <1>4, <1>5, <2>1 DEF IInv, Starting
  <2>3. QED
    BY <1>1, <2>1, <2>2 DEF IInv, Starting
<1>9. Order'
  <2>1. SUFFICES ASSUME up = "on" PROVE Order'
    BY <1>1 DEF Order
  <2>2. /\ Dist(swhead, hwpos) <= Dist(swhead, hwtail) /\ Dist(swhead, hwtail) <= Dist(swhead, swtail) /\ received = reaped + Dist(swhead, hwpos)
        /\ \A s \in Slot :
             /\ Dist(swhead, s) < Dist(swhead, hwpos) => va[s].du /\ va[s].frame.n = reaped + Dist(swhead, s) + 1
             /\ Dist(swhead, hwpos) <= Dist(swhead, s) /\ Dist(swhead, s) < Dist(swhead, swtail) => ~va[s].du
    BY <2>1 DEF IInv, Order
  <2>3. Dist(swhead, hwtail) <= Dist(swhead, swtail') /\ Dist(swhead, hwpos) <= Dist(swhead, swtail)
    BY <1>2, <1>3, <2>2
  <2>4. \A s \in Slot : Dist(swhead, s) < Dist(swhead, hwpos) => s # swtail
    BY <1>2, <1>3, <2>3
  <2>5. \A s \in Slot :
           /\ Dist(swhead, s) < Dist(swhead, hwpos) => va'[s].du /\ va'[s].frame.n = reaped + Dist(swhead, s) + 1
           /\ Dist(swhead, hwpos) <= Dist(swhead, s) /\ Dist(swhead, s) < Dist(swhead, swtail') => ~va'[s].du
    BY <1>4, <1>5, <2>2, <2>4
  <2>6. QED
    BY <1>1, <2>2, <2>3, <2>5 DEF Order
<1>10. PollOn'
  BY <1>1 DEF IInv, PollOn
<1>11. QED
  BY <1>6, <1>7, <1>8, <1>9, <1>10 DEF IInv

\* The slot at the head is emptied.
LEMMA HeadInv ==
  ASSUME IInv, swhead # swtail, ctx' = [ctx EXCEPT ![swhead] = FALSE], swhead' = NextSlot(swhead),
         UNCHANGED <<up, swtail, hwtail, va, irq, hwpos, received, inits>>
  PROVE  /\ swhead' \in Slot /\ ctx' \in [Slot -> BOOLEAN]
         /\ \A s \in Slot : s # swhead => Dist(swhead', s) = Dist(swhead, s) - 1
         /\ Dist(swhead', swhead) = Size - 1
         /\ \A s \in Slot : ctx'[s] <=> Dist(swhead', s) < Dist(swhead', swtail)
<1>1. swhead \in Slot /\ swtail \in Slot
  BY Indices DEF IInv
<1>2. /\ \A s \in Slot : s # swhead => Dist(swhead', s) = Dist(swhead, s) - 1
      /\ Dist(swhead', swhead) = Size - 1 /\ swhead' \in Slot
  BY <1>1, HeadNearer, NextFarther
<1>3. \A s \in Slot : Dist(swhead, s) \in 0..(Size - 1)
  BY <1>1, DistOne
<1>4. \A s \in Slot : ctx'[s] <=> s # swhead /\ Dist(swhead, s) < Dist(swhead, swtail)
  BY <1>1 DEF IInv, TypeOK, Window
<1>5. ASSUME NEW s \in Slot PROVE ctx'[s] <=> Dist(swhead', s) < Dist(swhead', swtail)
  <2>1. CASE s = swhead
    <3>1. Dist(swhead', swtail) = Dist(swhead, swtail) - 1 /\ Dist(swhead, swtail) \in 0..(Size - 1)
      BY <1>1, <1>2, <1>3
    <3>2. QED
      BY <1>2, <1>4, <2>1, <3>1, SizeAssumption
  <2>2. CASE s # swhead
    <3>1. /\ Dist(swhead', swtail) = Dist(swhead, swtail) - 1 /\ Dist(swhead, swtail) \in Int
          /\ Dist(swhead', s) = Dist(swhead, s) - 1 /\ Dist(swhead, s) \in Int
      BY <1>1, <1>2, <1>3, <2>2, SizeAssumption
    <3>2. QED
      BY <1>4, <2>2, <3>1
  <2>3. QED
    BY <2>1, <2>2
<1>6. QED
  BY <1>2, <1>5 DEF IInv, TypeOK


\* wil_rx_init of a ring that is not there.
LEMMA RxInitInv == ASSUME IInv, Restart = FALSE, RxInit PROVE IInv'
<1>1. /\ up = NULL /\ up' = "init" /\ inits < MaxInits /\ inits' = inits + 1
      /\ swhead' = 0 /\ swtail' = 0 /\ hwtail' = 0 /\ hwpos' = 0
      /\ va' = [s \in Slot |-> [du |-> TRUE, frame |-> NoFrame]]
      /\ ctx' = [s \in Slot |-> FALSE] /\ mapped' = [s \in Slot |-> FALSE]
      /\ received' = reaped /\ irq' = FALSE /\ UNCHANGED <<poll, reaped>>
  BY DEF RxInit
<1>2. 0 \in Slot
  BY SizeAssumption DEF Slot
<1>3. \A s \in Slot : Dist(0, s) \in 0..(Size - 1) /\ Dist(0, 0) = 0
  BY <1>2, DistOne
<1>4. \A s \in Slot : ~ (Dist(0, s) < Dist(0, 0))
  BY <1>3, SizeAssumption
<1>5. TypeOK'
  <2>1. [du |-> TRUE, frame |-> NoFrame] \in Desc
    BY DEF Desc
  <2>2. inits' \in 0..MaxInits
    BY <1>1, BoundAssumption DEF IInv, TypeOK
  <2>3. ctx' \in [Slot -> BOOLEAN] /\ mapped' \in [Slot -> BOOLEAN] /\ va' \in [Slot -> Desc]
    BY <1>1, <2>1
  <2>4. QED
    BY <1>1, <1>2, <2>2, <2>3 DEF IInv, TypeOK
<1>6. Window'
  BY <1>1, <1>4, NullAssumption DEF Window
<1>7. Starting' /\ Order'
  BY <1>1, <1>4 DEF Starting, Order
<1>8. PollOn'
  BY <1>1, NullAssumption DEF IInv, PollOn
<1>9. QED
  BY <1>5, <1>6, <1>7, <1>8 DEF IInv

\* The ring is set up: the device is told of all buffers, and none is filled.
LEMMA InitDoneInv == ASSUME IInv, InitDone PROVE IInv'
<1>1. /\ up = "init" /\ up' = "on" /\ hwtail' = swtail
      /\ UNCHANGED <<swhead, swtail, va, ctx, mapped, poll, irq, hwpos, received, reaped, inits>>
  BY DEF InitDone, Published, hist
<1>2. /\ swhead = 0 /\ hwpos = 0 /\ received = reaped /\ swtail \in Slot /\ 0 \in Slot
      /\ \A s \in Slot : Dist(swhead, s) < Dist(swhead, swtail) => ~va[s].du
  BY <1>1, Indices DEF IInv, Starting
<1>3. Dist(0, 0) = 0 /\ \A s \in Slot : Dist(0, s) \in 0..(Size - 1)
  BY <1>2, DistOne
<1>4. TypeOK' /\ PollOn'
  BY <1>1, <1>2 DEF IInv, TypeOK, PollOn
<1>5. Window'
  BY <1>1, NullAssumption DEF IInv, Window
<1>6. Starting'
  BY <1>1 DEF Starting
<1>7. Order'
  <2>1. /\ Dist(0, 0) <= Dist(0, swtail) /\ Dist(0, swtail) <= Dist(0, swtail)
        /\ reaped = reaped + Dist(0, 0)
        /\ \A s \in Slot : ~ (Dist(0, s) < Dist(0, 0))
    BY <1>2, <1>3, SizeAssumption, Indices DEF IInv
  <2>2. QED
    BY <1>1, <1>2, <2>1 DEF Order
<1>8. QED
  BY <1>4, <1>5, <1>6, <1>7 DEF IInv

\* The ring is to be freed: nothing but the buffers matters.
LEMMA ToFreeInv == ASSUME IInv, InitFail \/ RxFini PROVE IInv'
<1>1. /\ up' = "free" /\ up \in {"init", "on"} /\ poll = NULL /\ hwtail' \in {hwtail, swtail}
      /\ UNCHANGED <<swhead, swtail, va, ctx, mapped, poll, irq, hwpos, received, reaped, inits>>
  BY DEF InitFail, RxFini, Published, hist, IInv, PollOn
<1>2. TypeOK' /\ PollOn'
  BY <1>1 DEF IInv, TypeOK, PollOn
<1>3. Window'
  BY <1>1, NullAssumption DEF IInv, Window
<1>4. Starting' /\ Order'
  BY <1>1 DEF Starting, Order
<1>5. QED
  BY <1>2, <1>3, <1>4 DEF IInv

\* wil_vring_free.
LEMMA FreeInv == ASSUME IInv, FreeOne \/ FreeEnd PROVE IInv'
<1>1. CASE FreeOne
  <2>1. /\ up = "free" /\ swhead # swtail /\ ctx' = [ctx EXCEPT ![swhead] = FALSE]
        /\ mapped' = [mapped EXCEPT ![swtail] = FALSE] /\ swhead' = NextSlot(swhead)
        /\ UNCHANGED <<up, swtail, hwtail, va, poll, irq, hwpos, received, reaped, inits>>
    BY <1>1 DEF FreeOne, hist
  <2>2. /\ swhead' \in Slot /\ ctx' \in [Slot -> BOOLEAN]
        /\ \A s \in Slot : ctx'[s] <=> Dist(swhead', s) < Dist(swhead', swtail)
    BY <2>1, HeadInv
  <2>3. TypeOK' /\ PollOn'
    BY <2>1, <2>2 DEF IInv, TypeOK, PollOn
  <2>4. Window'
    BY <2>1, <2>2, NullAssumption DEF Window
  <2>5. Starting' /\ Order'
    BY <2>1 DEF Starting, Order
  <2>6. QED
    BY <2>3, <2>4, <2>5 DEF IInv
<1>2. CASE FreeEnd
  <2>1. /\ up = "free" /\ swhead = swtail /\ up' = NULL /\ mapped' = [s \in Slot |-> FALSE]
        /\ received' = reaped /\ irq' = FALSE
        /\ UNCHANGED <<swhead, swtail, hwtail, va, ctx, poll, hwpos, reaped, inits>>
    BY <1>2 DEF FreeEnd
  <2>2. TypeOK' /\ PollOn'
    BY <2>1, NullAssumption DEF IInv, TypeOK, PollOn
  <2>3. Window'
    BY <2>1, NullAssumption DEF IInv, Window
  <2>4. Starting' /\ Order'
    BY <2>1, NullAssumption DEF Starting, Order
  <2>5. QED
    BY <2>2, <2>3, <2>4 DEF IInv
<1>3. QED
  BY <1>1, <1>2

\* What is at the head of a ring that has completed a buffer is the frame that was
\* received next after those reaped.
LEMMA HeadCompleted ==
  ASSUME IInv, up = "on", Completed
  PROVE  /\ swhead # swtail /\ swhead # hwpos
         /\ va[swhead].frame.n = reaped + 1
<1>1. swhead \in Slot /\ swtail \in Slot /\ hwpos \in Slot /\ reaped \in Nat
  BY Indices DEF IInv
<1>2. /\ Dist(swhead, swhead) = 0 /\ Dist(swhead, hwpos) \in Nat /\ Dist(swhead, swtail) \in Nat
      /\ (Dist(swhead, swtail) = 0 => swtail = swhead)
  BY <1>1, DistOne, SizeAssumption
<1>3. swhead # swtail /\ va[swhead].du
  BY DEF Completed
<1>4. Dist(swhead, hwpos) # 0
  BY <1>1, <1>2, <1>3 DEF IInv, Order
<1>5. va[swhead].frame.n = reaped + 0 + 1
  BY <1>1, <1>2, <1>4 DEF IInv, Order
<1>6. QED
  BY <1>1, <1>2, <1>3, <1>4, <1>5

\* wil_vring_reap_rx.
LEMMA ReapInv == ASSUME IInv, Reap PROVE IInv'
<1>1. /\ poll # NULL /\ poll.at = "reap" /\ poll.done < Budget /\ Completed /\ up = "on"
      /\ ctx' = [ctx EXCEPT ![swhead] = FALSE] /\ mapped' = [mapped EXCEPT ![swhead] = FALSE]
      /\ swhead' = NextSlot(swhead) /\ reaped' = reaped + 1
      /\ UNCHANGED <<up, swtail, hwtail, va, irq, hwpos, received, inits>>
  BY DEF Reap, IInv, PollOn
<1>2. swhead # swtail /\ swhead # hwpos
  BY <1>1, HeadCompleted
<1>3. /\ swhead' \in Slot /\ ctx' \in [Slot -> BOOLEAN]
      /\ \A s \in Slot : s # swhead => Dist(swhead', s) = Dist(swhead, s) - 1
      /\ Dist(swhead', swhead) = Size - 1
      /\ \A s \in Slot : ctx'[s] <=> Dist(swhead', s) < Dist(swhead', swtail)
  BY <1>1, <1>2, HeadInv
<1>4. /\ swhead \in Slot /\ swtail \in Slot /\ hwtail \in Slot /\ hwpos \in Slot
      /\ received \in Nat /\ reaped \in Nat
  BY Indices DEF IInv
<1>5. /\ \A s \in Slot : Dist(swhead, s) \in 0..(Size - 1)
      /\ \A s \in Slot : Dist(swhead, s) = 0 => s = swhead
      /\ Dist(swhead, swhead) = 0
  BY <1>4, DistOne
<1>6. /\ Dist(swhead, hwpos) <= Dist(swhead, hwtail)
      /\ Dist(swhead, hwtail) <= Dist(swhead, swtail)
      /\ received = reaped + Dist(swhead, hwpos)
      /\ \A s \in Slot :
           /\ Dist(swhead, s) < Dist(swhead, hwpos) =>
                va[s].du /\ va[s].frame.n = reaped + Dist(swhead, s) + 1
           /\ Dist(swhead, hwpos) <= Dist(swhead, s) /\ Dist(swhead, s) < Dist(swhead, swtail) =>
                ~va[s].du
  BY <1>1 DEF IInv, Order
<1>7. swhead # hwtail
  BY <1>2, <1>4, <1>5, <1>6, SizeAssumption
<1>8. /\ Dist(swhead', hwpos) = Dist(swhead, hwpos) - 1
      /\ Dist(swhead', hwtail) = Dist(swhead, hwtail) - 1
      /\ Dist(swhead', swtail) = Dist(swhead, swtail) - 1
  BY <1>2, <1>3, <1>4, <1>7
<1>9. TypeOK'
  <2>1. received \in 0..MaxFrames /\ Dist(swhead, hwpos) >= 1
    BY <1>2, <1>4, <1>5, SizeAssumption DEF IInv, TypeOK
  <2>2. reaped' \in 0..MaxFrames
    BY <1>1, <1>4, <1>5, <1>6, <2>1, BoundAssumption, SizeAssumption
  <2>3. poll' \in Polling
    BY <1>1, BudgetAssumption DEF Reap, IInv, TypeOK, Polling
  <2>4. QED
    BY <1>1, <1>3, <2>2, <2>3 DEF IInv, TypeOK
<1>10. Window'
  BY <1>1, <1>3, NullAssumption DEF IInv, Window
<1>11. Starting'
  BY <1>1 DEF Starting
<1>12. Order'
  <2>1. /\ Dist(swhead', hwpos) <= Dist(swhead', hwtail)
        /\ Dist(swhead', hwtail) <= Dist(swhead', swtail)
        /\ received = reaped' + Dist(swhead', hwpos)
    BY <1>1, <1>4, <1>5, <1>6, <1>8, SizeAssumption
  <2>2. ASSUME NEW s \in Slot
        PROVE  /\ Dist(swhead', s) < Dist(swhead', hwpos) =>
                    va[s].du /\ va[s].frame.n = reaped' + Dist(swhead', s) + 1
               /\ Dist(swhead', hwpos) <= Dist(swhead', s) /\ Dist(swhead', s) < Dist(swhead', swtail) =>
                    ~va[s].du
    <3>1. /\ Dist(swhead, hwpos) \in 0..(Size - 1) /\ Dist(swhead, swtail) \in 0..(Size - 1)
          /\ Dist(swhead, s) \in 0..(Size - 1)
      BY <1>4, <1>5
    <3>2. CASE s = swhead
      BY <1>3, <1>8, <3>1, <3>2, SizeAssumption
    <3>3. CASE s # swhead
      BY <1>1, <1>3, <1>4, <1>6, <1>8, <3>1, <3>3, SizeAssumption
    <3>4. QED
      BY <3>2, <3>3
  <2>3. QED
    BY <1>1, <2>1, <2>2 DEF Order
<1>13. PollOn'
  BY <1>1 DEF PollOn
<1>14. QED
  BY <1>9, <1>10, <1>11, <1>12, <1>13 DEF IInv


\* The steps of a poll that leave the buffers alone; the last of a refill tells the
\* device of all buffers.
LEMMA PollInv == ASSUME IInv, PollBegin \/ ReapEnd \/ RefillEnd \/ PollEnd PROVE IInv'
<1>1. /\ UNCHANGED <<up, swhead, swtail, va, ctx, mapped, hwpos, received, reaped, inits>>
      /\ hwtail' \in {hwtail, swtail} /\ irq' \in BOOLEAN /\ up = "on"
  BY DEF PollBegin, ReapEnd, RefillEnd, PollEnd, Published, hist, IInv, TypeOK, PollOn
<1>2. poll' \in Polling \cup {NULL}
  <2>1. 0 \in 0..Budget
    BY BudgetAssumption
  <2>2. [at |-> "reap", done |-> 0] \in Polling
    BY <2>1 DEF Polling
  <2>3. poll # NULL => [poll EXCEPT !.at = "refill"] \in Polling /\ [poll EXCEPT !.at = "end"] \in Polling
    BY DEF IInv, TypeOK, Polling
  <2>4. QED
    BY <2>2, <2>3 DEF PollBegin, ReapEnd, RefillEnd, PollEnd
<1>3. /\ swhead \in Slot /\ swtail \in Slot /\ hwtail \in Slot /\ hwpos \in Slot
      /\ \A s \in Slot : Dist(swhead, s) \in Int
  BY Indices, DistOne, SizeAssumption DEF IInv
<1>4. TypeOK' /\ PollOn'
  BY <1>1, <1>2, <1>3 DEF IInv, TypeOK, PollOn
<1>5. Window' /\ Starting'
  BY <1>1 DEF IInv, Window, Starting
<1>6. Order'
  <2>1. /\ Dist(swhead, hwpos) <= Dist(swhead, hwtail')
        /\ Dist(swhead, hwtail') <= Dist(swhead, swtail)
    BY <1>1, <1>3 DEF IInv, Order
  <2>2. QED
    BY <1>1, <2>1 DEF IInv, Order
<1>7. QED
  BY <1>4, <1>5, <1>6 DEF IInv

\* The device fills the next buffer, if it has been told of one.
LEMMA ReceiveInv == ASSUME IInv, HwReceive PROVE IInv'
<1>1. /\ up = "on" /\ hwpos # hwtail /\ received < MaxFrames /\ received' = received + 1
      /\ hwpos' = NextSlot(hwpos) /\ irq' = TRUE
      /\ UNCHANGED <<up, swhead, swtail, hwtail, ctx, mapped, poll, reaped, inits>>
  BY DEF HwReceive
<1>2. PICK k \in FrameKinds :
        va' = [va EXCEPT ![hwpos] = [du |-> TRUE, frame |-> [n |-> received + 1, kind |-> k]]]
  BY DEF HwReceive
<1>3. /\ swhead \in Slot /\ swtail \in Slot /\ hwtail \in Slot /\ hwpos \in Slot /\ hwpos' \in Slot
      /\ received \in Nat /\ reaped \in Nat
  BY <1>1, Indices, NextFarther DEF IInv
<1>4. /\ \A s \in Slot : Dist(swhead, s) \in 0..(Size - 1)
      /\ \A s \in Slot : Dist(swhead, s) = Dist(swhead, hwpos) => s = hwpos
      /\ Dist(swhead, swhead) = 0
  BY <1>3, DistOne
<1>5. /\ Dist(swhead, hwpos) <= Dist(swhead, hwtail)
      /\ Dist(swhead, hwtail) <= Dist(swhead, swtail)
      /\ received = reaped + Dist(swhead, hwpos)
      /\ \A s \in Slot :
           /\ Dist(swhead, s) < Dist(swhead, hwpos) =>
                va[s].du /\ va[s].frame.n = reaped + Dist(swhead, s) + 1
           /\ Dist(swhead, hwpos) <= Dist(swhead, s) /\ Dist(swhead, s) < Dist(swhead, swtail) =>
                ~va[s].du
  BY <1>1 DEF IInv, Order
<1>6. Dist(swhead, hwpos) < Dist(swhead, hwtail)
  BY <1>1, <1>3, <1>4, <1>5, SizeAssumption
<1>7. Dist(swhead, hwpos') = Dist(swhead, hwpos) + 1
  <2>1. SUFFICES ASSUME NextSlot(hwpos) = swhead PROVE FALSE
    BY <1>1, <1>3, NextFarther
  <2>2. swhead = IF hwpos = Size - 1 THEN 0 ELSE hwpos + 1
    BY <1>3, <2>1, Wrap, SizeAssumption DEF NextSlot, Slot
  <2>3. Dist(swhead, hwpos) = Size - 1
    BY <1>3, <2>2, SizeAssumption DEF Dist, Slot
  <2>4. QED
    BY <1>3, <1>4, <1>6, <2>3, SizeAssumption
<1>8. /\ va'[hwpos] = [du |-> TRUE, frame |-> [n |-> received + 1, kind |-> k]]
      /\ \A s \in Slot : s # hwpos => va'[s] = va[s]
  BY <1>2, <1>3 DEF IInv, TypeOK
<1>9. TypeOK'
  <2>1. received + 1 \in 1..MaxFrames /\ received' \in 0..MaxFrames
    BY <1>1, <1>3, BoundAssumption
  <2>2. [du |-> TRUE, frame |-> [n |-> received + 1, kind |-> k]] \in Desc
    BY <2>1 DEF Desc
  <2>3. va' \in [Slot -> Desc]
    BY <1>2, <2>2 DEF IInv, TypeOK
  <2>4. QED
    BY <1>1, <1>3, <2>1, <2>3 DEF IInv, TypeOK
<1>10. Window'
  BY <1>1 DEF IInv, Window
<1>11. Starting' /\ PollOn'
  BY <1>1 DEF IInv, Starting, PollOn
<1>12. Order'
  <2>1. /\ Dist(swhead, hwpos') <= Dist(swhead, hwtail)
        /\ received' = reaped + Dist(swhead, hwpos')
    BY <1>1, <1>3, <1>4, <1>5, <1>6, <1>7, SizeAssumption
  <2>2. ASSUME NEW s \in Slot
        PROVE  /\ Dist(swhead, s) < Dist(swhead, hwpos') =>
                    va'[s].du /\ va'[s].frame.n = reaped + Dist(swhead, s) + 1
               /\ Dist(swhead, hwpos') <= Dist(swhead, s) /\ Dist(swhead, s) < Dist(swhead, swtail) =>
                    ~va'[s].du
    <3>1. Dist(swhead, s) \in Int /\ Dist(swhead, hwpos) \in Int
      BY <1>3, <1>4, SizeAssumption
    <3>2. CASE s = hwpos
      BY <1>1, <1>5, <1>7, <1>8, <3>1, <3>2
    <3>3. CASE s # hwpos
      <4>1. Dist(swhead, s) # Dist(swhead, hwpos) /\ va'[s] = va[s]
        BY <1>4, <1>8, <3>3
      <4>2. QED
        BY <1>5, <1>7, <3>1, <4>1
    <3>4. QED
      BY <3>2, <3>3
  <2>3. QED
    BY <1>1, <1>5, <2>1, <2>2 DEF Order
<1>13. QED
  BY <1>9, <1>10, <1>11, <1>12 DEF IInv

-----------------------------------------------------------------------------
\* Every step keeps the invariant.
LEMMA StepInv == ASSUME Restart = FALSE, IInv, [Next]_vars PROVE IInv'
<1>1. CASE UNCHANGED vars
  BY <1>1 DEF vars, IInv, TypeOK, Window, Starting, Order, PollOn
<1>2. CASE RxInit \/ RxFini
  BY <1>2, RxInitInv, ToFreeInv
<1>3. CASE RingStep
  <2>1. CASE InitFill
    BY <2>1, PostInv DEF InitFill
  <2>2. CASE InitDone \/ InitFail \/ FreeOne \/ FreeEnd
    BY <2>2, InitDoneInv, ToFreeInv, FreeInv
  <2>3. QED
    BY <1>3, <2>1, <2>2 DEF RingStep
<1>4. CASE PollStep
  <2>1. CASE Refill
    BY <2>1, PostInv DEF Refill, IInv, PollOn
  <2>2. CASE Reap
    BY <2>2, ReapInv
  <2>3. CASE PollBegin \/ ReapEnd \/ RefillEnd \/ PollEnd
    BY <2>3, PollInv
  <2>4. QED
    BY <1>4, <2>1, <2>2, <2>3 DEF PollStep
<1>5. CASE HwReceive
  BY <1>5, ReceiveInv
<1>6. QED
  BY <1>1, <1>2, <1>3, <1>4, <1>5 DEF Next

\* The invariant holds in every state that is reached.
THEOREM Inductive == ASSUME Restart = FALSE PROVE Spec => []IInv
<1>1. IInv /\ [Next]_vars => IInv'
  BY StepInv
<1>2. QED
  BY <1>1, InitInv, PTL DEF Spec

\* The slots from head to tail hold buffers, and no others do (wil_rx_refill,
\* wil_vring_reap_rx).
THEOREM BuffersHeld == ASSUME Restart = FALSE PROVE Spec => []BuffersInWindow
<1>1. IInv => BuffersInWindow
  BY BetweenDist, Indices DEF IInv, Window, BuffersInWindow
<1>2. QED
  BY <1>1, Inductive, PTL

\* The device writes only to buffers that are posted, mapped and not completed.
THEOREM DeviceBounded == ASSUME Restart = FALSE PROVE Spec => []HwOwnsItsSlots
<1>1. IInv => HwOwnsItsSlots
  <2>1. SUFFICES ASSUME IInv, up = "on", NEW s \in Between(hwpos, hwtail)
                 PROVE  ctx[s] /\ mapped[s] /\ ~va[s].du
    BY DEF HwOwnsItsSlots
  <2>2. /\ s \in Slot /\ swhead \in Slot /\ swtail \in Slot /\ hwtail \in Slot /\ hwpos \in Slot
    BY <2>1, Indices DEF IInv, Between
  <2>3. /\ Dist(swhead, hwpos) <= Dist(swhead, hwtail)
        /\ Dist(swhead, hwtail) <= Dist(swhead, swtail)
    BY <2>1 DEF IInv, Order
  <2>4. Dist(swhead, hwpos) <= Dist(swhead, s) /\ Dist(swhead, s) < Dist(swhead, hwtail)
    BY <2>1, <2>2, <2>3, BetweenAhead
  <2>5. Dist(swhead, s) < Dist(swhead, swtail)
    BY <2>2, <2>3, <2>4, DistOne, SizeAssumption
  <2>6. QED
    BY <2>1, <2>2, <2>4, <2>5 DEF IInv, Window, Order
<1>2. QED
  BY <1>1, Inductive, PTL

\* Frames are reaped in the order of their reception.
THEOREM InOrder == ASSUME Restart = FALSE PROVE Spec => ReapedInOrder
<1> DEFINE A == Reap => va[swhead].frame.n = reaped + 1
<1>1. IInv => A
  BY HeadCompleted DEF IInv, PollOn, Reap
<1>2. QED
  BY <1>1, Inductive, PTL DEF ReapedInOrder

=============================================================================
