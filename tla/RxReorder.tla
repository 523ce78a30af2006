----------------------------- MODULE RxReorder -----------------------------
(***************************************************************************)
(* The Rx reorder buffer of one (CID, TID) pair, rx_reorder.c.             *)
(*                                                                         *)
(* tid_rx is sta->tid_rx[tid]: NULL, or the struct wil_tid_ampdu_rx of the *)
(* Block Ack session.  A frame is a natural number; its 12 bit sequence    *)
(* number is the frame modulo SeqModulo, so that distinct frames may carry *)
(* the same sequence number, as they do on the air.  One action is one     *)
(* call of a handler, as if the calls excluded each other.  Only           *)
(* wil_rx_reorder takes reorder_lock, and after it has read the pointer;   *)
(* whoever frees a session takes no lock.  RxSessions has their steps.     *)
(* Statistics (ssn_last_drop, reorder_time) are left out: nothing but      *)
(* debugfs reads them.                                                     *)
(*                                                                         *)
(* A definition named X_m_... is X with a plausible slip; no specification *)
(* uses it, it stands in for X when a property is tested against it.       *)
(***************************************************************************)
EXTENDS Integers, FiniteSets, Sequences, SortedSets

CONSTANTS
  SeqModulo,  (* SEQ_MODULO, 0x1000 in the code                            *)
  WSizes,     (* the window sizes a session may be agreed with             *)
  Ssns,       (* the starting sequence numbers an ADDBA request may carry  *)
  Frames,     (* the frames the peer may send                              *)
  NULL

ASSUME SeqModuloAssumption == SeqModulo \in Nat /\ SeqModulo > 2
\* wil_back_handle caps a window at 16, far below half the sequence space; an
\* ADDBA request of size 0, which the code does not refuse, makes
\* reorder_index divide by zero and is outside the model.
ASSUME WSizesAssumption == \A n \in WSizes : n \in 1..SeqModulo /\ 2 * n < SeqModulo
ASSUME SsnsAssumption == Ssns \subseteq 0..(SeqModulo - 1)
ASSUME FramesAssumption == Frames \subseteq Nat /\ NULL \notin Frames

VARIABLES
  tid_rx,     (* NULL or the session                                       *)
  out         (* the frames the last call gave to wil_netif_rx_any, in order *)

vars == <<tid_rx, out>>

SeqNums == 0..(SeqModulo - 1)

-----------------------------------------------------------------------------
(* Sequence number arithmetic. *)

wil_rxdesc_seq(f) == f % SeqModulo

seq_sub(a, b) == (a - b) % SeqModulo

seq_inc_m_unmasked(a) == a + 1

seq_inc(a) == (a + 1) % SeqModulo

seq_less(a, b) == seq_sub(a, b) > SeqModulo \div 2

reorder_index(r, seq) == seq_sub(seq, r.ssn) % r.buf_size

Slots(r) == 0..(r.buf_size - 1)

Stored(r) == {i \in Slots(r) : r.reorder_buf[i] # NULL}

Held(r) == {r.reorder_buf[i] : i \in Stored(r)}

-----------------------------------------------------------------------------
(* Releasing frames. *)

\* The slot of the k-th sequence number from the head.
SlotAt(r, k) == reorder_index(r, (r.head_seq_num + k) % SeqModulo)

\* Slot k was already visited by a loop that starts at the head: when
\* buf_size does not divide SeqModulo this happens within one window.
Revisits(r, k) == \E j \in 0..(k - 1) : SlotAt(r, j) = SlotAt(r, k)

\* The positions, from the head, at which a loop of n iterations of
\* wil_release_reorder_frame finds a frame.
Hits(r, n) == {k \in 0..(n - 1) : /\ r.reorder_buf[SlotAt(r, k)] # NULL
                                  /\ ~Revisits(r, k)}

wil_release_reorder_frame_m_keeps_count(r, n) ==
  [r EXCEPT
    !.reorder_buf    = [i \in Slots(r) |->
                          IF \E k \in Hits(r, n) : SlotAt(r, k) = i
                          THEN NULL ELSE r.reorder_buf[i]],
    !.head_seq_num    = (@ + n) % SeqModulo]

\* n iterations of wil_release_reorder_frame: the frames leave their slots
\* and the head moves once per iteration, frame or no frame.
wil_release_reorder_frame(r, n) ==
  [r EXCEPT
    !.reorder_buf    = [i \in Slots(r) |->
                          IF \E k \in Hits(r, n) : SlotAt(r, k) = i
                          THEN NULL ELSE r.reorder_buf[i]],
    !.stored_mpdu_num = @ - Cardinality(Hits(r, n)),
    !.head_seq_num    = (@ + n) % SeqModulo]

\* The frames those iterations pass to the stack, in the order of the loop.
Released(r, n) ==
  LET ks == Ascending(Hits(r, n))
  IN  [j \in DOMAIN ks |-> r.reorder_buf[SlotAt(r, ks[j])]]

\* Iterations of the loop of wil_release_reorder_frames.
StepsTo(r, hseq) ==
  IF seq_less(r.head_seq_num, hseq) THEN seq_sub(hseq, r.head_seq_num) ELSE 0

Run_m_one_frame(r) == IF r.reorder_buf[SlotAt(r, 0)] = NULL THEN 0 ELSE 1

\* Iterations of the loop of wil_reorder_release: up to the first slot that
\* is empty, or that the loop itself has emptied.
Run(r) ==
  CHOOSE n \in 0..r.buf_size :
    /\ r.reorder_buf[SlotAt(r, n)] = NULL \/ Revisits(r, n)
    /\ \A k \in 0..(n - 1) :
         r.reorder_buf[SlotAt(r, k)] # NULL /\ ~Revisits(r, k)

-----------------------------------------------------------------------------
(* Sessions. *)

wil_tid_ampdu_rx_alloc(size, ssn) ==
  [ssn |-> ssn, head_seq_num |-> ssn, buf_size |-> size, stored_mpdu_num |-> 0,
   reorder_buf |-> [i \in 0..(size - 1) |-> NULL]]

wil_tid_ampdu_rx_free_m_no_flush(r) == <<>>

\* What freeing a session gives to the stack: every frame of the window, if no poll
\* works on the session meanwhile.
wil_tid_ampdu_rx_free(r) ==
  IF r = NULL THEN <<>>
  ELSE Released(r, StepsTo(r, (r.head_seq_num + r.buf_size) % SeqModulo))

Init == tid_rx = NULL /\ out = <<>>

\* A frame of a TID without a session goes straight to the stack.
NoSession(f) ==
  /\ tid_rx = NULL
  /\ out' = <<f>>
  /\ UNCHANGED tid_rx

MakeRoom_m_off_by_one(r, seq) ==
  IF ~seq_less(seq, r.head_seq_num + r.buf_size)
  THEN StepsTo(r, seq_sub(seq, r.buf_size))
  ELSE 0

MakeRoom_m_never(r, seq) == 0

\* How far the head moves to make room for a frame with sequence number seq.
MakeRoom(r, seq) ==
  IF ~seq_less(seq, r.head_seq_num + r.buf_size)
  THEN StepsTo(r, seq_inc(seq_sub(seq, r.buf_size)))
  ELSE 0

\* The rest of wil_rx_reorder once there is room: r has been advanced and
\* done holds what the advance gave to the stack.
Place(r, f, done) ==
  LET seq   == wil_rxdesc_seq(f)
      index == reorder_index(r, seq)
      with  == [r EXCEPT !.reorder_buf[index] = f, !.stored_mpdu_num = @ + 1]
  IN  \/ /\ r.reorder_buf[index] # NULL            \* already stored: dropped
         /\ tid_rx' = r /\ out' = done
      \/ /\ r.reorder_buf[index] = NULL            \* in order, nothing stored
         /\ seq = r.head_seq_num /\ r.stored_mpdu_num = 0
         /\ tid_rx' = [r EXCEPT !.head_seq_num = seq_inc(@)]
         /\ out' = Append(done, f)
      \/ /\ r.reorder_buf[index] = NULL            \* stored, then released
         /\ ~(seq = r.head_seq_num /\ r.stored_mpdu_num = 0)
         /\ tid_rx' = wil_release_reorder_frame(with, Run(with))
         /\ out' = done \o Released(with, Run(with))

wil_rx_reorder_m_takes_old(f) ==
  \/ NoSession(f)
  \/ /\ tid_rx # NULL
     /\ LET n == MakeRoom(tid_rx, wil_rxdesc_seq(f))
        IN  Place(wil_release_reorder_frame(tid_rx, n), f, Released(tid_rx, n))

wil_rx_reorder(f) ==
  \/ NoSession(f)
  \/ /\ tid_rx # NULL                              \* out of date: dropped
     /\ seq_less(wil_rxdesc_seq(f), tid_rx.head_seq_num)
     /\ out' = <<>>
     /\ UNCHANGED tid_rx
  \/ /\ tid_rx # NULL
     /\ ~seq_less(wil_rxdesc_seq(f), tid_rx.head_seq_num)
     /\ LET n == MakeRoom(tid_rx, wil_rxdesc_seq(f))
        IN  Place(wil_release_reorder_frame(tid_rx, n), f, Released(tid_rx, n))

\* wil_back_handle once the ADDBA response was sent, with nobody between its free
\* and its assignment; wmi_evt_ba_status and wil_disconnect_cid end in the same two
\* steps for one TID.  An allocation that fails leaves no session.
wil_back_handle(size, ssn) ==
  /\ out' = wil_tid_ampdu_rx_free(tid_rx)
  /\ tid_rx' \in {wil_tid_ampdu_rx_alloc(size, ssn), NULL}

\* A disconnect, or a BA status event that is not an agreement.
SessionEnd ==
  /\ out' = wil_tid_ampdu_rx_free(tid_rx)
  /\ tid_rx' = NULL

Next ==
  \/ \E f \in Frames : wil_rx_reorder(f)
  \/ \E size \in WSizes, ssn \in Ssns : wil_back_handle(size, ssn)
  \/ SessionEnd

Spec == Init /\ [][Next]_vars

-----------------------------------------------------------------------------
(* Properties. *)

Session(size) ==
  [ssn : SeqNums, head_seq_num : SeqNums, buf_size : {size},
   stored_mpdu_num : 0..size,
   reorder_buf : [0..(size - 1) -> Frames \cup {NULL}]]

ASSUME NullAssumption == \A size \in WSizes : NULL \notin Session(size)

\* The type of the state: a session is NULL or a struct wil_tid_ampdu_rx whose
\* array has buf_size entries.
TypeOK ==
  /\ tid_rx = NULL \/ \E size \in WSizes : tid_rx \in Session(size)
  /\ out \in Seq(Frames)

\* stored_mpdu_num, which decides the fast path of wil_rx_reorder, is the
\* number of occupied slots.
StoredCount ==
  tid_rx # NULL => tid_rx.stored_mpdu_num = Cardinality(Stored(tid_rx))

\* A stored frame is in its own slot and less than buf_size ahead of the head:
\* "the new frame is always in the range of the reordering buffer"
\* (rx_reorder.c:113).
InWindow ==
  tid_rx # NULL =>
    \A i \in Stored(tid_rx) :
      LET seq == wil_rxdesc_seq(tid_rx.reorder_buf[i])
      IN  /\ reorder_index(tid_rx, seq) = i
          /\ seq_sub(seq, tid_rx.head_seq_num) < tid_rx.buf_size

\* Between calls the slot at the head is empty: wil_rx_reorder never leaves a
\* frame behind that is next in order.
HeadSlotEmpty ==
  tid_rx # NULL => tid_rx.reorder_buf[SlotAt(tid_rx, 0)] = NULL

\* How far sequence number of frame f lies ahead of head.
Ahead(f, head) == seq_sub(wil_rxdesc_seq(f), head)

\* While a session lasts its head moves by less than half the sequence space,
\* frames go up in sequence order, and every one lies between the old head and
\* the new one: so no call gives the stack a frame after a later one.
InOrder ==
  [][\A f \in Frames :
       tid_rx # NULL /\ wil_rx_reorder(f) =>
         LET old == tid_rx.head_seq_num
             adv == seq_sub(tid_rx'.head_seq_num, old)
         IN  /\ adv <= SeqModulo \div 2 + 1         \* < SeqModulo: no wrap
             /\ \A j \in DOMAIN out' : Ahead(out'[j], old) < adv
             /\ \A j \in 1..(Len(out') - 1) :
                  Ahead(out'[j], old) < Ahead(out'[j + 1], old)]_vars

\* No call loses a frame that is held: it is given to the stack or still held.
\* The end of a session flushes it.
NoHeldFrameLost ==
  [][tid_rx # NULL =>
       \A f \in Held(tid_rx) :
         \/ \E j \in DOMAIN out' : out'[j] = f
         \/ tid_rx' # NULL /\ f \in Held(tid_rx')]_vars

\* The frame a call brings is given to the stack or stored, unless it is out
\* of date or the same sequence number is already stored ("check if we already
\* stored this frame", rx_reorder.c:117).
NoFalseDrop ==
  [][\A f \in Frames :
       tid_rx # NULL /\ wil_rx_reorder(f) =>
         \/ \E j \in DOMAIN out' : out'[j] = f
         \/ f \in Held(tid_rx')
         \/ seq_less(wil_rxdesc_seq(f), tid_rx.head_seq_num)
         \/ \E g \in Held(tid_rx) : wil_rxdesc_seq(g) = wil_rxdesc_seq(f)]_vars

=============================================================================
