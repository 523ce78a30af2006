----------------------------- MODULE BaSession -----------------------------
(***************************************************************************)
(* One Block Ack session from the peer's window to the stack: the peer     *)
(* (external) sends frames of its current window, repeats those whose      *)
(* acknowledgement was lost and gives up on others; the device puts what   *)
(* arrives in the Rx vring; the Rx poll takes the frames from there, one   *)
(* wil_rx_reorder each (wil_rx_handle, txrx.c:494).                        *)
(*                                                                         *)
(* Frames are numbered absolutely here, so that a frame can be told from   *)
(* the one SeqModulo later that carries the same sequence number.          *)
(***************************************************************************)
EXTENDS RxReorder

CONSTANT VringMax   (* frames that wait in the Rx vring at a time *)

ASSUME VringMaxAssumption == VringMax \in Nat \ {0}

VARIABLES
  winStart,   (* the peer's window is winStart..winStart + buf_size - 1 *)
  top,        (* the highest frame that arrived, winStart - 1 at first  *)
  rxq,        (* the frames in the Rx vring, in the order of arrival    *)
  absHead     (* history: the absolute number of the head               *)

baVars == <<tid_rx, out, winStart, top, rxq, absHead>>

SessionInit ==
  /\ \E n \in Ssns, size \in WSizes :
       /\ tid_rx = wil_tid_ampdu_rx_alloc(size, wil_rxdesc_seq(n))
       /\ winStart = n /\ top = n - 1 /\ absHead = n
  /\ out = <<>>
  /\ rxq = <<>>

\* A frame of the peer's window arrives, perhaps not for the first time.
Arrival(f) ==
  /\ f \in winStart..(winStart + tid_rx.buf_size - 1)
  /\ Len(rxq) < VringMax
  /\ rxq' = Append(rxq, f)
  /\ top' = IF f > top THEN f ELSE top
  /\ UNCHANGED <<tid_rx, out, winStart, absHead>>

\* The peer is done with the first frame of its window: acknowledged, or given
\* up.  It never leaves half of the sequence space without an arrival, which is
\* what makes sequence numbers comparable at all.
PeerAdvance ==
  /\ winStart \in Frames
  /\ winStart + 2 * tid_rx.buf_size <= top + SeqModulo \div 2
  /\ winStart' = winStart + 1
  /\ UNCHANGED <<tid_rx, out, top, rxq, absHead>>

\* One iteration of the loop of wil_rx_handle.
RxPoll ==
  /\ rxq # <<>>
  /\ rxq' = Tail(rxq)
  /\ wil_rx_reorder(Head(rxq))
  /\ absHead' = absHead + seq_sub(tid_rx'.head_seq_num, tid_rx.head_seq_num)
  /\ UNCHANGED <<winStart, top>>

SessionNext == (\E f \in Frames : Arrival(f)) \/ PeerAdvance \/ RxPoll

SessionSpec == SessionInit /\ [][SessionNext]_baVars /\ WF_baVars(RxPoll)

-----------------------------------------------------------------------------
Abstract == INSTANCE InOrderDelivery WITH
              next <- absHead, held <- Held(tid_rx), window <- tid_rx.buf_size

\* The ring of slots addressed modulo buf_size, with 12 bit sequence numbers
\* and a head, is an in-order delivery window over unbounded numbers.
DeliversInOrder == Abstract!Spec

\* Stored frames do not wait for ever: "@reorder_timer: releases expired frames
\* from the reorder buffer" (wil6210.h:252).
StoredFrameReleased ==
  \A f \in Frames : f \in Held(tid_rx) ~> f \notin Held(tid_rx)
=============================================================================
