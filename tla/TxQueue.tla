------------------------------ MODULE TxQueue ------------------------------
(***************************************************************************)
(* The Tx rings of an AP-like interface behind its one netdev queue:       *)
(* wil_start_xmit with the lookup and wil_tx_bcast, the Tx poll that walks *)
(* all rings, and the rings that come and go with their stations.          *)
(*                                                                         *)
(* A ring is reduced to two counts, the descriptors that wait for the      *)
(* device and those it has done; TxVring is what goes on inside one ring,  *)
(* and refines this module.  A frame is                                    *)
(*   to    the station it is addressed to, ALL, or EAPOL for a frame that  *)
(*         goes as a WMI command;                                          *)
(*   need  the descriptors it takes;                                       *)
(*   got   (history) the stations it or a copy of it was put in a ring of. *)
(*                                                                         *)
(* A definition named X_m_... is X with a plausible slip; no specification *)
(* uses it, it stands in for X when a property is tested against it.       *)
(***************************************************************************)
EXTENDS Integers, FiniteSetsExt

CONSTANTS
  MaxRings,   (* WIL6210_MAX_TX_RINGS                                        *)
  Size,       (* vring->size                                                 *)
  StopBelow,  (* vring->size/8: below it the stack is stopped                *)
  WakeAbove,  (* vring->size/4: above it the stack is woken                  *)
  Needs,      (* the numbers of descriptors of a frame                       *)
  Stations,
  Dest,       (* whom the stack may send to                                  *)
  DmaErrors,  (* TRUE: mapping a buffer may fail                             *)
  Churn,      (* TRUE: stations come and go                                  *)
  Overlap,    (* TRUE: they go while a frame is put in a ring or a poll runs *)
  ALL, EAPOL, NULL

ASSUME SizeAssumption == Size \in Nat /\ MaxRings \in Nat \ {0}
ASSUME ThresholdAssumption ==
  StopBelow \in Nat /\ WakeAbove \in Nat /\ WakeAbove < Size - 2
ASSUME NeedAssumption == Needs \subseteq 1..(Size - 2)
ASSUME DestAssumption ==
  /\ Dest \subseteq Stations \cup {ALL, EAPOL}
  /\ {ALL, EAPOL, NULL} \cap Stations = {}

VARIABLES
  sta,     (* per ring: NULL, or the station it is allocated for             *)
  todo,    (* per ring: descriptors the device has not done                  *)
  sent,    (* per ring: descriptors it has done, not released                *)
  rung,    (* per ring: the device was told of all of them                   *)
  xmit,    (* NULL or the progress of wil_start_xmit                         *)
  retry,   (* NULL or the frame the stack requeued after NETDEV_TX_BUSY      *)
  stopped, (* the netdev queue is stopped                                    *)
  irq,     (* a Tx interrupt is pending, or NAPI is to poll again            *)
  comp,    (* NULL or the progress of wil6210_netdev_poll_tx                 *)
  linking  (* NULL or the ring that the connect worker configures            *)

vars == <<sta, todo, sent, rung, xmit, retry, stopped, irq, comp, linking>>

rings == <<sta, todo, sent, rung>>

Ring == 0..(MaxRings - 1)

Allocated == {r \in Ring : sta[r] # NULL}

\* wil_vring_avail_tx.
Avail(r) == Size - todo[r] - sent[r] - 1

\* Some stations are connected.
Init ==
  /\ sta \in [Ring -> Stations \cup {NULL}]
  /\ \A q, r \in Allocated : sta[q] = sta[r] => q = r
  /\ todo = [r \in Ring |-> 0] /\ sent = [r \in Ring |-> 0]
  /\ rung = [r \in Ring |-> TRUE]
  /\ xmit = NULL /\ retry = NULL /\ comp = NULL /\ linking = NULL
  /\ stopped = FALSE /\ irq = FALSE

-----------------------------------------------------------------------------
(* wil_start_xmit.  The stack calls it only while the queue is awake, one   *)
(* call at a time, and with a requeued frame before any other.              *)

StackSends(f) ==
  /\ xmit = NULL /\ ~stopped
  /\ IF retry = NULL THEN f \in [to : Dest, need : Needs, got : {{}}] ELSE f = retry

\* The tail of wil_tx_bcast, and the end of the lookup: the frame goes to ring r
\* next, copy or original; wil_vring_avail_tx reads the tail.  The copies are
\* made from the frame, so the original is addressed before them.
Visit(f, r, first) ==
  xmit' = [pc |-> "check", skb |-> f, ring |-> r, first |-> first, avail |-> Avail(r)]

wil_set_da_for_vring_m_copies_only(f, r) == f

\* The frame is addressed to the station of ring r: broadcast becomes unicast.
wil_set_da_for_vring(f, r) == [f EXCEPT !.to = sta[r]]

\* The rings that get a copy of a broadcast frame: the allocated ones above the
\* first.  After the last the original goes to the first.
CopiesAfter(r) == {q \in Allocated : q > r}

\* The firmware is not ready or not connected, which others decide: dropped.
XmitNotReady(f) ==
  /\ StackSends(f)
  /\ retry' = NULL
  /\ UNCHANGED <<rings, xmit, stopped, irq, comp, linking>>

\* wil_tx_bcast, up to the first ring that gets a copy.
XmitBcast(f) ==
  /\ StackSends(f) /\ f.to = ALL /\ Allocated # {}
  /\ retry' = NULL
  /\ LET first == Min(Allocated)
     IN Visit(wil_set_da_for_vring(f, first),
              IF CopiesAfter(first) = {} THEN first ELSE Min(CopiesAfter(first)), first)
  /\ UNCHANGED <<rings, stopped, irq, comp, linking>>

\* wil_find_tx_vring: the ring of the station.
XmitUnicast(f) ==
  /\ StackSends(f)
  /\ retry' = NULL
  /\ \E r \in Allocated : sta[r] = f.to /\ Visit(f, r, r)
  /\ UNCHANGED <<rings, stopped, irq, comp, linking>>

\* No ring to send on: the frame is dropped; a broadcast frame stops the queue.
XmitNoRing(f) ==
  /\ StackSends(f) /\ f.to # EAPOL
  /\ retry' = NULL
  /\ IF f.to = ALL THEN Allocated = {} ELSE \A r \in Allocated : sta[r] # f.to
  /\ stopped' = (f.to = ALL)
  /\ UNCHANGED <<rings, xmit, irq, comp, linking>>

\* wmi_tx_eapol: sent, or refused and dropped with the queue stopped.  It never
\* returns -ENOMEM, so the stack does not requeue such a frame.
XmitEapol(f) ==
  /\ StackSends(f) /\ f.to = EAPOL
  /\ retry' = NULL
  /\ stopped' \in {stopped, TRUE}
  /\ UNCHANGED <<rings, xmit, irq, comp, linking>>

\* The frame or copy has been dealt with on this ring.  After a copy comes the
\* next, whose ring is read in a step of its own.
IsCopy == xmit.ring # xmit.first

Leave(f) == IF IsCopy THEN xmit' = [pc |-> "next", skb |-> f, ring |-> xmit.ring,
                                    first |-> xmit.first]
            ELSE xmit' = NULL

XmitNext ==
  /\ xmit # NULL /\ xmit.pc = "next"
  /\ Visit(xmit.skb,
           IF CopiesAfter(xmit.ring) = {} THEN xmit.first ELSE Min(CopiesAfter(xmit.ring)),
           xmit.first)
  /\ UNCHANGED <<rings, retry, stopped, irq, comp, linking>>

\* The two tests of avail.  A copy that does not fit is forgotten; the original
\* ends in NETDEV_TX_BUSY.
XmitCheck ==
  /\ xmit # NULL /\ xmit.pc = "check"
  /\ stopped' = (stopped \/ xmit.avail < StopBelow)
  /\ IF xmit.avail < xmit.skb.need
     THEN /\ Leave(xmit.skb)
          /\ retry' = IF IsCopy THEN NULL ELSE xmit.skb
     ELSE /\ xmit' = [xmit EXCEPT !.pc = "fill"]
          /\ UNCHANGED retry
  /\ UNCHANGED <<rings, irq, comp, linking>>

\* The descriptors are filled and the device is told, through the register
\* whose address the firmware gave for the ring.
XmitFill ==
  /\ xmit # NULL /\ xmit.pc = "fill"
  /\ LET r == xmit.ring
     IN  /\ todo' = [todo EXCEPT ![r] = @ + xmit.skb.need]
         /\ rung' = [rung EXCEPT ![r] = linking # r]
         /\ Leave([xmit.skb EXCEPT !.got = @ \cup {sta[r]}])
  /\ UNCHANGED <<sta, sent, retry, stopped, irq, comp, linking>>

\* A buffer cannot be mapped.  Nobody looks at the result for a copy; the
\* original is dropped and the queue stopped.
XmitFail ==
  /\ xmit # NULL /\ xmit.pc = "fill" /\ DmaErrors
  /\ stopped' = (stopped \/ ~IsCopy)
  /\ Leave(xmit.skb)
  /\ UNCHANGED <<rings, retry, irq, comp, linking>>

-----------------------------------------------------------------------------
(* wil6210_netdev_poll_tx: wil_tx_complete for every allocated ring.        *)

\* The first loop of wil_tx_complete: the device need not report a descriptor
\* before the last one of a packet.  The last one reported is not released.
Scan(r, total) ==
  \E n \in 0..(sent[r] - (IF sent[r] > 0 THEN 1 ELSE 0)) :
    /\ todo[r] = 0 /\ sent[r] > 0 => n = sent[r] - 1
    /\ comp' = [pc |-> "release", ring |-> r, n |-> n, total |-> total]

PollBegin ==
  /\ comp = NULL /\ irq
  /\ irq' = FALSE
  /\ IF Allocated = {} THEN UNCHANGED comp ELSE Scan(Min(Allocated), 0)
  /\ UNCHANGED <<rings, xmit, retry, stopped, linking>>

\* The next allocated ring; or the end, with another poll after more than one
\* released descriptor.
RingsAfter(r) == {q \in Allocated : q > r}

CompNext_m_first_only ==
  /\ comp # NULL /\ comp.pc = "next"
  /\ comp' = NULL /\ irq' = (irq \/ comp.total > 1)
  /\ UNCHANGED <<rings, xmit, retry, stopped, linking>>

CompNext ==
  /\ comp # NULL /\ comp.pc = "next"
  /\ IF RingsAfter(comp.ring) = {}
     THEN comp' = NULL /\ irq' = (irq \/ comp.total > 1)
     ELSE Scan(Min(RingsAfter(comp.ring)), comp.total) /\ UNCHANGED irq
  /\ UNCHANGED <<rings, xmit, retry, stopped, linking>>

\* The second loop of wil_tx_complete, and the new tail.
CompRelease ==
  /\ comp # NULL /\ comp.pc = "release"
  /\ sent' = [sent EXCEPT ![comp.ring] = @ - comp.n]
  /\ comp' = [pc |-> "avail", ring |-> comp.ring, total |-> comp.total + comp.n]
  /\ UNCHANGED <<sta, todo, rung, xmit, retry, stopped, irq, linking>>

CompAvail ==
  /\ comp # NULL /\ comp.pc = "avail"
  /\ comp' = [pc |-> "wake", ring |-> comp.ring, total |-> comp.total,
              avail |-> Avail(comp.ring)]
  /\ UNCHANGED <<rings, xmit, retry, stopped, irq, linking>>

CompWake ==
  /\ comp # NULL /\ comp.pc = "wake"
  /\ stopped' = (stopped /\ comp.avail <= WakeAbove)
  /\ comp' = [pc |-> "next", ring |-> comp.ring, total |-> comp.total]
  /\ UNCHANGED <<rings, xmit, retry, irq, linking>>

-----------------------------------------------------------------------------
\* The device (external) is done with a descriptor; after the last it was given
\* there is an interrupt, earlier at the end of a packet.
HwTransmit(r) ==
  /\ todo[r] > 0 /\ rung[r]
  /\ todo' = [todo EXCEPT ![r] = @ - 1]
  /\ sent' = [sent EXCEPT ![r] = @ + 1]
  /\ irq' \in {irq, TRUE} /\ (todo'[r] = 0 => irq')
  /\ UNCHANGED <<sta, rung, xmit, retry, stopped, comp, linking>>

-----------------------------------------------------------------------------
(* Stations come and go, as StaRings has it in full.                        *)

\* wil_vring_fini_tx: what the ring holds is freed.
Freed(r) ==
  /\ sta' = [sta EXCEPT ![r] = NULL]
  /\ todo' = [todo EXCEPT ![r] = 0]
  /\ sent' = [sent EXCEPT ![r] = 0]
  /\ rung' = [rung EXCEPT ![r] = TRUE]

MayFree(r) == Churn /\ (Overlap \/ (xmit = NULL /\ comp = NULL))

RingDown(r) ==
  /\ MayFree(r) /\ sta[r] # NULL
  /\ Freed(r)
  /\ UNCHANGED <<xmit, retry, stopped, irq, comp, linking>>

\* wil_connect_worker and wil_vring_init_tx, up to its wmi_call.
RingUp(r, s) ==
  /\ Churn /\ linking = NULL
  /\ sta[r] = NULL /\ \A q \in Ring : sta[q] # s /\ (q < r => sta[q] # NULL)
  /\ sta' = [sta EXCEPT ![r] = s]
  /\ linking' = r
  /\ UNCHANGED <<todo, sent, rung, xmit, retry, stopped, irq, comp>>

\* The firmware has the ring: wil_link_on.
LinkOn ==
  /\ linking # NULL /\ sta[linking] # NULL
  /\ stopped' = FALSE
  /\ linking' = NULL
  /\ UNCHANGED <<rings, xmit, retry, irq, comp>>

\* It refuses, or does not answer, or the ring has been freed meanwhile: out_free.
LinkFail ==
  /\ linking # NULL /\ MayFree(linking)
  /\ Freed(linking)
  /\ linking' = NULL
  /\ UNCHANGED <<xmit, retry, stopped, irq, comp>>

-----------------------------------------------------------------------------
Frame == [to : Dest \cup Stations, need : Needs, got : SUBSET Stations]

Next ==
  \/ \E f \in Frame :
       \/ XmitNotReady(f) \/ XmitBcast(f) \/ XmitUnicast(f)
       \/ XmitNoRing(f) \/ XmitEapol(f)
  \/ XmitNext \/ XmitCheck \/ XmitFill \/ XmitFail
  \/ PollBegin \/ CompRelease \/ CompAvail \/ CompWake \/ CompNext
  \/ \E r \in Ring : HwTransmit(r) \/ RingDown(r) \/ \E s \in Stations : RingUp(r, s)
  \/ LinkOn \/ LinkFail

Spec == Init /\ [][Next]_vars

\* The poll and the transmit path run on, the device transmits from each ring.
FairSpec ==
  /\ Spec
  /\ WF_vars(XmitNext \/ XmitCheck \/ XmitFill \/ XmitFail)
  /\ WF_vars(PollBegin \/ CompRelease \/ CompAvail \/ CompWake \/ CompNext)
  /\ \A r \in Ring : WF_vars(HwTransmit(r))

-----------------------------------------------------------------------------
(* Properties. *)

\* The type of the state.
TypeOK ==
  /\ sta \in [Ring -> Stations \cup {NULL}]
  /\ todo \in [Ring -> 0..(Size - 1)] /\ sent \in [Ring -> 0..(Size - 1)]
  /\ rung \in [Ring -> BOOLEAN]
  /\ xmit = NULL \/ (xmit.skb \in Frame /\ xmit.ring \in Ring /\ xmit.first \in Ring)
  /\ retry \in Frame \cup {NULL}
  /\ comp = NULL \/ comp.ring \in Ring
  /\ linking \in Ring \cup {NULL}
  /\ stopped \in BOOLEAN /\ irq \in BOOLEAN

\* A queue that is stopped, by whatever ring, while some ring has work that the
\* device knows of, is woken when that work is done, unless the ring goes.
StoppedWithWorkWoken ==
  \A r \in Ring : stopped /\ todo[r] > 0 /\ rung[r] ~> ~stopped \/ sta[r] = NULL

\* A station gets a broadcast frame once, although the stack sends the frame
\* again after the copies were made and the original did not fit (txrx.c:1220).
BroadcastOnce ==
  [][\A r \in Ring : todo'[r] > todo[r] => sta[r] \notin xmit.skb.got]_vars

\* A stopped queue whose rings have all work done, or lose it, is woken as well.
StoppedWoken == stopped ~> ~stopped

\* Work on a ring is done once the link is up, or the ring goes.
RingServed == \A r \in Ring : todo[r] > 0 /\ linking # r ~> todo[r] = 0 \/ linking = r

\* A ring that the transmit path or the poll works on is not freed under it.
NoFreedRingUsed ==
  /\ xmit # NULL => sta[xmit.ring] # NULL
  /\ comp # NULL => sta[comp.ring] # NULL
=============================================================================
