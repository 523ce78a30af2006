------------------------------ MODULE TxVring ------------------------------
(***************************************************************************)
(* One Tx vring, txrx.c: wil_start_xmit and the two functions that put a   *)
(* frame in the ring, against wil_tx_complete, which NAPI runs on another  *)
(* processor without a lock in common, and the device (external).          *)
(*                                                                         *)
(* A frame is what wil_tx_vring and wil_tx_vring_tso look at in an skb:    *)
(*   tso     it is a GSO frame;                                            *)
(*   frags   its number of fragments;                                      *)
(*   lin     (tso) there is data besides the headers in its linear part;   *)
(*   chunks  (tso) the descriptors its fragments are split into;           *)
(*   copy    it is a copy that wil_tx_bcast made.                          *)
(* Once in the ring it is named by the slot of its last descriptor.        *)
(* Addresses, lengths and offload bits are left out.                       *)
(*                                                                         *)
(* Without GSO frames and copies the ring implements one ring of TxQueue.  *)
(*                                                                         *)
(* A definition named X_m_... is X with a plausible slip; no specification *)
(* uses it, it stands in for X when a property is tested against it.       *)
(***************************************************************************)
EXTENDS Integers, FiniteSetsExt

CONSTANTS
  Size,       (* vring->size, WIL6210_TX_RING_SIZE                          *)
  StopBelow,  (* vring->size/8: below it the stack is stopped               *)
  WakeAbove,  (* vring->size/4: above it the stack is woken                 *)
  SkbShapes,  (* the frames the stack may send                              *)
  DmaErrors,  (* TRUE: dma_map_single and skb_frag_dma_map may fail         *)
  NULL

ASSUME SizeAssumption == Size \in Nat /\ Size > 1
ASSUME ThresholdAssumption ==
  StopBelow \in Nat /\ WakeAbove \in Nat /\ WakeAbove < Size - 2
ASSUME ShapeAssumption ==
  SkbShapes \subseteq [tso : BOOLEAN, frags : Nat, lin : BOOLEAN,
                       chunks : Nat, copy : BOOLEAN]
ASSUME DmaErrorsAssumption == DmaErrors \in BOOLEAN
ASSUME NullAssumption == NULL \notin Nat

VARIABLES
  swhead, swtail,
  va,      (* per slot: the descriptor and how its buffer is mapped          *)
  ctx,     (* per slot: NULL or an skb, by frame and skbcb->sngl_mapped      *)
  refs,    (* per frame: the references to its skb                           *)
  xmit,    (* NULL or the progress of wil_start_xmit                         *)
  requeued,(* NULL or the frame the stack got back with NETDEV_TX_BUSY       *)
  comp,    (* NULL or the progress of wil_tx_complete                        *)
  stopped, (* the Tx queue is stopped                                        *)
  irq,     (* a Tx interrupt is pending, or NAPI is to poll again            *)
  hwpos    (* external: the descriptor the device transmits next             *)

vars == <<swhead, swtail, va, ctx, refs, xmit, requeued, comp, stopped, irq, hwpos>>

ring == <<swhead, swtail, va, ctx, refs>>

Slot == 0..(Size - 1)

\* A descriptor without a buffer.  What it keeps of its last frame is
\* overwritten before it is read, and left out.
Idle(du) == [du |-> du, eop |-> FALSE, hdr |-> FALSE, map |-> "none"]

Init ==
  /\ swhead = 0 /\ swtail = 0 /\ hwpos = 0
  /\ va = [s \in Slot |-> Idle(TRUE)]
  /\ ctx = [s \in Slot |-> NULL]
  /\ refs = [s \in Slot |-> 0]
  /\ xmit = NULL /\ requeued = NULL /\ comp = NULL
  /\ stopped = FALSE /\ irq = FALSE

-----------------------------------------------------------------------------
(* The ring. *)

Used == (Size + swhead - swtail) % Size

wil_vring_avail_tx_m_all_slots == Size - Used

wil_vring_avail_tx == Size - Used - 1

FromHead_m_no_wrap(k) == swhead + k

\* The k-th slot from the head, and from the tail.
FromHead(k) == (swhead + k) % Size
FromTail(k) == (swtail + k) % Size

\* The slots between tail and head.
Window == {FromTail(k) : k \in 0..(Used - 1)}

-----------------------------------------------------------------------------
(* The shape of a frame in the ring. *)

\* The descriptors that the initial check asks for, and those the frame takes.
Need(f) == IF f.tso THEN f.frags * 3 + 1 ELSE f.frags + 1

Linear(f) == IF f.tso /\ f.lin THEN 2 ELSE 1

Descs(f) == Linear(f) + (IF f.tso THEN f.chunks ELSE f.frags)

\* The descriptors that end a packet, wil_tx_last_desc: the last one; in a GSO
\* frame the header too, and the last of every full mss.
EopSets(f) ==
  IF f.tso THEN {{0, Descs(f) - 1} \cup inner : inner \in SUBSET (1..(Descs(f) - 2))}
  ELSE {{Descs(f) - 1}}

\* wil_tx_desc_map and the rest of the filling of a descriptor.
wil_tx_desc_map_m_keeps_status(f, k, E) ==
  [du |-> va[FromHead(k)].du, eop |-> k \in E, hdr |-> f.tso /\ k = 0,
   map |-> IF k < Linear(f) THEN "single" ELSE "page"]

wil_tx_desc_map(f, k, E) ==
  [du |-> FALSE, eop |-> k \in E, hdr |-> f.tso /\ k = 0,
   map |-> IF k < Linear(f) THEN "single" ELSE "page"]

\* The first n descriptors of f, written from the head on.
Filled(f, n, E) ==
  [s \in Slot |-> LET k == (Size + s - swhead) % Size
                  IN  IF k < n THEN wil_tx_desc_map(f, k, E) ELSE va[s]]

\* The references that the first n descriptors of f hold.
Holding(f, n) ==
  [s \in Slot |-> IF (Size + s - swhead) % Size < n
                  THEN [frame |-> FromHead(Descs(f) - 1), sngl |-> FromHead(Linear(f) - 1)]
                  ELSE ctx[s]]

-----------------------------------------------------------------------------
(* wil_start_xmit.  The stack calls it only while the queue is awake, one   *)
(* call at a time, and with a requeued frame before any other.              *)

\* Up to the reading of swtail.
XmitBegin(f) ==
  /\ xmit = NULL /\ ~stopped
  /\ requeued \in {NULL, f} /\ requeued' = NULL
  /\ xmit' = [pc |-> "check", skb |-> f, avail |-> wil_vring_avail_tx]
  /\ UNCHANGED <<ring, comp, stopped, irq, hwpos>>

\* The two tests of avail; "Tx ring full" ends in NETDEV_TX_BUSY.
XmitCheck ==
  /\ xmit # NULL /\ xmit.pc = "check"
  /\ stopped' = (stopped \/ xmit.avail < StopBelow)
  /\ IF xmit.avail < Need(xmit.skb)
     THEN xmit' = NULL /\ requeued' = IF xmit.skb.copy THEN NULL ELSE xmit.skb
     ELSE xmit' = [xmit EXCEPT !.pc = "fill"] /\ UNCHANGED requeued
  /\ UNCHANGED <<ring, comp, irq, hwpos>>

\* A GSO frame is given up when its fragments meet the end of the ring.
Fits == ~xmit.skb.tso \/ xmit.skb.chunks = 0 \/ Descs(xmit.skb) <= xmit.avail

\* The descriptors are filled and the head is advanced.  The caller drops its
\* own reference, except that wil_tx_bcast does not drop that of a copy.
XmitFill ==
  /\ xmit # NULL /\ xmit.pc = "fill" /\ Fits
  /\ LET f == xmit.skb
         n == Descs(f)
     IN  /\ \E E \in EopSets(f) : va' = Filled(f, n, E)
         /\ ctx' = Holding(f, n)
         /\ refs' = [refs EXCEPT ![FromHead(n - 1)] = n + (IF f.copy THEN 1 ELSE 0)]
         /\ swhead' = FromHead(n)
  /\ xmit' = NULL
  /\ UNCHANGED <<swtail, requeued, comp, stopped, irq, hwpos>>

\* The slots that the error path of wil_tx_vring, or of wil_tx_vring_tso,
\* unmaps after n descriptors.
Undone_m_keeps_first(f, n) ==
  {FromHead(k) : k \in IF f.tso THEN 1..n ELSE 1..(n - 1)}

Undone(f, n) == {FromHead(k) : k \in IF f.tso THEN 1..n ELSE 0..(n - 1)}

\* The descriptors at which frame f may fail.
FailsAt(f) ==
  LET mapped == IF Fits THEN Descs(f) ELSE xmit.avail
  IN  (IF DmaErrors THEN 0..(mapped - 1) ELSE {}) \cup (IF Fits THEN {} ELSE {mapped})

\* Mapping descriptor n failed, or a GSO frame did not fit: dma_error.  The frame
\* is dropped with all its references; the switch of wil_start_xmit falls into
\* drop_err, which stops the queue.
XmitFail ==
  /\ xmit # NULL /\ xmit.pc = "fill"
  /\ LET f == xmit.skb
     IN \E n \in FailsAt(f) :
          /\ va' = [s \in Slot |-> IF n > 0 /\ s \in Undone(f, n) THEN Idle(TRUE)
                                   ELSE Filled(f, n, {})[s]]
          /\ ctx' = Holding(f, n)
  /\ stopped' = (stopped \/ ~xmit.skb.copy)
  /\ xmit' = NULL
  /\ UNCHANGED <<swhead, swtail, refs, requeued, comp, irq, hwpos>>

-----------------------------------------------------------------------------
(* wil_tx_complete, from wil6210_netdev_poll_tx. *)

CompScan_m_first ==
  /\ comp = NULL /\ irq
  /\ irq' = FALSE
  /\ LET done == {k \in 0..(Used - 1) : va[FromTail(k)].du}
     IN  comp' = [pc |-> "release", n |-> IF done = {} THEN 0 ELSE Min(done)]
  /\ UNCHANGED <<ring, xmit, requeued, stopped, hwpos>>

\* The first loop: find the last completed descriptor.
CompScan ==
  /\ comp = NULL /\ irq
  /\ irq' = FALSE
  /\ LET done == {k \in 0..(Used - 1) : va[FromTail(k)].du}
     IN  comp' = [pc |-> "release", n |-> IF done = {} THEN 0 ELSE Max(done)]
  /\ UNCHANGED <<ring, xmit, requeued, stopped, hwpos>>

\* Where the second loop ends: short of that descriptor, or of one that ends a
\* packet and has not completed.
Releasable(n) ==
  CHOOSE m \in 0..n :
    /\ m = n \/ (va[FromTail(m)].eop /\ ~va[FromTail(m)].du)
    /\ \A k \in 0..(m - 1) : ~(va[FromTail(k)].eop /\ ~va[FromTail(k)].du)

CompRelease_m_no_free ==
  /\ comp # NULL /\ comp.pc = "release"
  /\ LET n == Releasable(comp.n)
         gone == {FromTail(k) : k \in 0..(n - 1)}
     IN  /\ va' = [s \in Slot |-> IF s \in gone THEN Idle(FALSE) ELSE va[s]]
         /\ ctx' = [s \in Slot |-> IF s \in gone THEN NULL ELSE ctx[s]]
         /\ swtail' = FromTail(n)
         /\ comp' = [pc |-> "avail", n |-> n]
  /\ UNCHANGED <<swhead, refs, xmit, requeued, stopped, irq, hwpos>>

\* The second loop, and the new tail.
CompRelease ==
  /\ comp # NULL /\ comp.pc = "release"
  /\ LET n == Releasable(comp.n)
         gone == {FromTail(k) : k \in 0..(n - 1)}
     IN  /\ va' = [s \in Slot |-> IF s \in gone THEN Idle(FALSE) ELSE va[s]]
         /\ ctx' = [s \in Slot |-> IF s \in gone THEN NULL ELSE ctx[s]]
         /\ refs' = [i \in Slot |-> refs[i] - Cardinality({s \in gone : ctx[s].frame = i})]
         /\ swtail' = FromTail(n)
         /\ comp' = [pc |-> "avail", n |-> n]
  /\ UNCHANGED <<swhead, xmit, requeued, stopped, irq, hwpos>>

\* wil_vring_avail_tx reads the head.
CompAvail ==
  /\ comp # NULL /\ comp.pc = "avail"
  /\ comp' = [pc |-> "wake", n |-> comp.n, avail |-> wil_vring_avail_tx]
  /\ UNCHANGED <<ring, xmit, requeued, stopped, irq, hwpos>>

CompWake_m_never ==
  /\ comp # NULL /\ comp.pc = "wake"
  /\ comp' = [pc |-> "next", n |-> comp.n]
  /\ UNCHANGED <<ring, xmit, requeued, stopped, irq, hwpos>>

\* The queue is woken.
CompWake ==
  /\ comp # NULL /\ comp.pc = "wake"
  /\ stopped' = (stopped /\ comp.avail <= WakeAbove)
  /\ comp' = [pc |-> "next", n |-> comp.n]
  /\ UNCHANGED <<ring, xmit, requeued, irq, hwpos>>

\* NAPI polls again after more than one descriptor.
CompEnd ==
  /\ comp # NULL /\ comp.pc = "next"
  /\ irq' = (irq \/ comp.n > 1)
  /\ comp' = NULL
  /\ UNCHANGED <<ring, xmit, requeued, stopped, hwpos>>

-----------------------------------------------------------------------------
\* The device (external) is done with a descriptor.  It reports the last one of
\* a packet, with an interrupt, perhaps the others, never the header of a GSO
\* frame: "TSO header desc makes no DMA complete" (txrx.c:945).
HwTransmit ==
  /\ hwpos # swhead
  /\ hwpos' = (hwpos + 1) % Size
  /\ LET d == va[hwpos]
     IN  /\ \E du \in IF d.hdr THEN {FALSE} ELSE IF d.eop THEN {TRUE} ELSE BOOLEAN :
              va' = [va EXCEPT ![hwpos].du = du]
         /\ irq' = (irq \/ (d.eop /\ ~d.hdr))
  /\ UNCHANGED <<swhead, swtail, ctx, refs, xmit, requeued, comp, stopped>>

Next ==
  \/ \E f \in SkbShapes : XmitBegin(f)
  \/ XmitCheck \/ XmitFill \/ XmitFail
  \/ CompScan \/ CompRelease \/ CompAvail \/ CompWake \/ CompEnd
  \/ HwTransmit

Spec == Init /\ [][Next]_vars

FairSpec ==
  /\ Spec
  /\ WF_vars(XmitCheck \/ XmitFill \/ XmitFail)
  /\ WF_vars(CompScan \/ CompRelease \/ CompAvail \/ CompWake \/ CompEnd)
  /\ WF_vars(HwTransmit)

-----------------------------------------------------------------------------
(* Properties. *)

Desc == [du : BOOLEAN, eop : BOOLEAN, hdr : BOOLEAN, map : {"none", "single", "page"}]

\* The type of the state.
TypeOK ==
  /\ swhead \in Slot /\ swtail \in Slot /\ hwpos \in Slot
  /\ va \in [Slot -> Desc]
  /\ ctx \in [Slot -> [frame : Slot, sngl : Slot] \cup {NULL}]
  /\ refs \in [Slot -> Nat]
  /\ xmit \in {NULL} \cup [pc : {"check", "fill"}, skb : SkbShapes, avail : Slot]
  /\ requeued \in {NULL} \cup SkbShapes
  /\ comp \in {NULL} \cup [pc : {"release", "avail", "next"}, n : Slot]
                     \cup [pc : {"wake"}, n : Slot, avail : Slot]
  /\ stopped \in BOOLEAN /\ irq \in BOOLEAN

\* What the device still has to read lies between tail and head: nothing is
\* unmapped, freed or overwritten under it.
HwInWindow == (Size + hwpos - swtail) % Size <= Used

\* The references to an skb are the slots of the window that hold it: it is
\* freed once, when its last descriptor is released ("Keep reference to skb till
\* the fragments and skb_data are done", txrx.c:1109).
RefsBalanced ==
  \A i \in Slot : refs[i] = Cardinality({s \in Window : ctx[s].frame = i})

\* A buffer is mapped for DMA exactly while its descriptor is in the window.
MappedInWindow == \A s \in Slot : va[s].map # "none" <=> s \in Window

\* How wil_tx_complete and wil_vring_free would unmap the buffer of a slot, and
\* how it was mapped: "Last desc. index, single_mapped skb data" (txrx.c:31).
UnmapKind(s) == IF s <= ctx[s].sngl THEN "single" ELSE "page"

UnmapKindMatches == \A s \in Window : va[s].map = UnmapKind(s)

\* A stopped queue with frames under way is woken.
StoppedWithWorkWoken == stopped /\ hwpos # swhead ~> ~stopped

\* A stopped queue is woken.  A frame that is dropped should not stop it at all:
\* "break; /* goto drop; */" (txrx.c:1222).
StoppedWoken == stopped ~> ~stopped

\* The device is done with slot s of the window.
Transmitted(s) ==
  s \in Window /\ (Size + s - swtail) % Size < (Size + hwpos - swtail) % Size

\* A descriptor that is done, and that a later one which ended a packet
\* followed, is released.
EarlierReleased ==
  \A s \in Slot :
    (\E t \in Slot : /\ Transmitted(s) /\ Transmitted(t) /\ va[t].eop
                     /\ (Size + s - swtail) % Size < (Size + t - swtail) % Size)
      ~> ~Transmitted(s)

\* "Clean up transmitted skb's from the Tx VRING" (txrx.c:1238): a transmitted
\* descriptor is released.
TransmittedReleased == \A s \in Slot : Transmitted(s) ~> ~Transmitted(s)

-----------------------------------------------------------------------------
(* Refinement: one ring of TxQueue, whose station is always there.          *)

Peer == "peer"

Pc == {"check", "fill", "release", "avail", "wake", "next"}

\* NULL is none of the values that it stands beside, here and in TxQueue.
ASSUME NullApart ==
  LET Bar == [to : {Peer}, need : Nat, got : {{}}]
  IN  /\ NULL # Peer /\ NULL \notin SkbShapes /\ NULL \notin Bar
      /\ NULL \notin [pc : Pc, skb : SkbShapes, avail : Nat]
      /\ NULL \notin [pc : Pc, n : Nat] /\ NULL \notin [pc : Pc, n : Nat, avail : Nat]
      /\ NULL \notin [pc : Pc, skb : Bar, ring : {0}, first : {0}, avail : Nat]
      /\ NULL \notin [pc : Pc, ring : {0}, n : Nat, total : Nat]
      /\ NULL \notin [pc : Pc, ring : {0}, total : Nat]
      /\ NULL \notin [pc : Pc, ring : {0}, total : Nat, avail : Nat]

Distance(from, to) == (Size + to - from) % Size

SkbBar(f) == [to |-> Peer, need |-> Need(f), got |-> {}]

XmitBar ==
  IF xmit = NULL THEN NULL
  ELSE [pc |-> xmit.pc, skb |-> SkbBar(xmit.skb), ring |-> 0, first |-> 0,
        avail |-> xmit.avail]

RetryBar == IF requeued = NULL THEN NULL ELSE SkbBar(requeued)

\* A poll, at the only ring.
CompBar ==
  CASE comp = NULL -> NULL
    [] comp # NULL /\ comp.pc = "release" ->
         [pc |-> "release", ring |-> 0, n |-> comp.n, total |-> 0]
    [] comp # NULL /\ comp.pc \in {"avail", "next"} ->
         [pc |-> comp.pc, ring |-> 0, total |-> comp.n]
    [] OTHER ->
         [pc |-> "wake", ring |-> 0, total |-> comp.n, avail |-> comp.avail]

OnRing(x) == [r \in {0} |-> x]

Q == INSTANCE TxQueue WITH
  MaxRings <- 1, Stations <- {Peer}, Dest <- {Peer}, Churn <- FALSE, Overlap <- FALSE,
  ALL <- "all", EAPOL <- "eapol", Needs <- {Need(f) : f \in SkbShapes},
  sta <- OnRing(Peer), todo <- OnRing(Distance(hwpos, swhead)),
  sent <- OnRing(Distance(swtail, hwpos)), rung <- OnRing(TRUE),
  xmit <- XmitBar, retry <- RetryBar, comp <- CompBar, linking <- NULL

\* What TxQueue says of a ring by its counts is what the descriptors, their
\* status bits and the two loops of wil_tx_complete amount to.
ImplementsQueue == Q!Spec
=============================================================================
