------------------------------ MODULE RxVring ------------------------------
(***************************************************************************)
(* The Rx vring, txrx.c: wil_rx_refill posts buffers at the tail, the      *)
(* device (external) fills them in order, the Rx poll reaps them at the    *)
(* head.  Tail and hwtail of a Tx ring have the opposite roles.            *)
(*                                                                         *)
(* A frame is its number, in the order of reception, and a kind: "data" or *)
(* "other", which wil_vring_reap_rx throws away: frames that are not data  *)
(* frames and frames that are too short.  The interrupt is its latch; the  *)
(* masks are in Interrupts.  Buffer contents and statistics are left out.  *)
(*                                                                         *)
(* A definition named X_m_... is X with a plausible slip; no specification *)
(* uses it, it stands in for X when a property is tested against it.       *)
(***************************************************************************)
EXTENDS Naturals

CONSTANTS
  Size,        (* WIL6210_RX_RING_SIZE                                      *)
  Budget,      (* of a poll                                                 *)
  FrameKinds,  (* what the device receives                                  *)
  AllocFails,  (* TRUE: dev_alloc_skb and dma_map_single may fail           *)
  Restart,     (* TRUE: start_ap may call wil_rx_init with a ring in place  *)
  MaxFrames, MaxInits,   (* bounds of the runs                              *)
  NULL

ASSUME SizeAssumption == Size \in Nat /\ Size > 1
ASSUME BudgetAssumption == Budget \in Nat /\ Budget > 1
ASSUME KindAssumption == FrameKinds \subseteq {"data", "other"}
ASSUME FlagAssumption == AllocFails \in BOOLEAN /\ Restart \in BOOLEAN
ASSUME BoundAssumption == MaxFrames \in Nat /\ MaxInits \in Nat

\* The progress of a poll.
Polling == [at : {"reap", "refill", "end"}, done : 0..Budget]
ASSUME NullAssumption == NULL \notin {"init", "on", "free"} /\ NULL \notin Polling

Slot == 0..(Size - 1)

\* A descriptor: the status bit DU (set: not the device's), and the frame in it.
NoFrame == [n |-> 0, kind |-> "data"]
Desc == [du : BOOLEAN, frame : {NoFrame} \cup [n : 1..MaxFrames, kind : FrameKinds]]

VARIABLES
  up,       (* NULL: no ring; "init": wil_rx_init is at work; "on"          *)
  swhead, swtail,
  hwtail,   (* the register                                                 *)
  va,       (* the descriptors                                              *)
  ctx,      (* per slot: there is an skb                                    *)
  mapped,   (* per slot: the buffer its descriptor names is mapped for DMA  *)
  poll,     (* NULL or the progress of wil6210_netdev_poll_rx               *)
  irq,      (* the Rx interrupt is latched                                  *)
  hwpos,    (* external: the descriptor the device fills next               *)
  received, reaped,   (* history: frames received and frames reaped         *)
  inits     (* counter for the bound                                        *)

vars == <<up, swhead, swtail, hwtail, va, ctx, mapped, poll, irq, hwpos,
          received, reaped, inits>>

hist == <<received, reaped, inits>>

NextSlot_m_no_wrap(s) == s + 1

NextSlot(s) == (s + 1) % Size

\* The slots from i up to, not including, j.
Between(i, j) == {s \in Slot : (Size + s - i) % Size < (Size + j - i) % Size}

Init ==
  /\ up = NULL /\ swhead = 0 /\ swtail = 0 /\ hwtail = 0
  /\ va = [s \in Slot |-> [du |-> TRUE, frame |-> NoFrame]]
  /\ ctx = [s \in Slot |-> FALSE] /\ mapped = [s \in Slot |-> FALSE]
  /\ poll = NULL /\ irq = FALSE /\ hwpos = 0
  /\ received = 0 /\ reaped = 0 /\ inits = 0

-----------------------------------------------------------------------------
(* Buffers. *)

Full_m_no_gap == FALSE

\* The ring always keeps one slot free: a full one would look empty.
Full == NextSlot(swtail) = swhead

\* wil_vring_alloc_skb in the loop of wil_rx_refill.
PostBuffer ==
  /\ va' = [va EXCEPT ![swtail] = [du |-> FALSE, frame |-> NoFrame]]
  /\ ctx' = [ctx EXCEPT ![swtail] = TRUE]
  /\ mapped' = [mapped EXCEPT ![swtail] = TRUE]
  /\ swtail' = NextSlot(swtail)

Published_m_as_if_full == (Size + swhead - 1) % Size

\* What the end of wil_rx_refill tells the device.
Published == swtail

-----------------------------------------------------------------------------
(* wil_rx_init and wil_rx_fini. *)

\* wil_vring_alloc and wmi_rx_chain_add, which tells the device of the ring; one
\* that fails leaves no trace.  A ring in place is forgotten; the device, which
\* start_ap has reset, no longer uses it.
RxInit ==
  /\ up = NULL \/ (Restart /\ up = "on")
  /\ inits < MaxInits
  /\ inits' = inits + 1
  /\ up' = "init"
  /\ swhead' = 0 /\ swtail' = 0 /\ hwtail' = 0 /\ hwpos' = 0
  /\ va' = [s \in Slot |-> [du |-> TRUE, frame |-> NoFrame]]
  /\ ctx' = [s \in Slot |-> FALSE] /\ mapped' = [s \in Slot |-> FALSE]
  /\ received' = reaped /\ irq' = FALSE
  /\ UNCHANGED <<poll, reaped>>

\* The first refill: one buffer more, or all are posted, or one cannot be had and
\* wil_rx_init fails.
InitFill ==
  /\ up = "init" /\ ~Full
  /\ PostBuffer
  /\ UNCHANGED <<up, swhead, hwtail, poll, irq, hwpos, hist>>

InitDone ==
  /\ up = "init" /\ Full
  /\ hwtail' = Published
  /\ up' = "on"
  /\ UNCHANGED <<swhead, swtail, va, ctx, mapped, poll, irq, hwpos, hist>>

InitFail ==
  /\ up = "init" /\ ~Full /\ AllocFails
  /\ hwtail' = Published
  /\ up' = "free"
  /\ UNCHANGED <<swhead, swtail, va, ctx, mapped, poll, irq, hwpos, hist>>

\* wil_rx_fini, with NAPI disabled.
RxFini ==
  /\ up = "on" /\ poll = NULL
  /\ up' = "free"
  /\ UNCHANGED <<swhead, swtail, hwtail, va, ctx, mapped, poll, irq, hwpos, hist>>

\* One iteration of the Rx loop of wil_vring_free: it frees the skb at the head
\* and unmaps what the descriptor at the tail names.
FreeOne ==
  /\ up = "free" /\ swhead # swtail
  /\ ctx' = [ctx EXCEPT ![swhead] = FALSE]
  /\ mapped' = [mapped EXCEPT ![swtail] = FALSE]
  /\ swhead' = NextSlot(swhead)
  /\ UNCHANGED <<up, swtail, hwtail, va, poll, irq, hwpos, hist>>

\* The rest of it.  What is still mapped stays mapped, and is forgotten here.
FreeEnd ==
  /\ up = "free" /\ swhead = swtail
  /\ up' = NULL
  /\ mapped' = [s \in Slot |-> FALSE]
  /\ received' = reaped /\ irq' = FALSE
  /\ UNCHANGED <<swhead, swtail, hwtail, va, ctx, poll, hwpos, reaped, inits>>

-----------------------------------------------------------------------------
(* wil6210_netdev_poll_rx with wil_rx_handle.                               *)

PollBegin ==
  /\ up = "on" /\ irq /\ poll = NULL
  /\ irq' = FALSE
  /\ poll' = [at |-> "reap", done |-> 0]
  /\ UNCHANGED <<up, swhead, swtail, hwtail, va, ctx, mapped, hwpos, hist>>

Completed_m_not_looked_at == swhead # swtail

\* Not "end of Rx done area".
Completed == swhead # swtail /\ va[swhead].du

\* wil_vring_reap_rx and the loop of wil_rx_handle, which a frame that is thrown
\* away ends like an empty ring.
Reap ==
  /\ poll # NULL /\ poll.at = "reap"
  /\ poll.done < Budget /\ Completed
  /\ ctx' = [ctx EXCEPT ![swhead] = FALSE]
  /\ mapped' = [mapped EXCEPT ![swhead] = FALSE]
  /\ swhead' = NextSlot(swhead)
  /\ reaped' = reaped + 1
  /\ poll' = IF va[swhead].frame.kind = "data" THEN [poll EXCEPT !.done = @ + 1]
                                               ELSE [poll EXCEPT !.at = "refill"]
  /\ UNCHANGED <<up, swtail, hwtail, va, irq, hwpos, received, inits>>

ReapEnd ==
  /\ poll # NULL /\ poll.at = "reap"
  /\ poll.done = Budget \/ ~Completed
  /\ poll' = [poll EXCEPT !.at = "refill"]
  /\ UNCHANGED <<up, swhead, swtail, hwtail, va, ctx, mapped, irq, hwpos, hist>>

\* wil_rx_refill
Refill ==
  /\ poll # NULL /\ poll.at = "refill" /\ ~Full
  /\ PostBuffer
  /\ UNCHANGED <<up, swhead, hwtail, poll, irq, hwpos, hist>>

RefillEnd ==
  /\ poll # NULL /\ poll.at = "refill"
  /\ Full \/ AllocFails
  /\ hwtail' = Published
  /\ poll' = [poll EXCEPT !.at = "end"]
  /\ UNCHANGED <<up, swhead, swtail, va, ctx, mapped, irq, hwpos, hist>>

BurstEnds_m_budget_not_used_up == poll.done < Budget + 1

\* "burst ends - only one packet processed"
BurstEnds == poll.done <= 1

\* The poll completes, or NAPI calls it again.
PollEnd ==
  /\ poll # NULL /\ poll.at = "end"
  /\ poll' = IF BurstEnds THEN NULL ELSE [at |-> "reap", done |-> 0]
  /\ UNCHANGED <<up, swhead, swtail, hwtail, va, ctx, mapped, irq, hwpos, hist>>

-----------------------------------------------------------------------------
(* The device: it stops at hwtail, and is done with the ring when it is freed. *)
HwReceive ==
  /\ up = "on" /\ hwpos # hwtail /\ received < MaxFrames
  /\ received' = received + 1
  /\ \E k \in FrameKinds :
       va' = [va EXCEPT ![hwpos] = [du |-> TRUE, frame |-> [n |-> received + 1, kind |-> k]]]
  /\ hwpos' = NextSlot(hwpos)
  /\ irq' = TRUE
  /\ UNCHANGED <<up, swhead, swtail, hwtail, ctx, mapped, poll, reaped, inits>>

-----------------------------------------------------------------------------
PollStep == PollBegin \/ Reap \/ ReapEnd \/ Refill \/ RefillEnd \/ PollEnd

RingStep == InitFill \/ InitDone \/ InitFail \/ FreeOne \/ FreeEnd

Next == RxInit \/ RxFini \/ RingStep \/ PollStep \/ HwReceive

Spec == Init /\ [][Next]_vars

\* Interrupts are served and NAPI goes on polling.  Nothing is asked of the
\* device or the memory.
FairSpec == Spec /\ WF_vars(PollStep)

-----------------------------------------------------------------------------
(* The types of the variables. *)
TypeOK ==
  /\ up \in {NULL, "init", "on", "free"}
  /\ swhead \in Slot /\ swtail \in Slot /\ hwtail \in Slot /\ hwpos \in Slot
  /\ va \in [Slot -> Desc]
  /\ ctx \in [Slot -> BOOLEAN] /\ mapped \in [Slot -> BOOLEAN]
  /\ poll \in Polling \cup {NULL}
  /\ irq \in BOOLEAN
  /\ received \in 0..MaxFrames /\ reaped \in 0..MaxFrames /\ inits \in 0..MaxInits

(* There is an skb in every slot between head and tail and in no other, and its
   buffer is mapped: none is lost, reaped twice or overwritten.             *)
BuffersInWindow ==
  /\ \A s \in Slot : ctx[s] <=> s \in Between(swhead, swtail)
  /\ up \in {"init", "on"} => mapped = ctx

(* What the device may write to is its own: the slots from its position up to the
   register hold buffers that are not completed, wherever head and tail are. *)
HwOwnsItsSlots ==
  up = "on" => \A s \in Between(hwpos, hwtail) : ctx[s] /\ mapped[s] /\ ~va[s].du

(* Frames are reaped in the order in which the device received them, each once. *)
ReapedInOrder ==
  [][Reap => va[swhead].frame.n = reaped + 1]_vars

(* Nothing runs that would reap, and the last pass of wil_rx_handle ended at a frame
   that it threw away: its descriptor is still in the slot before the head. *)
CutShort ==
  poll = NULL /\ ~irq /\ va[(Size + swhead - 1) % Size].frame.kind = "other"

(* Each interrupt with a completed frame gets at least one reaped, and all of them
   unless the last one reaped was thrown away (txrx.c:391-408), which ends the loop
   like an empty ring; then the rest waits for the interrupt of a later frame. *)
CompletedReaped ==
  \A n \in 1..MaxFrames :
    /\ received >= n ~> reaped >= n \/ CutShort \/ up # "on"
    /\ (irq /\ received >= n /\ reaped = n - 1) ~> reaped >= n \/ up # "on"

(* A frame that the device has completed is reaped while the ring is up:
   "Proceed all completed skb's from Rx VRING" (txrx.c:490).                *)
AllReaped ==
  \A n \in 1..MaxFrames : received >= n ~> reaped >= n \/ up # "on"

(* The device does not stay without buffers: refill failed, but it is done again
   in the next poll.                                                        *)
DeviceFed == []<>(up # "on" \/ received = MaxFrames \/ hwpos # hwtail)

(* No buffer stays mapped when the ring is freed: the loop of wil_vring_free
   unmaps each (txrx.c:148).                                                *)
FreedUnmapped == [][FreeEnd => \A s \in Slot : ~mapped[s]]_vars

(* A ring that is set up does not replace one that holds buffers: "Rx VRING"
   (cfg80211.c:724).                                                        *)
InitLeaksNothing == [][RxInit => \A s \in Slot : ~ctx[s]]_vars
=============================================================================
