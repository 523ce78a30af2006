# The wil6210 driver in TLA+

This directory specifies and checks wil6210, the Linux driver of an 802.11ad
(60 GHz) PCIe card, whose code is in
`src/Wigig_release_2.0.2/work/wil6210/`. Paths below are relative to that
directory. `PROJECT.json` lists the runs, the mutants of the code that each
property rules out, the source lines every definition stands for, the hazards,
and the theorems.

## 1. The system

The driver sits between cfg80211 and the network stack above and a device with
its own firmware below. It talks to the firmware through a mailbox of two rings
(WMI commands and events), and to the device's DMA engines through one Rx and
up to 24 Tx rings of descriptors. Its code runs in many contexts: system calls
under RTNL, the transmit path in softirq, two NAPI polls, hard interrupt
handlers, an interrupt thread, four work queues and a timer. Few locks protect
what they share: `mutex` (interface and remain-on-channel), `wmi_mutex` (one
`wmi_call` at a time), `wmi_ev_lock` (the event list) and a spin lock per
reorder buffer.

| Component | Source | State | Operations | Correct when |
|---|---|---|---|---|
| Rx reorder buffer | `rx_reorder.c`, Block Ack events of `wmi.c` | per (station, TID): slots, head, count | a frame arrives, ADDBA request, BA status, session ends | frames are released in order, once, none lost, none taken for a repetition |
| Stations and their Tx rings | `main.c`, connect/disconnect of `wmi.c`, ring set-up and lookup of `txrx.c` | `sta[]`, `vring_tx[]`, `vring2cid_tid[]`, `pending_connect_cid` | connect and disconnect events, connect worker, del_station, `wil_reset` | a connected station can be sent to; no half-connected station stays |
| Tx vring | `txrx.c`, `netdev.c` | `swhead`, `swtail`, descriptors, `ctx[]`, queue stopped or not | `wil_start_xmit`, `wil_tx_complete` | nothing is freed under the device, each reference and mapping is given back once, the queue is woken |
| Rx vring | `txrx.c`, `netdev.c` | `swhead`, `swtail`, descriptors, `ctx[]` | set-up, refill, reap, poll, free | no buffer is lost or reaped twice; what the device completes is reaped, in order |
| WMI transport | `wmi.c`, `wil_reset` in `main.c` | mailbox rings, `pending_wmi_ev`, `reply_id`, `reply_buf`, `wmi_ready` | `wmi_send`, `wmi_call`, `wmi_recv_cmd`, event worker, reset | a call gets its own reply, and returns; no event stays behind |
| Interrupts and NAPI | `interrupt.c`, `netdev.c` | masks and causes per vector, pseudo cause mask, `isr_misc`, NAPI states | hard handlers (one MSI or three), thread, polls, enable, disable | a vector is served by one at a time, is unmasked again, and no interrupt is lost |
| Client interface | `cfg80211.c`, `offchannel.c`, timer and workers of `main.c` | `scan_request`, `dontscan`, `roc`, `connect_timer`, `sme_state` | scan, P2P search, remain on channel, connect, disconnect, up, down | each request has one answer; nothing stays forbidden |
| PCIe and netdev lifecycle | `pcie_bus.c`, `netdev.c`, `wil_priv_init` | what is allocated and registered | probe with roll-back, remove | nothing is used after its release, nothing leaks |
| AP operations, keys, station info | rest of `cfg80211.c` | none of their own | start_ap, stop_ap, keys | translate a call to commands |
| debugfs, tracing, debug output | `debugfs.c`, `trace*.c`, `debug.c` | none | show state, poke registers | - |

How they interact: a hard interrupt masks its vector and schedules a NAPI poll
(Interrupts) that runs `wil_rx_handle` or `wil_tx_complete` (RxVring, TxVring);
what is reaped goes through `wil_rx_reorder` (RxReorder) to the stack. A mailbox
interrupt wakes the thread, which moves events to a list for the event worker
(WmiCall); the worker completes calls and runs the handlers of connect,
disconnect and Block Ack (StaRings, RxReorder) and SCAN_COMPLETE (ClientIface).
Everything that asks the firmware for something goes through `wmi_send` or
`wmi_call`. `wil_reset` stops and restarts all of it.

What is hard: nearly all shared state is changed by two contexts without a
lock; replies and events of one firmware come late or not at all; handlers call
back into the transport that runs them; ring indices and sequence numbers wrap;
timers race with the answers they guard; a failing step in the middle of an
operation must undo the ones before. Section `hazards` of `PROJECT.json` lists
these at their lines.

## 2. Modules

| Module | Models | Remarks |
|---|---|---|
| `RxReorder` | the reorder buffer of one (station, TID), its sessions | `wil_rx_reorder` step by step, as pure operators on the record `tid_rx`; slots are addressed modulo the window |
| `SortedSets` | finite sets of integers as ascending sequences | pure operators, used by the two modules around it |
| `InOrderDelivery` | what a session promises: frames with unbounded numbers, delivered in order | abstract; no slots, no modulus |
| `BaSession` | one session from the peer's window to the stack | composes `RxReorder` with a peer and the Rx ring; refines `InOrderDelivery` |
| `RxSessions` | how the sessions of one (station, TID) begin and end | around `RxReorder`: the ADDBA queue and its worker, Block Ack events, disconnection, `wil_reset` stage by stage |
| `StaRings` | stations and rings of an AP-like interface | event worker, user thread and connect worker; a step ends where its thread may sleep |
| `TxVring` | one Tx ring | the transmit path and the completion run on two processors; the device reads in between; refines `TxQueue` |
| `TxQueue` | all Tx rings behind the one queue | a ring is two counts; `wil_start_xmit`, lookup, broadcast, EAPOL, the Tx poll over all rings, rings that come and go |
| `Tso` | how `wil_tx_vring_tso` cuts a GSO frame | one frame at a time, descriptor by descriptor, against a reference definition |
| `RxVring` | the Rx ring and its poll | the device writes between any two steps |
| `WmiCall` | the WMI transport | callers, event worker, interrupt thread, reset, firmware |
| `Interrupts` | vectors, masks, handlers, NAPI | hardware asserts a line while an unmasked cause is latched |
| `ClientIface` | scan, ROC, connect on a client interface | user thread, ROC worker, event worker, disconnect worker, timer, cfg80211's deferred results |
| `ProbeRemove` | probe, roll-back, remove, the interface opened and closed | what is taken and given back, against handlers, workers, timer and user; the work they do is reduced to the work they queue |
| `*_proofs` | theorems about the module of that name | section 5; `BlockAck_proofs` has those of the modules of Block Ack, `TxVring_proofs` those of `Tso` too, `Interrupts_proofs` those of `ProbeRemove` |

Each `MC*.tla` defines values for TLC, each `MC*.cfg` an instance. Names of
variables and operators are the code's where there is one (`swhead`,
`wil_find_tx_vring`, `tid_rx.stored_mpdu_num`, ...). A thread's position inside
a function is a field or variable (`at`, `pc`, `worker`, `disc`, `poll`): each
place where another context can intervene is a step of its own.

A definition `X_m_...` is `X` as a plausible mistake would have left it. No
specification uses it; `PROJECT.json` pairs it with the property that fails
when it takes the place of `X`.

How state corresponds to code, where it is not plain from the names:

- `RxReorder`: a frame is a natural number and its sequence number that number
  modulo `SeqModulo`, so that a repetition, an old frame and a frame of the next
  round are distinct. `out` holds what the last call gave to the stack.
- `RxSessions`: `gen` numbers the firmwares, one for each reset; a request carries
  the number of the one that brought it, and `late` if the interrupt thread put it in
  the list after `wil_reset` had emptied that. `adding` is the moment between
  `list_add_tail` and `queue_work`, `stage` how far `wil_reset` is, `dangling` the
  moment in which `tid_rx` points to a freed session. `rx` is the Rx poll between its
  reading of the pointer and the lock: the session it read is in place (`live`) or no
  longer (`stale`). `ba` is the event worker between freeing a session and assigning the
  next, as `back` at `alloc` is `back_worker`; `maker` is history: whose session is in place.
- `TxQueue`: `todo` and `sent` count the descriptors that wait for the device and
  those it has done; `rung` says that the device was told; a frame's `got` is history:
  the stations that a copy of it was put in a ring for. `retry` is the frame that the
  stack sends again after `NETDEV_TX_BUSY`. In `TxVring` the same counts are
  distances between indices: that is the refinement mapping.
- `Tso`: a descriptor records which octets of which buffer it covers, its type, and
  the count of the packet it begins; `rem_data` and `len` are the code's.
- `StaRings`: `va` stands for the allocated descriptor memory, `hwtail` for the
  address that the firmware returns for the ring; `disc[p]` is the progress of
  thread `p` in `_wil6210_disconnect`, whose `wmi_send` may sleep; `fw` is the
  firmware's view. `mixed` is history: the stations announced while the connection of
  another was not settled, and that other.
- `TxVring`: `va[s].map` records how a buffer was mapped; `refs[i]` counts the
  references to the skb whose last descriptor is in slot `i`, the one released last.
- `WmiCall`: commands carry a serial number that neither code nor firmware sees;
  it tells a reply from an older reply to the same command. `starved` is history: the
  thread had no memory for an event and left the mailbox, and was not woken since.
- `Interrupts`: `work` counts what there is to do per vector; the bodies of the
  polls are those of `TxVring` and `RxVring`. `ending` counts the polls that have called
  `napi_complete` and not unmasked yet; a second poll may start then. `caught` and `stray`
  are history: the vectors that were being served when a reset enabled interrupts, and
  those whose last handler with something to do ran in such a service, with NAPI
  disabled or without the DONE cause.
- `ClientIface`: `asking` is the scan that cfg80211 waits for, `told` what it was
  told of each ROC, `notes` the results of connections that it has not yet
  looked at (it does so in a work item that needs RTNL). `stray` are the scans answered
  when cfg80211 did not wait for them. `excused`, `kept` and `mute` are history, for what
  properties except: scans that could not be started or that `__wil_down` and the event
  worker answered at the same time; a `dontscan` whose command failed or whose timer an old
  event stopped; an attempt to connect that was accepted without a command.
- `ProbeRemove`: `held` is what the driver holds since it was bound last, `todo` what
  roll-back or removal has yet to do, `Left` what they are known to leave behind.
  A phase `dead` is a thread that died in a NULL dereference.

## 3. What the runs show

Passing runs:

| Run | Question | Properties |
|---|---|---|
| `MCRxSessions` | any frames, ADDBA requests and their worker, Block Ack events, disconnection, a reset; sessions are freed and replaced by two workers, without a lock, under a poll that has read the pointer | `BufferConsistent`: the count that selects the fast path is right, a stored frame is in its slot and in range, nothing deliverable is kept; `InOrder`; `LostOnlyOverwritten`: a held frame is released or still held, unless a worker overwrites the session that the other has just assigned; `NoFalseDrop`; `NoStaleRequest`: no firmware is sent the answer to a request of the one before it; `RequestsTaken`: work queued once for several requests takes them all |
| `MCBaSession` | a session is an in-order window | `DeliversInOrder`: refinement of `InOrderDelivery` across the wrap of the sequence number |
| `MCStaRings` | two stations, two rings, two peers; events, worker, del_station and reset | `TypeOK`; `LookupFindsRing`: the lookup that inspects only one ring finds one whenever a connected station has one; `PendingAwaited`: a half-connected station has the connect worker, or will have it, unless it was announced while another was not settled |
| `MCTxVring` | transmission against completion, mapping errors | `HwInWindow`, `RefsBalanced`, `MappedInWindow`; `EarlierReleased`; `ImplementsQueue`: the ring, with its indices, is a ring of `TxQueue`, with its counts |
| `MCTxQueue` | two rings behind one queue; unicast, broadcast, EAPOL; stations come and go | `StoppedWithWorkWoken`: no lost wake-up, whichever ring stopped the queue; `BroadcastOnce`: no station gets a broadcast frame twice, though the stack sends it again |
| `MCTso` | GSO frames of all small sizes and splits | `CutExactly`: the payload once, in order; `PacketsOfMss`: packets end at multiples of the segment size; `CountsTrue`: the counts that the device goes by |
| `MCWmiCall` | calls, commands from handlers, reset, slow, silent or failing firmware, no memory for an event | `TypeOK`: also that no command overruns the tail of the ring; `ReplySlotOwned`, `OwnReply`, `CallsReturn`, `EventsHandled`: nothing stays in the list, and in the mailbox only what there was no memory for |
| `MCInterrupts` | one handler or three; a reset at any moment, with handlers, polls and thread running; traffic before NAPI is enabled; causes that start no poll | `MaskedWhileServed`: but for what the reset caught; `MaskHasOwner`, `WorkHandled`: but for three cases, each named in the property, in which the code leaves a vector masked |
| `MCRxVring` | allocation failures, frames that are thrown away, ring set up and freed | `BuffersInWindow`, `HwOwnsItsSlots`, `ReapedInOrder`, `CompletedReaped`: what the device completes is reaped, unless a frame that is thrown away ended the loop in front of it |
| `MCClientIface` | all client operations against timer, workers, events, and the interface going down, any command of which may fail | `OneAnswer`, `ScanPossibleAgain`, `ReadyThenExpired`, `AllAnswered`; the first two and the connection part of the last say in which cases the code breaks them |
| `MCProbeRemove` | probe refused at any point, with 3, 1 or no MSI; removal at any time; several lives | `GivesAllBack`: all but the MSIs, `back_wq` and the registers, each at one known place; `ReleasesHeld` nothing is given back twice or without having been taken; `WorkBacked`, `TimerGone`: what may still run has its memory and queue |

The run that finds the code at odds with what it says (section 6 has more):

| Run | What happens |
|---|---|
| `MCTxVringGsoStall` | `EarlierReleased`: the header descriptor of a GSO frame is an end of packet without DMA of its own. `wil_tx_complete` waits for its completion (txrx.c:1301), which never comes; everything behind it stays. The test that should skip it (`nodma_desc`) comes after the `break` and sets a flag that the next iteration clears. |

Further instances, not among the runs of `PROJECT.json`, pass as well:
`MCRxReorder.cfg` (the buffer alone, `SeqModulo` 16, windows 2 and 4),
`MCTxVringLive.cfg` (one ring, `StoppedWithWorkWoken` of its own),
`MCTxVringBig.cfg` (a ring of 8, safety) and
`MCWmiCallTwo.cfg` (two callers, all kinds of commands, safety).
Every module states its type invariant; where a run does not list it, the
same configuration checks it, or one of these does.

### Bounds

- Sequence numbers: 6, 8 or 16 instead of 4096, windows 2 and 4 instead of 16. The code
  depends on the window dividing the modulus, on a window well below half the
  modulus, and on the wrap; all are kept. `MaxFrame` of `MCBaSession` takes the
  peer past the wrap. `MCRxSessions`: six sequence numbers, all of which arrive at
  any time, and a session that a request starts at 4, so that its window of 2 meets the wrap
  at once, or an event at 0; a peer that asks for 5 where the driver agrees to 2; two requests
  that wait, one reset: one request can be at the worker and another in the queue in each stage
  of the reset, and both workers can be between free and assignment.
- Rings: `TxVring` 6 slots, stop below 2, wake above 3, frames of one and of two
  descriptors, so that both thresholds are crossed, frames meet the wrap at each
  offset, and a frame may find no room; `MCTxVringGsoStall` has 8 slots (4 and 5) for
  longer GSO frames. `TxQueue` two rings of 4, stop below 1, wake above 1, frames of one
  and of two descriptors, two stations: a broadcast frame has one copy and its original,
  each of which may find its ring full while the other ring wakes the queue. `RxVring` 4 slots and 7 frames, so
  that indices wrap and the ring runs empty.
- `Tso`: segments of 2 and 3 octets, linear parts of 0 to 2, up to three small fragments: every
  order in which fragments and packets can end. 6, 12 or 20 free descriptors: too
  few, just enough and ample.
- Stations: two of each, the least in which a ring of one station is given to another,
  one connection overtakes another, and a ring is freed and given again while the worker
  sleeps; two events that wait. `SYMMETRY` permutes the peers, with invariants only.
- `WmiCall`: a command ring of 2 entries, so that it is full with one command;
  two calls, one unsolicited event, one reset: a late reply can meet the next
  call, and a reset can fall into each step of a call.
- `Interrupts`: two frames received or transmitted and an event, or one of each
  kind of frame; one reset, from any state; Rx budget 2, so that a poll ends both with and
  without exhausting it.
- `ClientIface`: any three requests out of two scans, two ROCs, two attempts to connect
  and one down (up twice, as it may fail): the second of a kind can meet the end of the first
  while a third stands between (620 000 states, 3 minutes). Any four pass as well, safety only.
- `ProbeRemove`: two events that wait; probes and removals are not bounded.

### Fairness

Fairness is asked of what the kernel schedules: handlers, threads, work items,
timers and polls that can go on, do (weak fairness of each; in `SessionsSpec` the event
worker that is about to queue work, and `back_worker`; in `Interrupts` a poll and the
unmasking after it each have their own, as they may run on two processors). The worker that
ends a ROC has strong fairness, because it waits for a mutex that others take
and give back, and mutexes are granted in turn. Of the device it is asked only
that it transmits frames that it was given and told of (`MCTxVring`, each ring of
`MCTxQueue`) and that the
firmware finishes a scan that it accepted (`MCClientIface`). Nothing is asked of the
firmware's replies, of the peer, of memory allocation, or of the user.

## 4. Assumptions that are not the code's

- The firmware and the device are modelled from how the code uses them; these
  definitions are marked external.
- `WmiCall`, `Exclusive = TRUE`: calls and resets from system calls exclude each
  other, which RTNL does for all but those from debugfs.
- `RxVring`, `Restart = FALSE`: no `start_ap` on a running ring (section 6).
- `RxSessions`: the loop with which a free flushes the frames, the locked part of the poll, and
  the reading and clearing of the pointer at the end of a session are one step each. What
  a poll does to a session that was freed takes or loses the frame it brings, no other.
  `Asked` excludes 0.
- `TxQueue`, `Overlap = FALSE`: rings are freed only between transmissions and
  polls; `wil_vring_fini_tx` takes no lock (section 6).
- `Tso`: the linear part is not longer than the segment size (section 6).
- `ClientIface`: cfg80211 calls under RTNL, one at a time, asks for one scan at a
  time, disconnects before it takes the interface down, and looks at connection results later.
- `ProbeRemove`: the network core calls `wil_stop` when it unregisters an interface that
  is up, and permits connecting only while it is up.

No constant takes failures, resets or overlaps away from a run, other than `Exclusive`,
`Restart` and `TxQueue`'s `Overlap`. Where the code breaks a property in certain cases the
property names them, and section 6 has what it is meant to be.

## 5. Proofs

TLAPS checks the modules `*_proofs`. Each theorem holds for every value of the
constants that satisfies the named assumptions of its module, and the further
assumption in the table, where section 4 gives the reason for it.

| Module | Theorems | Further assumption |
|---|---|---|
| `StaRings_proofs` | `TypeCorrect` (`TypeOK`), `LookupCorrect` (`LookupFindsRing`), `ConnectionAwaited` (`PendingAwaited`), `Inductive` | |
| `WmiCall_proofs` | `TypeCorrect` (`TypeOK`), `SlotOwned` (`ReplySlotOwned`), `Inductive` | |
| | `RepliesOwn` (`OwnReply`) | `Exclusive = TRUE`; no command waits for the ready or the disconnect event |
| `TxQueue_proofs` | `TypeCorrect` (`TypeOK`), `SentOnce` (`BroadcastOnce`), `Inductive` | `Overlap = FALSE` |
| `TxVring_proofs` | `TypeCorrect`, `DeviceSafe` (`HwInWindow`), `MapsPaired` (`MappedInWindow`), `Inductive` | no GSO frames |
| | `FreedOnce` (`RefsBalanced`), `RingImplements` (`ImplementsQueue`) | no GSO frames, no copies |
| `TxVring_proofs`, Tso | `PayloadCovered` (`CutExactly`), `PacketsFull` (`PacketsOfMss`), `CountsRight` (`CountsTrue`), `CutInvariant`, `RingHasCutFrames` | the linear part fits in a segment (`LinearFits`) |
| `Interrupts_proofs` | `ServedMasked` (`MaskedWhileServed`), `MaskOwned` (`MaskHasOwner`), `Inductive` | |
| `Interrupts_proofs`, ProbeRemove | `HeldWhenReleased` (`ReleasesHeld`), `HandlersBacked` (`WorkBacked`), `TimerInTime` (`TimerGone`), `OnlyKnownLeft` (`GivesAllBack`), `ProbeType`, `ProbeInductive` | |
| `RxVring_proofs` | `BuffersHeld` (`BuffersInWindow`), `DeviceBounded` (`HwOwnsItsSlots`), `InOrder` (`ReapedInOrder`), `Inductive` | `Restart = FALSE` |
| `BlockAck_proofs`, RxReorder | `CountRight` (`StoredCount`), `RangeRight` (`InWindow`), `HeadRight` (`HeadSlotEmpty`), `BufferInductive` | windows of 2 and more; for `HeadRight` they also divide the sequence space |
| | `FramesRight` (`InOrder`, `NoHeldFrameLost`, `NoFalseDrop`) | windows of 2 and more that divide the sequence space |
| `BlockAck_proofs`, RxSessions | `RequestsCurrent` (`NoStaleRequest`), `Inductive` | |
| | `BufferRight` (`BufferConsistent`), `SessionsInOrder` (`InOrder`), `SessionsDropNone` (`NoFalseDrop`), `SessionsLoseNone` (`LostOnlyOverwritten`) | windows of 2 and more that divide the sequence space |
| `BlockAck_proofs`, BaSession | `ImplementsInOrderDelivery` (`DeliversInOrder`) | the same windows, at most a quarter of the sequence space |
| `ClientIface_proofs` | `TypeCorrect`, `ToldInOrder` (`ReadyThenExpired`), `AnsweredOnce` (`OneAnswer`), `ScansPermitted` (`ScanPossibleAgain`), `Inductive` | |

`IInv` is a strengthening of the properties that every step preserves (`Inductive`), with
one step of the proof per action or group of actions; the buffer alone needs none (`Sound`
is inductive), and `OwnInv`, `BaInv`, `Asked` and `Permits` are invariants of the same kind
on top of it.

**StaRings.** `IInv == TypeOK /\ ConnectedServed /\ WorkerServed`.
`LookupFindsRing` is not inductive: a station becomes connected in a step of the
connect worker that looks at no ring, long after the worker chose the ring and
marked it. `WorkerServed` carries the fact through the worker's sleep: its ring is
marked with its station, and the first ring marked so is allocated if any is.
It survives because the worker takes the first free ring (`FirstFreeServes`:
every ring before it is allocated), because freeing a station's rings frees all
of them (`FreeAllServes`), and because a failing worker frees only its own ring,
whose station is not connected (`FreeOneServes`). `ConnectedServed` says the same of
connected stations, in a form without the choice of a first ring; `FirstIsLeast`
and `ServedLookup` relate the two. `PendingAwaited` needs `WorkerMixed`: the station that
`pending_connect_cid` holds while the worker is at another is mixed up with it, so what
the worker clears at its end is its own station, or one that is excepted.

**WmiCall.** `IInv == TypeOK /\ Owned /\ WorkerSends /\ Slot /\ Handling`, for any
number of callers and a ring of more than one entry. `ReplySlotOwned` speaks of
callers; event worker, interrupt thread and reset change the same variables. `Owned`
says that a thread in the midst of a call holds `wmi_mutex`, `Slot` that `reply_id`
and `reply_buf` are set only while its owner waits, `WorkerSends` and `Handling`
what the worker may be at while it sends commands of its own.

`RepliesOwn` needs to know where the completion of a call comes from, and `OwnInv ==
Published /\ FreshFirmware /\ OneCompletion` is a second invariant on top of `IInv`.
`OneCompletion` says that, until a wait times out, what completes `wmi_ready` is in one of
six places, and there once: a command in the ring, a task of the firmware, an event in the
mailbox, in the driver's list or with the worker, or the count of `wmi_ready`. It belongs
to the call that holds the mutex, or to the reset that waits (`Due`), and when it is the
count, the reply is in the buffer already (`Served`). Each step keeps it in its place or
moves it on to the next one. `FreshFirmware` is what makes the ready event after a reset
the first that completes anything. Commands that wait for the ready event do not exist in
the driver; one that did could not tell it from its reply.

**TxQueue.** `IInv == TypeOK /\ OneRingEach /\ Counted /\ Addressed /\ Copies /\
Requeued`. `BroadcastOnce` speaks of the step that fills a ring; a broadcast frame
takes many, with rings that may come in between, and the stack may send it again.
`Copies` says that the stations that have a copy are those of rings above the first
that were visited before, `Addressed` and `Requeued` that the original is for a
station that has none, `OneRingEach` that a station cannot be met twice. `Counted` (the
poll and the transmit path never overestimate each other) keeps the types.

**TxVring.** `IInv == TypeOK /\ DeviceInside /\ Mapped /\ Held /\ NotDone /\ Room /\
ScanBehind /\ Balanced /\ Ends`, said with the distance of a slot from the tail. `NotDone`
(what the device has not passed does not look done) and `ScanBehind` keep
`wil_tx_complete` behind the device, `Room` keeps `wil_start_xmit` off the tail though it
read the tail long before: the tail has only moved away. `Held` says that a frame's last
slot is in the window while any of its slots is, so that no two frames share a name and
`Balanced` can count. `RingImplements` is the refinement: each action is an action of
`TxQueue` under the mapping of `TxVring`. It needs `Ends` in two places. `TxQueue` releases
what the first loop of `wil_tx_complete` found, and the second loop of the code could stop
short of that, at a descriptor that ends a packet and is not done; there is none. And
where the device is done with all, the first loop finds the last one. GSO frames are
left out because they break all of this (section 6), and copies because their
references are not dropped and nobody requeues them.

**Tso.** `TsoIInv == CutTypes /\ WalkPosition /\ CutSoFar /\ PacketEnds /\ PacketCounts /\
PacketsOfMss /\ CountsTrue`, for frames of any number of fragments of any sizes and any
segment size. `CutExactly` and the other two speak of finished frames (and of a beginning of
the payload), so the invariant says what holds in the loop. `CutSoFar`: in front of each chunk
the descriptors cover the linear part, the fragments before this one and of this one what `len`
says is done. `PacketEnds`: what is covered and `rem_data` together are a multiple of the
segment size, and a descriptor before the last ends a packet where what is covered is one.
`PacketCounts`: `sg_desc_cnt` counts from `sg_desc` to the last descriptor
(`OpenPacket`), and each packet that has been closed has its size in its first descriptor
(`TellsSize`). `DataStep` is what the linear part and a chunk have in common, `ClosedStep` what
the end of a packet and of the frame have. The octets are put together by `FlattenSeq`, a
recursive function: `FlattenIs` to `FlattenMore` get from its definition what it yields
for one sequence more, by the least index at which it could be wrong, and `CoverAppend`,
`FragMore` and `CutIsPrefix` say it of descriptors and fragments. The linear part has to fit: if it
does not, `rem_data` is negative and the properties are false (section 6).

`RingHasCutFrames` ties the two modules together: a frame that `Tso` finishes takes as many
descriptors as `Descs` of `TxVring` says, ends packets at one of the sets `EopSets`, and had
the room that `Need` and `Fits` ask for; so `TxVring` may leave octets out.

**Interrupts.** `IInv == TypeOK /\ NapiOff /\ Serving /\ SoleService /\
MaskedWhileServed /\ Owned`, for resets that may begin and end at any point of a handler, a
poll or the thread. `Serving` says that a handler only looks at vectors that are not being
served, and `SoleService` that a vector has one service at a time (a poll, or an unmasking that
is yet to come; a waking handler, or the thread), both except for services that a
reset caught. Without the first, a second handler could schedule what the first
unmasks; without the second, the end of one service would unmask under another. `Owned`
adds to `MaskHasOwner` what its induction needs: the misc vector is masked only while
`isr_misc` has causes, and those only while the thread is under way.

**RxVring.** Positions are compared by their distance from the head (`Dist`), the
only order that survives the wrap; `Wrap` and its companions say what a step of an
index does to distances. `Window` says what is between head and tail, `Order` puts the
device's position and its register there and numbers the completed slots from the head
on; `Starting` says the same of a ring the device does not know yet, and `PollOn` that
it is polled only when it does.

**RxReorder.** A call of the driver is one step of the model and its loops are
operators, so the invariant is that of the data between two calls: `Sound`, for the
count, the slots and the range of the stored frames, is inductive as it stands
(`BufferInductive`), and the work is in what a call does inside. `Advance` and `Reach`
say what moving the head does to distances modulo the sequence space, `RoomMade` that
after making room the new frame is in range. `Release` is about any number of turns of
the release loops: each occupied slot that is visited is found once (`HitSlots`).
`RunStops` is about `wil_reorder_release`, whose run of full slots ends because there are
no more slots than the window has. A window of 1 breaks the step from `RoomMade` on: a
frame half the sequence space ahead is placed out of range, since `seq_less` calls
neither number less. `HeadRight` needs that equal numbers modulo the sequence space
are in equal slots (`SlotAgain`), which is why windows must divide it; section 6
shows what happens to frames when they do not.

`FramesRight` is about the sequence a call gives to the stack, which the loops of the
code build one frame at a time and the model builds at once, as what sorts the turns
that found a frame. The lemmas about sorting come first: `Numbered` and
`AscendingUnique` say that an ascending sequence with the elements of a set is the one
`Ascending` describes. `Delivers` is the contract of a call: the
numbers of what goes up are between the old head and the new one and ascend, and what was
held, or arrived, went up or is held. `RunStops` proves it of `wil_reorder_release`,
`RoomStep` of the release that makes room, `FrameDelivers` of both in a row.
`OrderStep`, `DropStep` and `LossStep` read the three properties off it.

**BaSession.** `BaInv == HeadKnown /\ PeerType /\ NotPast /\ TopSeen /\ NotBehind /\
NotAhead`. The refinement needs a frame of the vring to be close enough to the head that its
sequence number tells on which side it is (`NearHead`: less than a window
behind, less than half the sequence space ahead), when it is polled, long after it
arrived. Neither bound is inductive: the head moves past frames that
wait, and the peer moves ahead of a head that waits. `NotBehind` relates each frame to those
before it in the vring, each of which may become the head; `NotAhead` says that a frame
is near the head or near one before it, and `TopSeen` that the highest frame
that arrived is one of those. `PollStep` then finds the step of `InOrderDelivery`: the
gap where its window stops is the head the loops of the code stop at (`NewFrame`). A peer
window of a quarter of the sequence space leaves room for what is behind, the window
and what waits; the driver agrees to at most 16 of 4096.

**RxSessions.** `NoStaleRequest` looks at `back_worker` once its request has left the
queue. `WorkComes` says that what waits will be looked at, `WmiEmpty` that after the
first flush only late requests may wait with no work queued for them, `BackEmpty` that
after the second only late ones wait at all; so none is left when the firmware changes.
Nothing is needed of the session itself.
`BufferRight` is `BufferInductive` and `HeadRight` over again, for a buffer whose session
is now begun by a worker, ended by events and kept by a reset: each of these steps is
either one of RxReorder's or leaves the buffer alone. The same holds of the order of
frames. That a frame is lost in one case only needs more: both workers free a session and
assign its successor in two steps, with the poll, disconnections and the other worker
between them. `Makers` says what they may find: a pointer to freed memory is there only while
`back_worker` allocates, and what is in place while a worker allocates was assigned by the
other. `SessionsLoseNone` follows: whoever frees flushes all that is held, and an assignment
that meets a session overwrites the other worker's.

**ClientIface.** `IInv` is the type, part by part, with `Cookies`: a ROC that is being
prepared has been announced to nobody, and one whose cookie is set and that nobody prepares
is ready, unless it is for a management frame. It holds because preparation and the end of a
ROC both need `wil->mutex`, whoever cancels what. `Asked` says who owes the answer to a scan:
`scan_request` refers to the scan that cfg80211 waits for, or to an excused one; so it is
`NULL` during a P2P search; event worker and `__wil_down`, between their test of
`scan_request` and their answer, have seen the request that is still there, unless both are at
it. `Permits` says that while `dontscan` is set something is under way that clears it
(`Clearing`: the user's thread at certain points, the ROC's work, timer or disconnect
worker, an event, or a firmware that is connected and will report the end), or it is `kept`.
The firmware need not report the end of an attempt: the timer is what ends it.

**ProbeRemove.** `ProbeIInv == ProbeTypeOK /\ Taking /\ Releasing /\ Backed /\
Unregistered`, with `Early`. `Taking` says what is held in each phase: nothing when unbound,
and while probe goes on exactly what stands before `at` in `ProbeOrder`, less what this number
of MSIs does not need (`NotTaken`). `Releasing` says the same of the list `todo`, that what is
held is still to be given back or known to be left (`Left`), and that the list is in
turn: `Turn` numbers what may be done, lines before the interface, the
interface before the disconnect worker is waited for, that before the queues, the queue
of the event worker before that of Block Ack, then the private memory, registers and
device. The code has no such order anywhere; it is what its functions that give back
agree on. `Joined` puts lists in turn together, `RefusedUndoes` and
`LateUndoes` go through the 16 places where probe may be refused and removal, each with every
number of MSIs, and `DoesInTurn` draws the conclusion: what is given back comes no later
than all that is still held. From this follows `Backed` (no line is left when what handlers
use goes, and the event worker is over when the queue of Block Ack goes), and
`Unregistered` with `MemoryHeld` (timer and disconnect worker end while the interface
is registered or the worker is yet to be waited for). `Early` says that no handler runs before a
line is requested: the roll-back that ends in an oops leaves queues behind, and no worker.
The proof covers every refusal, and `OnlyKnownLeft` that at the end only `Left` is held.

Only model-checked: liveness (all leads-to properties and fairness), which this prover
cannot treat.

## 6. Where the code does not keep a property

The modules state a few more properties, each with the comment, assertion or
document that claims it, which the code violates. They are kept because a
change of the code should make them hold. To see a counterexample, take the
named configuration, change what the second column says, and check only the
property.

| Property | Configuration and change | What happens |
|---|---|---|
| `InOrder` (RxReorder) | `MCRxReorder`, `SeqModulo = 8`, `WSizes = {1}`, `Ssns = {0}` | a window of 1 (a peer may ask for it): making room moves the head past the frame that is being placed |
| `NoFalseDrop` (RxReorder) | as above, `WSizes = {3}` | a window that does not divide the modulus: at the wrap two numbers share a slot |
| `StoredFrameReleased` (BaSession) | `MCBaSession`, `Ssns = {0}`, `MaxFrame = 4` | the documented `reorder_timer` (wil6210.h:252) does not exist: a frame behind a hole stays |
| `WorkerHasConnection` (StaRings) | `MCStaRings` | a connect event that arrives while the connect worker sleeps is overwritten with -1 (main.c:191); the station stays pending |
| `ResetClearsAll` (StaRings) | `MCStaRings` | "reset all the structures" (main.c:333) disconnects with no address, which disconnects no station |
| `TxRingConfigured` (StaRings) | `MCStaRings` | a frame can be sent on a ring before the firmware has told its tail register |
| `StoppedWoken` (TxVring, TxQueue) | `MCTxVring`, `MCTxQueue` | a dropped frame stops the queue with nothing under way to wake it (txrx.c:1222) |
| `TransmittedReleased` (TxVring) | `MCTxVring` | the last descriptor that completed is not released until another completes (txrx.c:1278) |
| `UnmapKindMatches` (TxVring) | `MCTxVringBig`, `DmaErrors = FALSE` | `swtail <= sngl_mapped` compares ring indices, wrong after a wrap (txrx.c:1326) |
| `RefsBalanced` (TxVring) | `MCTxVringBig`, `SkbShapes <- Copies` | the references of broadcast copies are not dropped (txrx.c:745) |
| `HwInWindow` (TxVring) | `MCTxVringBig`, `SkbShapes <- Gso`, `DmaErrors = FALSE` | GSO checks for fewer descriptors than it uses (txrx.c:883): the head passes the tail |
| `MappedInWindow` (TxVring) | `MCTxVringBig`, `SkbShapes <- Gso` | a mapping error in a GSO frame leaves earlier buffers mapped (txrx.c:1041) |
| `RingServed` (TxQueue) | `MCTxQueue` | a frame put in a ring that the connect worker has allocated and the firmware does not know yet is announced to nobody (txrx.c:597) |
| `NoFreedRingUsed` (TxQueue) | `MCTxQueue`, `Overlap = TRUE` | `wil_vring_fini_tx` frees the ring under the transmit path or the poll (txrx.c:627) |
| `CutExactly` (Tso) | `MCTso`, `LinearLens = {3, 4}` | a linear part longer than the segment size makes what is left of the packet negative (txrx.c:967) |
| `SessionOfStation` (RxSessions) | `MCRxSessions` | the station goes while `back_worker` waits for the firmware's answer, and gets a session (rx_reorder.c:241) |
| `NoSessionAfterReset` (RxSessions) | `MCRxSessions` | `wil_reset` disconnects no station (main.c:333), so sessions stay |
| `NoUseAfterFree` (RxSessions) | `MCRxSessions` | `wil_rx_reorder` reads the pointer before it takes the lock, which is in the record that is freed (rx_reorder.c:80, 248), against wil6210.h:262 |
| `NoHeldFrameLost` (RxSessions) | `MCRxSessions` | a session that a BA status creates while `wil_back_handle` allocates is overwritten with the frames it holds (rx_reorder.c:249); the other way round the same (wmi.c:640) |
| `CopyToWaiter` (WmiCall) | `MCWmiCall` | the reply is copied after the wait timed out, to a buffer on the stack of a caller that has returned (wmi.c:1353) |
| `NoCircularWait` (WmiCall) | `MCWmiCall` | a handler waits for `wmi_mutex`, whose owner waits for a reply queued behind that handler; the time-out ends it |
| `ResetTrue` (WmiCall) | `MCWmiCall`, `MaxResets = 2` | the ready event of the firmware before the reset completes the wait for the one after (main.c:363) |
| `EventsTaken` (WmiCall) | `MCWmiCall` | `wmi_recv_cmd` has no memory for an event and leaves it in the mailbox, whose cause is cleared (wmi.c:735): it waits for the next |
| `OwnReply` (WmiCall) | `MCWmiCall`, `Exclusive = FALSE` | a reset from debugfs completes a call that has no reply |
| `NeverStray` (Interrupts) | `MCInterrupts` | an Rx interrupt before `napi_enable` (main.c:470), a cause other than DONE (interrupt.c:196, 228), or a handler under a service that a reset caught: the vector is masked and nobody unmasks it |
| `QuietWhenDisabled` (Interrupts) | `MCInterrupts` | nothing waits for running handlers when interrupts are disabled: handler or thread unmasks the pseudo cause after `wil6210_disable_irq` |
| `AllReaped` (RxVring) | `MCRxVring` | a frame that is thrown away ends the loop (txrx.c:395); completed frames behind it wait for the next interrupt |
| `DeviceFed` (RxVring) | `MCRxVring` | once allocations have failed until the ring is empty nothing refills it |
| `FreedUnmapped` (RxVring) | `MCRxVring` | `wil_vring_free` takes descriptor and skb of different slots (txrx.c:142) |
| `InitLeaksNothing` (RxVring) | `MCRxVring`, `Restart = TRUE` | `start_ap` sets up the ring again without freeing it (cfg80211.c:725) |
| `NoStrayAnswer` (ClientIface) | `MCClientIface` | what `OneAnswer` excepts: a scan that was refused is answered when the interface goes down (cfg80211.c:394), a failed P2P search is answered and then refused (cfg80211.c:335), `__wil_down` and the event worker answer the same scan (main.c:493, wmi.c:386) |
| `DontscanCleared` (ClientIface) | `MCClientIface` | what `ScanPossibleAgain` excepts: a command fails that follows the setting of `dontscan` (cfg80211.c:506, wmi.c:974), or the event of an older attempt stops the timer of a newer one (wmi.c:454): nothing clears the bit |
| `AttemptAnswered` (ClientIface) | `MCClientIface` | what `AllAnswered` excepts: an unsupported BSS type makes `connect` return 0 without command or timer (cfg80211.c:474) |
| `TimerSparesConnections` (ClientIface) | `MCClientIface` | the timer's worker runs after the connect event and ends the connection |
| `DisconnectSeen` (ClientIface) | `MCClientIface` | a disconnect before cfg80211 has looked at the result is reported as a failed attempt, which cfg80211 ignores: it stays connected |
| `ConnectionKept` (ClientIface) | `MCClientIface` | the time-out does not tell the firmware, which connects later |
| `NoScanAfterConnect` (ClientIface) | `MCClientIfaceScan` | connect sets `dontscan` because the firmware does not support scans after it (cfg80211.c:366, 501); the end of a ROC that began earlier clears it (wmi.c:1019), and the scan is sent |
| `NothingLeaked` (ProbeRemove) | `MCProbeRemove` | `back_wq` stays when `roc_wq` is refused (main.c:238); MSIs stay enabled when an interrupt is refused (pcie_bus.c:75); removal reads `wil->csr` after it has freed `wil` (pcie_bus.c:204) |
| `RollbackEnds` (ProbeRemove) | `MCProbeRemove` | without a net_device the roll-back calls `wil_link_off`, which dereferences `wdev->netdev`, NULL (netdev.c:168, main.c:262) |
| `NdevBacked` (ProbeRemove) | `MCProbeRemove` | `wil_if_free` frees the net_device and then disconnects, which uses it (netdev.c:182); the disconnect worker and event handlers may use it too |
| `RocGone` (ProbeRemove) | `MCProbeRemove` | a ROC that is delayed outlives `roc_wq` and the private memory: `destroy_workqueue` does not wait for delayed work (main.c:265) |
| `ConnGone` (ProbeRemove) | `MCProbeRemove` | the handler of a connect event taken before the flush queues the connect worker on a destroyed `wmi_wq_conn` (main.c:266) |

## 7. Not modelled

- Starting and stopping the access point, keys, beacon changes, station information
  and management transmission: each translates one call to one or a few commands
  and keeps no state of its own. `start_ap` on a running interface matters to the Rx
  ring, and is there (`RxVring`, `Restart`).
- The registers behind the mailbox (`wmi_addr`, `wmi_buffer`), events of the wrong size,
  interrupt moderation. Of the firmware-error interrupt the notice to user space is left out;
  that it clears `fwready` is in `WmiCall`.
- The overlap, instruction by instruction, of the loop with which a session is freed and the
  locked part of `wil_rx_reorder` (`RxSessions`).
- Carrier and queue state towards user space, other than the one stopped queue.
- Contents: frames, IEs, checksum offload, radiotap headers, statistics, RSSI.
- debugfs, tracing, debug output, build files and tools. A reset written to debugfs is
  in `WmiCall` (`Exclusive = FALSE`).

## 8. Plan

Done, in this order: `RxReorder` with `BaSession`, `StaRings` with proofs, `TxVring`,
`WmiCall`, `Interrupts`, `RxVring`, `ClientIface`, `ProbeRemove`; then `RxSessions`,
`TxQueue` with the refinement by `TxVring`, `Tso`, and the proofs of `WmiCall`, `TxQueue`,
`Interrupts`, `RxVring`, `RxReorder`, `RxSessions` and `TxVring`, its refinement of
`TxQueue` included; then the proofs of `BaSession`, its refinement of `InOrderDelivery`,
and of the order of frames; then those of `OwnReply`, of
`ClientIface`, `Tso` and `ProbeRemove`; then failures, resets and overlaps in every run and
theorem of `RxSessions`, `Interrupts`, `ClientIface`, `WmiCall` and `ProbeRemove`.

Next:

1. The access point's operations as a module over `StaRings`: `start_ap`, `stop_ap`,
   `del_station` and the firmware's PCP commands in one order of calls.
