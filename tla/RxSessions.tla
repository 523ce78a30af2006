----------------------------- MODULE RxSessions -----------------------------
(***************************************************************************)
(* How Block Ack sessions come and go, for one (CID, TID) pair: the queue  *)
(* of ADDBA requests and its worker (rx_reorder.c), the Block Ack events   *)
(* (wmi.c), disconnection and wil_reset (main.c), around the reorder       *)
(* buffer of RxReorder, into which the Rx poll puts frames all the time.   *)
(*                                                                         *)
(* back_worker runs on a work queue of its own, because it sleeps in       *)
(* wmi_call until the event worker hands it the firmware's answer.  The    *)
(* firmware of each reset is told apart by a number, gen.                  *)
(*                                                                         *)
(* Nothing orders the users of sta->tid_rx[tid] but reorder_lock, and only *)
(* the poll takes it, after it has read the pointer (rx_reorder.c:80, 94). *)
(* So the poll reads and works in two steps, and a session is freed and    *)
(* its successor assigned in two, since the allocation between them may    *)
(* sleep.  The loop of a free and the locked part of the poll are one step *)
(* each.  Freed memory is used without a check: such a use takes or loses  *)
(* the frame it brings, and does not touch the session in place.           *)
(*                                                                         *)
(* A definition named X_m_... is X with a plausible slip; no specification *)
(* uses it, it stands in for X when a property is tested against it.       *)
(***************************************************************************)
EXTENDS RxReorder

CONSTANTS
  Asked,       (* window sizes that peers ask for                            *)
  AggMax,      (* the largest the driver agrees to, 16                       *)
  MaxPending,  (* bound: requests that wait for back_worker                  *)
  MaxResets    (* bound: resets                                              *)

ASSUME AskedAssumption == Asked \subseteq Nat \ {0} /\ AggMax \in Nat \ {0}
ASSUME CappedAssumption == \A n \in Asked : (IF n < AggMax THEN n ELSE AggMax) \in WSizes
ASSUME BoundAssumption == MaxPending \in Nat /\ MaxResets \in Nat

\* A request, and the progress of back_worker.
Request == [size : Asked, ssn : Ssns, gen : 0..MaxResets, late : BOOLEAN]
Handling == {[pc |-> "next"]} \cup [pc : {"handle", "wait", "apply", "alloc"}, req : Request]
ASSUME NullHandling == NULL \notin Handling
ASSUME NullWindow == NULL \notin WSizes

VARIABLES
  status,        (* sta->status                                              *)
  back_pending,  (* the requests, oldest first                               *)
  queued,        (* back_worker is queued                                    *)
  back,          (* NULL or the progress of back_worker                      *)
  adding,        (* the event worker has added a request and not queued work *)
  dangling,      (* sta->tid_rx[tid] points to a session that is freed       *)
  rx,            (* the poll: "idle", or the session it has read is in place *)
                 (* ("live") or no longer ("stale")                          *)
  ba,            (* NULL, or the window of the session that the event worker *)
                 (* is to assign, having freed the one before                *)
  maker,         (* history: which worker assigned the session in place      *)
  stage,         (* how far wil_reset is                                     *)
  fwready,       (* wil_status_fwready                                       *)
  gen            (* external: the firmware that runs                         *)

sessionVars == <<tid_rx, out, dangling, rx, maker>>
backVars    == <<back_pending, queued, back, adding>>
resetVars   == <<stage, fwready, gen>>

\* Steps that give the stack nothing and leave the session alone.
Quiet == out' = <<>> /\ UNCHANGED <<tid_rx, dangling, rx, maker>>

allVars == <<sessionVars, ba, status, backVars, resetVars>>

SessionsInit ==
  /\ Init
  /\ status = "unused"
  /\ back_pending = <<>> /\ queued = FALSE /\ back = NULL /\ adding = FALSE
  /\ dangling = FALSE /\ rx = "idle" /\ ba = NULL /\ maker = "none"
  /\ stage = "none" /\ fwready = TRUE /\ gen = 0

-----------------------------------------------------------------------------
\* wil_rx_handle gives a frame to wil_rx_reorder.  Without a session it goes up.
RxPass(f) ==
  /\ rx = "idle" /\ NoSession(f)
  /\ UNCHANGED <<dangling, rx, maker, ba, status, backVars, resetVars>>

\* With one, the pointer is read before the lock is taken.
RxRead ==
  /\ rx = "idle" /\ tid_rx # NULL
  /\ rx' = IF dangling THEN "stale" ELSE "live"
  /\ out' = <<>>
  /\ UNCHANGED <<tid_rx, dangling, maker, ba, status, backVars, resetVars>>

\* From lock to unlock, on the session that was read.
RxWork(f) ==
  /\ \/ rx = "live" /\ wil_rx_reorder(f)
     \/ rx = "stale" /\ out' \in {<<>>, <<f>>} /\ UNCHANGED tid_rx
  /\ rx' = "idle"
  /\ UNCHANGED <<dangling, maker, ba, status, backVars, resetVars>>

\* A poll that has read the pointer finds the session freed, or overwritten.
PollLeft == IF rx = "live" THEN "stale" ELSE rx

\* What wil_tid_ampdu_rx_free gives to the stack.  Freed a second time, memory
\* holds no frame any more.
Flushed == IF dangling THEN <<>> ELSE wil_tid_ampdu_rx_free(tid_rx)

\* The session is taken out of the array, flushed and freed.
EndSession ==
  /\ tid_rx' = NULL /\ out' = Flushed
  /\ dangling' = FALSE /\ rx' = PollLeft /\ maker' = "none"

\* A session, or NULL when its allocation fails, is assigned, whatever is there.
Assign(worker, size, ssn) ==
  /\ tid_rx' \in {wil_tid_ampdu_rx_alloc(size, ssn), NULL}
  /\ out' = <<>> /\ dangling' = FALSE /\ rx' = PollLeft
  /\ maker' = IF tid_rx' = NULL THEN "none" ELSE worker

\* The event worker is between two events.
EventIdle == ~adding /\ ba = NULL

\* wmi_evt_connect: whatever the station was.
wmi_evt_connect ==
  /\ EventIdle
  /\ status' = "pending"
  /\ Quiet /\ UNCHANGED <<ba, backVars, resetVars>>

\* wil_connect_worker ends, perhaps after the station was disconnected.
Connected ==
  /\ stage = "none" /\ status # "connected"
  /\ status' \in {"connected", "unused"}
  /\ Quiet /\ UNCHANGED <<ba, backVars, resetVars>>

\* wil_disconnect_cid, for an event or a user: the session is flushed and freed.
Disconnected ==
  /\ status' = "unused"
  /\ EndSession
  /\ UNCHANGED <<ba, backVars, resetVars>>

\* wmi_evt_ba_status, for the ring of a station that is not unused: it does not
\* name a TID, nor the direction, and every session of the station is freed.
wmi_evt_ba_status ==
  /\ EventIdle /\ status # "unused"
  /\ EndSession
  /\ ba' \in WSizes \cup {NULL}
  /\ UNCHANGED <<status, backVars, resetVars>>

\* WMI_BA_AGREED: the session that follows.
BaAssign ==
  /\ ba # NULL
  /\ Assign("event", ba, 0)
  /\ ba' = NULL
  /\ UNCHANGED <<status, backVars, resetVars>>

-----------------------------------------------------------------------------
(* ADDBA requests. *)

\* wil_rcp_addba_request up to queue_work, for an event of firmware g.  An event
\* is late when the interrupt thread put it in the list after wil_reset had
\* emptied that.
AddRequest(g, late) ==
  /\ EventIdle /\ Len(back_pending) < MaxPending
  /\ \E size \in Asked, ssn \in Ssns :
       back_pending' = Append(back_pending,
                              [size |-> size, ssn |-> ssn, gen |-> g, late |-> late])
  /\ adding' = TRUE
  /\ Quiet /\ UNCHANGED <<ba, status, queued, back, resetVars>>

wil_rcp_addba_request ==
  \/ stage = "none" /\ AddRequest(gen, FALSE)
  \/ stage \in {"back", "target"} /\ AddRequest(gen, TRUE)
  \/ stage = "boot" /\ AddRequest(gen - 1, TRUE)

RequestQueued ==
  /\ adding
  /\ adding' = FALSE /\ queued' = TRUE
  /\ Quiet /\ UNCHANGED <<ba, status, back_pending, back, resetVars>>

BackStart ==
  /\ queued /\ back = NULL
  /\ queued' = FALSE
  /\ back' = [pc |-> "next"]
  /\ Quiet /\ UNCHANGED <<ba, status, back_pending, adding, resetVars>>

AfterRequest_m_stops == NULL

\* wil_back_worker looks for another request.
AfterRequest == [pc |-> "next"]

\* next_back
BackNext ==
  /\ back # NULL /\ back.pc = "next"
  /\ IF back_pending = <<>> THEN back' = NULL /\ UNCHANGED back_pending
     ELSE /\ back' = [pc |-> "handle", req |-> Head(back_pending)]
          /\ back_pending' = Tail(back_pending)
  /\ Quiet /\ UNCHANGED <<ba, status, queued, adding, resetVars>>

\* wil_back_handle up to the wait of wmi_call: "not connected", or -EAGAIN
\* before the firmware is ready, or the response is sent.
BackSend ==
  /\ back # NULL /\ back.pc = "handle"
  /\ back' = IF status = "connected" /\ fwready THEN [back EXCEPT !.pc = "wait"] ELSE AfterRequest
  /\ Quiet /\ UNCHANGED <<ba, status, back_pending, queued, adding, resetVars>>

\* The response was sent on the air; or was not, or nothing came in time.
BackAnswered ==
  /\ back # NULL /\ back.pc = "wait"
  /\ back' \in {[back EXCEPT !.pc = "apply"], AfterRequest}
  /\ Quiet /\ UNCHANGED <<ba, status, back_pending, queued, adding, resetVars>>

agg_wsize(req) == IF req.size < AggMax THEN req.size ELSE AggMax

\* The rest of wil_back_handle, whatever happened to the station meanwhile.  The
\* allocation may sleep: until it is assigned the pointer is that of the session
\* that was freed.
BackFree ==
  /\ back # NULL /\ back.pc = "apply"
  /\ out' = Flushed
  /\ dangling' = (tid_rx # NULL)
  /\ rx' = PollLeft
  /\ back' = [back EXCEPT !.pc = "alloc"]
  /\ UNCHANGED <<tid_rx, maker, ba, status, back_pending, queued, adding, resetVars>>

BackAssign ==
  /\ back # NULL /\ back.pc = "alloc"
  /\ Assign("back", agg_wsize(back.req), back.req.ssn)
  /\ back' = AfterRequest
  /\ UNCHANGED <<ba, status, back_pending, queued, adding, resetVars>>

-----------------------------------------------------------------------------
(* wil_reset.  Its wil6210_disconnect has no address and ends no session.   *)

\* Up to wmi_event_flush.
ResetBegin ==
  /\ stage = "none" /\ gen < MaxResets
  /\ stage' = "wmi" /\ fwready' = FALSE
  /\ Quiet /\ UNCHANGED <<ba, status, backVars, gen>>

WmiFlushed_m_unawaited == TRUE

\* The event worker has ended the event that it was at.
WmiFlushed == EventIdle

\* flush_workqueue(wil->wmi_wq)
ResetWmi ==
  /\ stage = "wmi" /\ WmiFlushed
  /\ stage' = "back"
  /\ Quiet /\ UNCHANGED <<ba, status, backVars, fwready, gen>>

\* flush_workqueue(wil->back_wq)
ResetBack ==
  /\ stage = "back" /\ ~queued /\ back = NULL
  /\ stage' = "target"
  /\ Quiet /\ UNCHANGED <<ba, status, backVars, fwready, gen>>

\* wil_target_reset
ResetTarget ==
  /\ stage = "target"
  /\ gen' = gen + 1
  /\ stage' = "boot"
  /\ Quiet /\ UNCHANGED <<ba, status, backVars, fwready>>

\* wil_wait_for_fw_ready: the firmware has said that it is ready, or never does.
ResetEnd ==
  /\ stage = "boot"
  /\ stage' = "none" /\ fwready' \in BOOLEAN
  /\ Quiet /\ UNCHANGED <<ba, status, backVars, gen>>

-----------------------------------------------------------------------------
BackStep ==
  BackStart \/ BackNext \/ BackSend \/ BackAnswered \/ BackFree \/ BackAssign

ResetStep == ResetWmi \/ ResetBack \/ ResetTarget \/ ResetEnd

SessionsNext ==
  \/ \E f \in Frames : RxPass(f) \/ RxWork(f)
  \/ RxRead
  \/ wmi_evt_connect \/ Connected \/ Disconnected \/ wmi_evt_ba_status \/ BaAssign
  \/ wil_rcp_addba_request \/ RequestQueued
  \/ BackStep
  \/ ResetBegin \/ ResetStep

\* The workers run on, and the wait of wmi_call ends.
SessionsSpec ==
  /\ SessionsInit /\ [][SessionsNext]_allVars
  /\ WF_allVars(RequestQueued) /\ WF_allVars(BackStep)

-----------------------------------------------------------------------------
(* Properties. *)

\* The type of the state.
SessionsTypeOK ==
  /\ TypeOK
  /\ status \in {"unused", "pending", "connected"} /\ rx \in {"idle", "live", "stale"}
  /\ ba \in WSizes \cup {NULL} /\ maker \in {"none", "event", "back"}
  /\ queued \in BOOLEAN /\ adding \in BOOLEAN /\ dangling \in BOOLEAN
  /\ back_pending \in Seq(Request) /\ Len(back_pending) <= MaxPending
  /\ back \in Handling \cup {NULL}
  /\ stage \in {"none", "wmi", "back", "target", "boot"}
  /\ fwready \in BOOLEAN /\ gen \in 0..MaxResets

\* Whatever the order of requests, Block Ack events, disconnections and frames,
\* the buffer is consistent between any two of them: the count that selects the
\* fast path is right, frames are in range and in their slots, and nothing that
\* could be delivered is kept (rx_reorder.c:113, 130).
BufferConsistent == StoredCount /\ InWindow /\ HeadSlotEmpty

\* A frame that is held is given to the stack or still held, also when its
\* session is renegotiated or ends (rx_reorder.c:176), with one exception: the
\* event worker and back_worker replace the session at the same time, and the
\* later assignment overwrites the session of the other, which is not freed
\* (rx_reorder.c:249, wmi.c:640).
HeldFrameLost ==
  /\ tid_rx # NULL /\ ~dangling
  /\ \E f \in Held(tid_rx) :
       /\ \A j \in DOMAIN out' : out'[j] # f
       /\ tid_rx' = NULL \/ f \notin Held(tid_rx')

LostOnlyOverwritten ==
  [][HeldFrameLost => \/ BackAssign /\ maker = "event"
                      \/ BaAssign /\ maker = "back"]_allVars

\* A request that was queued is looked at, though work that is queued again
\* before it runs runs once (rx_reorder.c:202, 291).
RequestsTaken == back_pending # <<>> ~> back # NULL /\ back.pc = "next"

\* The firmware is sent the answer to a request only if it brought that request:
\* the order in which wil_reset flushes its work queues (main.c:349) leaves
\* nothing over, except by an interrupt thread that is still under way.
NoStaleRequest ==
  back # NULL /\ back.pc \in {"wait", "apply"} =>
    back.req.gen = gen \/ back.req.late

\* "This structure's lifetime is managed by RCU, assignments to the array holding
\* it must hold the aggregation mutex" (wil6210.h:262): no poll works on a session
\* that was freed or overwritten after it had read the pointer.
NoUseAfterFree == rx # "stale"

\* A session belongs to a station that is there.
SessionOfStation == tid_rx # NULL => status = "connected"

\* No session lasts into the time of another firmware.
NoSessionAfterReset == stage = "boot" => tid_rx = NULL
=============================================================================
