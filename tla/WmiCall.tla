------------------------------ MODULE WmiCall ------------------------------
(***************************************************************************)
(* The WMI transport, wmi.c: commands go to the firmware through a ring in *)
(* the mailbox; events come back through another one, from where the       *)
(* interrupt thread (wmi_recv_cmd) moves them to wil->pending_wmi_ev and   *)
(* a worker (wmi_event_worker) handles them.  wmi_call sends a command and *)
(* waits for its reply on wil->wmi_ready, a completion that the handler of *)
(* the firmware-ready event, for which wil_reset waits, uses too.          *)
(*                                                                         *)
(* A command is what wmi_call and wmi_send are told: the event to wait for *)
(* (NULL: wmi_send), whether the caller has a buffer for it, and a serial  *)
(* number of the model's, by which a reply can be told from another's.     *)
(* An event is its id and the serial of the command that it answers, 0 for *)
(* one that answers none.  Contents are left out.                          *)
(*                                                                         *)
(* A definition named X_m_... is X with a plausible slip; no specification *)
(* uses it, it stands in for X when a property is tested against it.       *)
(***************************************************************************)
EXTENDS Naturals, Sequences

CONSTANTS
  Callers,     (* threads that call wmi_call or wmi_send                    *)
  Kinds,       (* the commands they send: [id, buf]                         *)
  RingSize,    (* entries of the command ring                               *)
  Exclusive,   (* TRUE: calls and wil_reset exclude each other, as rtnl does
                  for all of them but those from debugfs                    *)
  MaxCalls, MaxNews, MaxResets,   (* bounds of the runs                     *)
  NULL

ASSUME RingAssumption == RingSize \in Nat /\ RingSize > 1
ASSUME BoundAssumption == MaxCalls \in Nat /\ MaxNews \in Nat /\ MaxResets \in Nat
ASSUME FlagAssumption == Exclusive \in BOOLEAN

VARIABLES
  pc,          (* where each thread is                                      *)
  cmd,         (* per thread: the command it sends or sent last             *)
  got,         (* per caller: the serial of the reply in its buffer, or 0   *)
  mutex,       (* wil->wmi_mutex: NULL or its owner                         *)
  fwready, reset_done,            (* bits of wil->status                    *)
  reply_id, reply_buf,            (* the buffer is named by its caller      *)
  ready,       (* wil->wmi_ready.done                                       *)
  pending,     (* wil->pending_wmi_ev                                       *)
  queued,      (* wmi_event_worker is queued                                *)
  evt, dst,    (* the worker's event, and the buffer it picked for it       *)
  irqOn,       (* misc. interrupts are enabled                              *)
  cause,       (* the latched causes of the misc. interrupt                 *)
  cmdq, mbox,  (* the command and the event ring of the mailbox             *)
  starved,     (* history: events were left in the mailbox for want of memory,
                  and no interrupt has been raised for it since             *)
  fw,          (* external: "boot" or "up"                                  *)
  todo,        (* external: commands the firmware took and has not answered *)
  late,        (* history: a wait timed out, or a reset left something over *)
  calls, news, resets   (* counters for the bounds                          *)

threadVars == <<pc, cmd, got, mutex>>
replyVars  == <<reply_id, reply_buf, ready>>
eventVars  == <<pending, queued, evt, dst>>
statusVars == <<fwready, reset_done>>
devVars    == <<irqOn, cause, cmdq, mbox, starved, fw, todo>>
boundVars  == <<late, calls, news, resets>>

vars == <<threadVars, replyVars, eventVars, statusVars, devVars, boundVars>>

Worker   == "wmi_event_worker"
Receiver == "irq_misc_thread"
Resetter == "wil_reset"
Threads  == Callers \cup {Worker, Receiver, Resetter}

ASSUME CallersAssumption ==
  Callers \cap {Worker, Receiver, Resetter} = {} /\ NULL \notin Threads

\* What wmi_evt_disconnect sends for a station that is connected.
DisconnectSta == [id |-> NULL, buf |-> FALSE, n |-> 0]

Commands == {DisconnectSta} \cup
            {[id |-> k.id, buf |-> k.buf, n |-> n] : k \in Kinds, n \in 1..MaxCalls}

EventIds == {"fw_ready", "disconnect"} \cup ({k.id : k \in Kinds} \ {NULL})

\* The device has been started and wil_reset waits for the firmware.
Init ==
  /\ pc = [t \in Threads |-> IF t = Resetter THEN "wait" ELSE "idle"]
  /\ cmd = [t \in Callers \cup {Worker} |-> DisconnectSta]
  /\ got = [c \in Callers |-> 0]
  /\ mutex = NULL /\ reply_id = NULL /\ reply_buf = NULL /\ ready = 0
  /\ fwready = FALSE /\ reset_done = FALSE
  /\ pending = <<>> /\ queued = FALSE /\ evt = NULL /\ dst = NULL
  /\ irqOn = TRUE /\ cause = {} /\ cmdq = <<>> /\ mbox = <<>>
  /\ starved = FALSE /\ fw = "boot" /\ todo = {}
  /\ late = FALSE /\ calls = 0 /\ news = 0 /\ resets = 0

Goto(t, l) == pc' = [pc EXCEPT ![t] = l]

-----------------------------------------------------------------------------
(* wmi_send and wmi_call. *)

Begin(c) ==
  /\ pc[c] = "idle" /\ calls < MaxCalls
  /\ Exclusive => pc[Resetter] = "idle"
  /\ \E k \in Kinds : cmd' = [cmd EXCEPT ![c] = [id |-> k.id, buf |-> k.buf, n |-> calls + 1]]
  /\ calls' = calls + 1
  /\ got' = [got EXCEPT ![c] = 0]
  /\ Goto(c, "lock")
  /\ UNCHANGED <<mutex, replyVars, eventVars, statusVars, devVars, late, news, resets>>

AfterEvent_m_stops == "idle"

\* Where the worker goes when an event is done with.
AfterEvent == "take"

\* Unlock and return; the worker goes on with its events.
Leave(t) ==
  /\ mutex' = NULL
  /\ Goto(t, IF t = Worker THEN AfterEvent ELSE "idle")

\* mutex_lock, and the one test of __wmi_send that depends on other threads:
\* it returns -EAGAIN before the firmware is ready.
SendCheck(t) ==
  /\ pc[t] = "lock" /\ mutex = NULL
  /\ IF fwready THEN Goto(t, "put") /\ mutex' = t ELSE Leave(t)
  /\ UNCHANGED <<cmd, got, replyVars, eventVars, statusVars, devVars, boundVars>>

RingFull_m_never == FALSE

\* The slot after the head is the tail.
RingFull == Len(cmdq) = RingSize - 1

\* The rest of it: -EBUSY, or the command is put in the ring.  The retries with
\* a full ring are the moments at which this action may be taken.
SendPut(t) ==
  /\ pc[t] = "put"
  /\ IF RingFull THEN Leave(t) /\ UNCHANGED cmdq
     ELSE /\ cmdq' = Append(cmdq, cmd[t])
          /\ IF cmd[t].id = NULL THEN Leave(t)
             ELSE Goto(t, "sent") /\ UNCHANGED mutex
  /\ UNCHANGED <<cmd, got, replyVars, eventVars, statusVars,
                 irqOn, cause, mbox, starved, fw, todo, boundVars>>

\* wmi_call says what it waits for when the command is already out.
Publish(c) ==
  /\ pc[c] = "sent"
  /\ reply_id' = cmd[c].id
  /\ reply_buf' = IF cmd[c].buf THEN c ELSE NULL
  /\ Goto(c, "wait")
  /\ UNCHANGED <<cmd, got, mutex, ready, eventVars, statusVars, devVars, boundVars>>

ClearReply_m_id_only == reply_id' = NULL /\ UNCHANGED reply_buf

ClearReply == reply_id' = NULL /\ reply_buf' = NULL

Answered(c) ==
  /\ pc[c] = "wait" /\ ready > 0
  /\ ready' = ready - 1
  /\ ClearReply /\ Leave(c)
  /\ UNCHANGED <<cmd, got, eventVars, statusVars, devVars, boundVars>>

TimeOut_m_waits_for_ever(c) == FALSE /\ UNCHANGED vars

TimeOut(c) ==
  /\ pc[c] = "wait" /\ ready = 0
  /\ late' = TRUE
  /\ ClearReply /\ Leave(c)
  /\ UNCHANGED <<cmd, got, ready, eventVars, statusVars, devVars, calls, news, resets>>

-----------------------------------------------------------------------------
(* wmi_event_worker.  Work that is queued while it runs runs once more.     *)

WorkerStart ==
  /\ pc[Worker] = "idle" /\ queued
  /\ queued' = FALSE
  /\ Goto(Worker, "take")
  /\ UNCHANGED <<cmd, got, mutex, replyVars, pending, evt, dst, statusVars, devVars, boundVars>>

\* next_wmi_ev
WorkerTake ==
  /\ pc[Worker] = "take"
  /\ IF pending = <<>> THEN Goto(Worker, "idle") /\ evt' = NULL /\ UNCHANGED pending
     ELSE /\ evt' = Head(pending) /\ pending' = Tail(pending)
          /\ Goto(Worker, "match")
  /\ dst' = NULL
  /\ UNCHANGED <<cmd, got, mutex, replyVars, queued, statusVars, devVars, boundVars>>

Awaited_m_any_event == reply_id # NULL

\* "check if someone waits for this event"
Awaited == reply_id # NULL /\ reply_id = evt.id

\* wmi_event_handle up to the handler.  wmi_evt_disconnect sends a command if a
\* station it disconnects is in use; wmi_evt_fw_ready completes wmi_ready; of the
\* others no effect is modelled.
WorkerMatch ==
  /\ pc[Worker] = "match"
  /\ IF Awaited THEN Goto(Worker, "pick") /\ UNCHANGED fwready
     ELSE CASE evt.id = "fw_ready" -> fwready' = TRUE /\ Goto(Worker, "complete")
            [] evt.id = "disconnect" -> /\ \E l \in {"lock", AfterEvent} : Goto(Worker, l)
                                        /\ UNCHANGED fwready
            [] OTHER -> Goto(Worker, AfterEvent) /\ UNCHANGED fwready
  /\ UNCHANGED <<cmd, got, mutex, replyVars, eventVars, reset_done, devVars, boundVars>>

\* The buffer is looked at after the match; without one the handler is called.
WorkerPick ==
  /\ pc[Worker] = "pick"
  /\ dst' = reply_buf
  /\ Goto(Worker, IF reply_buf = NULL THEN "complete" ELSE "copy")
  /\ UNCHANGED <<cmd, got, mutex, replyVars, pending, queued, evt, statusVars, devVars, boundVars>>

WorkerCopy ==
  /\ pc[Worker] = "copy"
  /\ got' = [got EXCEPT ![dst] = evt.n]
  /\ Goto(Worker, "complete")
  /\ UNCHANGED <<cmd, mutex, replyVars, eventVars, statusVars, devVars, boundVars>>

WorkerComplete ==
  /\ pc[Worker] = "complete"
  /\ ready' = ready + 1
  /\ Goto(Worker, AfterEvent)
  /\ UNCHANGED <<cmd, got, mutex, reply_id, reply_buf, eventVars, statusVars, devVars, boundVars>>

-----------------------------------------------------------------------------
(* wil6210_irq_misc, and the interrupt thread with wmi_recv_cmd.  The cause *)
(* is masked until the thread ends.  FW_READY is dealt with at once; after a *)
(* firmware error nothing is sent any more until the next reset.            *)

IrqMisc ==
  /\ irqOn /\ cause # {} /\ pc[Receiver] = "idle"
  /\ cause' = {}
  /\ reset_done' = (reset_done \/ "FW_READY" \in cause)
  /\ fwready' = (fwready /\ "FW_ERROR" \notin cause)
  /\ Goto(Receiver, CASE "MBOX" \in cause     -> "start"
                      [] cause = {"FW_READY"} -> "idle"
                      [] OTHER                -> "notify")
  /\ UNCHANGED <<cmd, got, mutex, replyVars, eventVars,
                 irqOn, cmdq, mbox, starved, fw, todo, boundVars>>

\* A firmware error alone: wil_notify_fw_error tells user space.
ReceiverNotify ==
  /\ pc[Receiver] = "notify"
  /\ Goto(Receiver, "idle")
  /\ UNCHANGED <<cmd, got, mutex, replyVars, eventVars, statusVars, devVars, boundVars>>

ReceiverStart ==
  /\ pc[Receiver] = "start"
  /\ Goto(Receiver, IF reset_done THEN "loop" ELSE "idle")
  /\ UNCHANGED <<cmd, got, mutex, replyVars, eventVars, statusVars, devVars, boundVars>>

AfterReceive_m_stops == "idle"

\* wmi_recv_cmd looks for another event.
AfterReceive == "loop"

\* One iteration: the ring is empty; or there is no memory for the event, which
\* stays there; or it is taken.
ReceiverLoop ==
  /\ pc[Receiver] = "loop"
  /\ \/ /\ starved' = (mbox # <<>> /\ "MBOX" \notin cause)
        /\ Goto(Receiver, "idle")
        /\ UNCHANGED <<mbox, pending, queued>>
     \/ /\ mbox # <<>>
        /\ mbox' = Tail(mbox)
        /\ pending' = Append(pending, Head(mbox))
        /\ queued' = TRUE
        /\ Goto(Receiver, AfterReceive)
        /\ UNCHANGED starved
  /\ UNCHANGED <<cmd, got, mutex, replyVars, evt, dst, statusVars,
                 irqOn, cause, cmdq, fw, todo, boundVars>>

-----------------------------------------------------------------------------
(* wil_reset.  Its disconnect of all stations sends nothing (see StaRings). *)

ResetBegin ==
  /\ pc[Resetter] = "idle" /\ resets < MaxResets
  /\ Exclusive => \A c \in Callers : pc[c] = "idle"
  /\ resets' = resets + 1
  /\ irqOn' = FALSE
  /\ fwready' = FALSE /\ reset_done' = FALSE
  /\ Goto(Resetter, "flush")
  /\ UNCHANGED <<cmd, got, mutex, replyVars, eventVars,
                 cause, cmdq, mbox, starved, fw, todo, late, calls, news>>

\* wmi_event_flush
ResetFlush ==
  /\ pc[Resetter] = "flush"
  /\ pending' = <<>>
  /\ Goto(Resetter, "drain")
  /\ UNCHANGED <<cmd, got, mutex, replyVars, queued, evt, dst, statusVars, devVars, boundVars>>

\* flush_workqueue(wil->wmi_wq)
ResetDrained ==
  /\ pc[Resetter] = "drain"
  /\ pc[Worker] = "idle" /\ ~queued
  /\ Goto(Resetter, "target")
  /\ UNCHANGED <<cmd, got, mutex, replyVars, eventVars, statusVars, devVars, boundVars>>

\* wil_target_reset: the device forgets everything and starts anew.
ResetTarget ==
  /\ pc[Resetter] = "target"
  /\ cmdq' = <<>> /\ mbox' = <<>> /\ cause' = {} /\ todo' = {} /\ fw' = "boot"
  /\ starved' = FALSE
  /\ Goto(Resetter, "init")
  /\ UNCHANGED <<cmd, got, mutex, replyVars, eventVars, statusVars, irqOn, boundVars>>

\* INIT_COMPLETION and wil6210_enable_irq.  An interrupt thread that
\* was on its way when the reset began may have left an event of the time before.
ResetInit_m_keeps_completion ==
  /\ pc[Resetter] = "init"
  /\ irqOn' = TRUE
  /\ late' = (pending # <<>> \/ queued \/ \E t \in {Worker, Receiver} : pc[t] # "idle")
  /\ Goto(Resetter, "wait")
  /\ UNCHANGED <<cmd, got, mutex, replyVars, eventVars, statusVars,
                 cause, cmdq, mbox, starved, fw, todo, calls, news, resets>>

ResetInit ==
  /\ pc[Resetter] = "init"
  /\ ready' = 0
  /\ irqOn' = TRUE
  /\ late' = (pending # <<>> \/ queued \/ \E t \in {Worker, Receiver} : pc[t] # "idle")
  /\ Goto(Resetter, "wait")
  /\ UNCHANGED <<cmd, got, mutex, reply_id, reply_buf, eventVars, statusVars,
                 cause, cmdq, mbox, starved, fw, todo, calls, news, resets>>

\* wil_wait_for_fw_ready: the wait ends, or times out.
ResetEnd ==
  /\ pc[Resetter] = "wait"
  /\ IF ready > 0 THEN ready' = ready - 1 /\ UNCHANGED late
                  ELSE late' = TRUE /\ UNCHANGED ready
  /\ Goto(Resetter, "idle")
  /\ UNCHANGED <<cmd, got, mutex, reply_id, reply_buf, eventVars, statusVars,
                 devVars, calls, news, resets>>

-----------------------------------------------------------------------------
(* The firmware.  It may be slow or never answer.                           *)

\* An event, and the causes that are raised with it.
Post(e, causes) ==
  /\ mbox' = Append(mbox, e)
  /\ cause' = cause \cup causes
  /\ starved' = FALSE

FwBoot ==
  /\ fw = "boot"
  /\ fw' = "up"
  /\ Post([id |-> "fw_ready", n |-> 0], {"FW_READY", "MBOX"})
  /\ UNCHANGED <<threadVars, replyVars, eventVars, statusVars, irqOn, cmdq, todo, boundVars>>

FwTake ==
  /\ fw = "up" /\ cmdq # <<>>
  /\ cmdq' = Tail(cmdq)
  /\ todo' = todo \cup {c \in {Head(cmdq)} : c.id # NULL}
  /\ UNCHANGED <<threadVars, replyVars, eventVars, statusVars, irqOn, cause, mbox, starved, fw, boundVars>>

FwReply ==
  /\ fw = "up"
  /\ \E c \in todo : todo' = todo \ {c} /\ Post([id |-> c.id, n |-> c.n], {"MBOX"})
  /\ UNCHANGED <<threadVars, replyVars, eventVars, statusVars, irqOn, cmdq, fw, boundVars>>

FwNews ==
  /\ fw = "up" /\ news < MaxNews
  /\ news' = news + 1
  /\ Post([id |-> "disconnect", n |-> 0], {"MBOX"})
  /\ UNCHANGED <<threadVars, replyVars, eventVars, statusVars, irqOn, cmdq, fw, todo,
                 late, calls, resets>>

\* An error is reported; whether the firmware goes on is left open.
FwError ==
  /\ fw = "up" /\ news < MaxNews
  /\ news' = news + 1
  /\ cause' = cause \cup {"FW_ERROR"}
  /\ UNCHANGED <<threadVars, replyVars, eventVars, statusVars, irqOn, cmdq, mbox, starved,
                 fw, todo, late, calls, resets>>

-----------------------------------------------------------------------------
CallStep(c) == Publish(c) \/ Answered(c) \/ TimeOut(c)

SendStep(t) == SendCheck(t) \/ SendPut(t)

WorkerStep ==
  WorkerStart \/ WorkerTake \/ WorkerMatch \/ WorkerPick \/ WorkerCopy \/ WorkerComplete

ReceiverStep == IrqMisc \/ ReceiverNotify \/ ReceiverStart \/ ReceiverLoop

ResetStep == ResetFlush \/ ResetDrained \/ ResetTarget \/ ResetInit \/ ResetEnd

FwStep == FwBoot \/ FwTake \/ FwReply \/ FwNews \/ FwError

Next ==
  \/ \E c \in Callers : Begin(c) \/ CallStep(c)
  \/ \E t \in Callers \cup {Worker} : SendStep(t)
  \/ WorkerStep \/ ReceiverStep
  \/ ResetBegin \/ ResetStep
  \/ FwStep

Spec == Init /\ [][Next]_vars

\* Threads that can go on do, interrupts are delivered, and time passes, so that
\* a wait with a time-out ends.  Nothing is asked of the firmware.
Fairness ==
  /\ \A c \in Callers : WF_vars(CallStep(c))
  /\ \A t \in Callers \cup {Worker} : WF_vars(SendStep(t))
  /\ WF_vars(WorkerStep) /\ WF_vars(ReceiverStep) /\ WF_vars(ResetStep)

FairSpec == Spec /\ Fairness

-----------------------------------------------------------------------------
(* The types of the variables, and that neither ring overruns its tail: the
   command ring of __wmi_send always has a free entry.                      *)
TypeOK ==
  /\ pc \in [Threads -> {"idle", "lock", "put", "sent", "wait", "take", "match", "pick",
                         "copy", "complete", "start", "notify", "loop", "flush", "drain", "target", "init"}]
  /\ cmd \in [Callers \cup {Worker} -> Commands]
  /\ got \in [Callers -> 0..MaxCalls]
  /\ mutex \in Callers \cup {Worker, NULL}
  /\ fwready \in BOOLEAN /\ reset_done \in BOOLEAN
  /\ reply_id \in EventIds \cup {NULL} /\ reply_buf \in Callers \cup {NULL}
  /\ ready \in Nat
  /\ pending \in Seq([id : EventIds, n : 0..MaxCalls]) /\ queued \in BOOLEAN
  /\ evt \in [id : EventIds, n : 0..MaxCalls] \cup {NULL} /\ dst \in Callers \cup {NULL}
  /\ irqOn \in BOOLEAN /\ cause \subseteq {"FW_READY", "MBOX", "FW_ERROR"}
  /\ cmdq \in Seq(Commands) /\ Len(cmdq) < RingSize
  /\ mbox \in Seq([id : EventIds, n : 0..MaxCalls]) /\ starved \in BOOLEAN
  /\ fw \in {"boot", "up"} /\ todo \subseteq Commands /\ late \in BOOLEAN
  /\ calls \in 0..MaxCalls /\ news \in 0..MaxNews /\ resets \in 0..MaxResets

(* wil->reply_id and reply_buf are those of the one call that waits: whatever
   happened to the calls before it, no call leaves them behind when it gives up
   the mutex (wmi.c:787 and 802).                                           *)
ReplySlotOwned ==
  /\ reply_id # NULL => /\ mutex \in Callers /\ pc[mutex] = "wait"
                        /\ cmd[mutex].id = reply_id
  /\ reply_buf # NULL => mutex = reply_buf

(* A call that returns 0 has the reply to its own command in its buffer, not
   that to an earlier one and not nothing.  It holds until a wait has timed out,
   and again after a reset, which takes a left-over completion back
   (main.c:358), unless an interrupt thread was at work when it began.      *)
OwnReply ==
  [][\A c \in Callers :
       Answered(c) /\ ~late /\ cmd[c].buf => got[c] = cmd[c].n]_vars

(* Every call returns and every reset ends, whatever the firmware does: the
   worker waits for wmi_mutex in wmi_evt_disconnect while the owner of the mutex
   waits for the worker to handle its reply, and the time-out of the wait
   (wmi.c:790) is what ends it.                                             *)
CallsReturn ==
  /\ \A c \in Callers : pc[c] # "idle" ~> pc[c] = "idle"
  /\ pc[Resetter] # "idle" ~> pc[Resetter] = "idle"

(* No event stays unseen with interrupt thread and worker asleep: they go on
   until nothing is left, and an event that comes meanwhile raises the interrupt
   and queues the work again.  Only a failed kmalloc leaves events in the mailbox
   (wmi.c:735), and then until the next interrupt, with which the thread takes
   all of them.                                                             *)
EventsHandled ==
  /\ pending # <<>> ~> pending = <<>>
  /\ mbox # <<>> /\ ~starved ~> mbox = <<>> \/ starved

(* Every event is taken from the mailbox.                                   *)
EventsTaken ==
  mbox # <<>> ~> mbox = <<>>

(* A reply is copied to a caller that waits for one: "check if someone waits for
   this event" (wmi.c:1353).                                                *)
CopyToWaiter ==
  [][\A c \in Callers : got'[c] # got[c] /\ got'[c] # 0 => pc[c] = "wait"]_vars

(* A reset succeeds only when the firmware it started has said that it is ready:
   "we just started MAC, wait for FW ready" (main.c:363).                   *)
ResetTrue ==
  [][ResetEnd /\ ready > 0 => fw = "up"]_vars

(* The worker does not wait for the mutex of a call whose reply is behind it in
   wil->pending_wmi_ev: "Purpose for this mechanism is to release IRQ thread;
   otherwise, if WMI event handling involves another WMI command flow, this 2-nd
   flow won't be completed because of blocked IRQ thread" (wmi.c:36).       *)
NoCircularWait ==
  pc[Worker] = "lock" /\ mutex # NULL =>
    \A i \in 1..Len(pending) : pending[i].n # cmd[mutex].n

=============================================================================
