-------------------------- MODULE WmiCall_proofs ---------------------------
(***************************************************************************)
(* Proofs about WmiCall, for any number of callers, any commands, and any  *)
(* number of calls, events and resets.                                     *)
(*                                                                         *)
(* ReplySlotOwned is not inductive: that a call clears reply_id and        *)
(* reply_buf before another sets them depends on who holds wmi_mutex where *)
(* (Owned), and on the worker, which takes the mutex too, never waiting    *)
(* for a reply (WorkerSends).                                              *)
(*                                                                         *)
(* OwnReply needs to know where the one completion is that somebody waits  *)
(* for: a command in the ring, a task of the firmware, an event in the     *)
(* mailbox, in the list or with the worker, or a count in wmi_ready; there *)
(* is no second one until a wait times out (OneCompletion).                *)
(***************************************************************************)
EXTENDS WmiCall, TLAPS

Sender == Callers \cup {Worker}

EventType == [id : EventIds, n : 0..MaxCalls]

\* The owner of the mutex, and no other thread, is between mutex_lock and
\* mutex_unlock.
Owned == \A t \in Sender : pc[t] \in {"put", "sent", "wait"} <=> mutex = t

\* The worker sends by wmi_send.
WorkerSends == cmd[Worker] = DisconnectSta /\ pc[Worker] \notin {"sent", "wait"}

\* What a call is waiting for is its own.
Slot ==
  /\ reply_id # NULL => /\ mutex \in Callers /\ pc[mutex] = "wait"
                        /\ cmd[mutex].id = reply_id
  /\ reply_buf # NULL => mutex = reply_buf /\ pc[reply_buf] = "wait"

\* The worker has an event while it handles one, and a buffer to copy it to; the
\* firmware answers commands that somebody waits for.
Handling ==
  /\ pc[Worker] \in {"match", "pick", "copy", "complete"} => evt \in EventType
  /\ pc[Worker] = "copy" => dst \in Callers
  /\ \A c \in todo : c.id # NULL

Labels == {"idle", "lock", "put", "sent", "wait", "take", "match", "pick",
           "copy", "complete", "start", "notify", "loop", "flush", "drain", "target", "init"}

IInv == TypeOK /\ Owned /\ WorkerSends /\ Slot /\ Handling

-----------------------------------------------------------------------------
\* At the start nobody calls and nothing waits.
LEMMA InitInv == Init => IInv
<1> SUFFICES ASSUME Init PROVE IInv
  OBVIOUS
<1> USE DEF Init, Threads, Sender, Worker, Receiver, Resetter
<1>1. TypeOK
  <2>1. pc \in [Threads -> Labels]
    BY DEF Labels
  <2>2. cmd \in [Callers \cup {Worker} -> Commands]
    BY DEF Commands
  <2>3. got \in [Callers -> 0..MaxCalls]
    BY BoundAssumption
  <2>4. /\ pending \in Seq(EventType) /\ mbox \in Seq(EventType)
        /\ cmdq \in Seq(Commands) /\ Len(cmdq) < RingSize
    BY RingAssumption
  <2>5. calls \in 0..MaxCalls /\ news \in 0..MaxNews /\ resets \in 0..MaxResets
    BY BoundAssumption
  <2>6. /\ reply_id \in EventIds \cup {NULL} /\ reply_buf \in Callers \cup {NULL}
        /\ evt \in EventType \cup {NULL} /\ dst \in Callers \cup {NULL}
        /\ mutex \in Callers \cup {Worker, NULL} /\ ready \in Nat
        /\ cause \subseteq {"FW_READY", "MBOX", "FW_ERROR"} /\ starved \in BOOLEAN /\ todo \subseteq Commands
        /\ fw \in {"boot", "up"}
    OBVIOUS
  <2>7. QED
    BY <2>1, <2>2, <2>3, <2>4, <2>5, <2>6, Zenon DEF TypeOK, Labels, EventType
<1>2. Owned
  BY CallersAssumption DEF Owned
<1>3. QED
  BY <1>1, <1>2, CallersAssumption DEF IInv, WorkerSends, Slot, Handling

-----------------------------------------------------------------------------
(* Every action of Next preserves IInv. *)

\* A thread that goes on is where a thread may be.
LEMMA PcType ==
  ASSUME TypeOK, NEW t, NEW l \in Labels, pc' = [pc EXCEPT ![t] = l]
  PROVE  pc' \in [Threads -> Labels]
<1>1. pc \in [Threads -> Labels]
  BY DEF TypeOK, Labels
<1>2. QED
  BY <1>1

\* The same of a thread that gives up the mutex.
LEMMA LeaveType ==
  ASSUME TypeOK, NEW t, Leave(t)
  PROVE  pc' \in [Threads -> Labels] /\ mutex' = NULL
<1>1. PICK l \in {"idle", "take"} : pc' = [pc EXCEPT ![t] = l]
  BY DEF Leave, Goto, AfterEvent
<1>2. l \in Labels
  BY DEF Labels
<1>3. QED
  BY <1>1, <1>2, PcType DEF Leave

\* A thread that calls takes nothing yet.
LEMMA BeginPreserves ==
  ASSUME IInv, NEW c \in Callers, Begin(c)
  PROVE  IInv'
<1> USE DEF IInv, Begin, Goto, replyVars, eventVars, statusVars, devVars
<1>1. PICK k \in Kinds : cmd' = [cmd EXCEPT ![c] = [id |-> k.id, buf |-> k.buf, n |-> calls + 1]]
  OBVIOUS
<1>2. [id |-> k.id, buf |-> k.buf, n |-> calls + 1] \in Commands
  BY BoundAssumption DEF Commands, TypeOK
<1>3. TypeOK'
  BY <1>1, <1>2, BoundAssumption DEF TypeOK, Threads
<1>4. Owned'
  BY CallersAssumption DEF TypeOK, Owned, Sender, Threads
<1>5. WorkerSends' /\ Slot' /\ Handling'
  BY <1>1, CallersAssumption DEF TypeOK, Owned, WorkerSends, Slot, Handling, Sender, Threads
<1>6. QED
  BY <1>3, <1>4, <1>5

\* A thread that does not hold the mutex, or gives it up, leaves the rest as
\* it was.
LEMMA LeaveOwned ==
  ASSUME TypeOK, Owned, NEW t \in Sender, mutex \in {t, NULL}, Leave(t)
  PROVE  Owned'
BY CallersAssumption
DEF TypeOK, Owned, Leave, Goto, AfterEvent, Sender, Threads, Worker, Receiver, Resetter

\* __wmi_send under wmi_mutex: the command enters the ring if there is room, and on
\* any error the mutex is given up with no reply awaited.
LEMMA SendPreserves ==
  ASSUME IInv, NEW t \in Sender, SendStep(t)
  PROVE  IInv'
<1> USE DEF IInv, replyVars, eventVars, statusVars, devVars, boundVars
<1>1. t \in Threads /\ Worker \in Threads /\ NULL \notin Threads /\ Sender \subseteq Threads
  BY CallersAssumption DEF Sender, Threads
<1>2. CASE SendCheck(t)
  <2>1. CASE fwready
    <3>1. pc' = [pc EXCEPT ![t] = "put"] /\ mutex' = t /\ pc[t] = "lock" /\ mutex = NULL
      BY <1>2, <2>1 DEF SendCheck, Goto
    <3>2. TypeOK'
      <4>1. pc' \in [Threads -> Labels]
        BY <3>1, PcType DEF Labels
      <4>2. QED
        BY <1>2, <3>1, <4>1 DEF SendCheck, TypeOK, Sender, Labels
    <3>3. Owned'
      BY <1>1, <3>1 DEF TypeOK, Owned
    <3>4. reply_id = NULL /\ reply_buf = NULL
      BY <1>1, <3>1 DEF Slot, TypeOK, Threads
    <3>5. /\ UNCHANGED <<cmd, evt, dst, todo>> /\ reply_id' = NULL /\ reply_buf' = NULL
          /\ pc'[Worker] \in {pc[Worker], "put"}
      BY <1>1, <1>2, <3>1, <3>4 DEF SendCheck, TypeOK
    <3>7. WorkerSends' /\ Slot' /\ Handling'
      BY <3>5 DEF WorkerSends, Slot, Handling
    <3>6. QED
      BY <3>2, <3>3, <3>7
  <2>2. CASE ~fwready
    <3>1. Leave(t) /\ pc[t] = "lock" /\ mutex = NULL
      BY <1>2, <2>2 DEF SendCheck
    <3>2. TypeOK'
      <4>1. pc' \in [Threads -> Labels] /\ mutex' = NULL
        BY <3>1, LeaveType
      <4>2. QED
        BY <1>2, <4>1 DEF SendCheck, TypeOK, Labels
    <3>3. reply_id = NULL /\ reply_buf = NULL
      BY <1>1, <3>1 DEF Slot, TypeOK, Threads
    <3>4. /\ UNCHANGED <<cmd, evt, dst, todo>> /\ reply_id' = NULL /\ reply_buf' = NULL
          /\ pc'[Worker] \in {pc[Worker], "take"}
      BY <1>1, <1>2, <3>1, <3>3 DEF SendCheck, Leave, Goto, AfterEvent, TypeOK
    <3>5. WorkerSends' /\ Slot' /\ Handling'
      BY <3>4 DEF WorkerSends, Slot, Handling
    <3>6. QED
      BY <3>1, <3>2, <3>5, LeaveOwned
  <2>3. QED
    BY <2>1, <2>2
<1>3. CASE SendPut(t)
  <2>0. cmd[t] \in Commands /\ mutex = t
    BY <1>3 DEF SendPut, TypeOK, Owned, Sender
  <2>1. CASE Leave(t) /\ cmdq' \in Seq(Commands) /\ Len(cmdq') < RingSize
    <3>1. TypeOK'
      <4>1. pc' \in [Threads -> Labels] /\ mutex' = NULL
        BY <2>1, LeaveType
      <4>2. QED
        BY <1>3, <2>1, <4>1 DEF SendPut, TypeOK, Labels
    <3>2. pc[t] = "put"
      BY <1>3 DEF SendPut
    <3>3. QED
      BY <1>1, <1>3, <2>0, <2>1, <3>1, <3>2, LeaveOwned
      DEF SendPut, Leave, Goto, AfterEvent, TypeOK, WorkerSends, Slot, Handling
  <2>2. CASE ~RingFull
    <3>1. cmdq' = Append(cmdq, cmd[t]) /\ cmdq' \in Seq(Commands)
      <4>1. cmdq' = Append(cmdq, cmd[t])
        BY <1>3, <2>2 DEF SendPut
      <4>2. cmdq \in Seq(Commands)
        BY DEF TypeOK
      <4>3. QED
        BY <2>0, <4>1, <4>2
    <3>2. Len(cmdq') < RingSize
      BY <3>1, <2>2, RingAssumption DEF RingFull, TypeOK
    <3>3. CASE cmd[t].id = NULL
      BY <1>3, <2>1, <2>2, <3>1, <3>2, <3>3 DEF SendPut
    <3>4. CASE cmd[t].id # NULL
      <4>1. t # Worker
        BY <3>4 DEF WorkerSends, DisconnectSta
      <4>2. pc' = [pc EXCEPT ![t] = "sent"] /\ mutex' = mutex /\ pc[t] = "put"
        BY <1>3, <2>2, <3>4 DEF SendPut, Goto
      <4>3. TypeOK'
        <5>1. pc' \in [Threads -> Labels]
          BY <4>2, PcType DEF Labels
        <5>2. QED
          BY <1>3, <4>2, <3>1, <3>2, <5>1 DEF SendPut, TypeOK, Labels
      <4>4. Owned'
        BY <1>1, <2>0, <4>2 DEF TypeOK, Owned
      <4>5. QED
        BY <1>1, <1>3, <2>0, <4>1, <4>2, <4>3, <4>4
        DEF SendPut, TypeOK, WorkerSends, Slot, Handling
    <3>5. QED
      BY <3>3, <3>4
  <2>3. CASE RingFull
    BY <1>3, <2>1, <2>3 DEF SendPut, TypeOK
  <2>4. QED
    BY <2>2, <2>3
<1>4. QED
  BY <1>2, <1>3 DEF SendStep

\* wmi_call publishes what it waits for and clears it before it gives up the mutex.
LEMMA CallPreserves ==
  ASSUME IInv, NEW c \in Callers, CallStep(c)
  PROVE  IInv'
<1> USE DEF IInv, eventVars, statusVars, devVars
<1>1. /\ c \in Threads /\ c \in Sender /\ c # Worker /\ NULL \notin Threads
      /\ Worker \in Threads /\ Sender \subseteq Threads
  BY CallersAssumption DEF Sender, Threads
<1>2. CASE Publish(c)
  <2>1. cmd[c] \in Commands /\ mutex = c
    BY <1>1, <1>2 DEF Publish, TypeOK, Owned
  <2>2. cmd[c].id \in EventIds \cup {NULL}
    BY <2>1 DEF Commands, EventIds, DisconnectSta
  <2>3. TypeOK'
    <3>1. pc' \in [Threads -> Labels]
      BY <1>2, PcType DEF Publish, Goto, Labels
    <3>2. QED
      BY <1>2, <2>2, <3>1 DEF Publish, TypeOK, boundVars, Labels
  <2>4. Owned'
    BY <1>1, <1>2, <2>1 DEF Publish, Goto, TypeOK, Owned
  <2>5. QED
    BY <1>1, <1>2, <2>1, <2>3, <2>4
    DEF Publish, Goto, TypeOK, WorkerSends, Slot, Handling
<1>3. ASSUME pc[c] = "wait", Leave(c), ClearReply, ready' \in Nat, late' \in BOOLEAN,
             UNCHANGED <<cmd, got, eventVars, statusVars, devVars, calls, news, resets>>
      PROVE  IInv'
  <2>1. mutex = c
    BY <1>1, <1>3 DEF Owned
  <2>2. TypeOK'
    <3>1. pc' \in [Threads -> Labels] /\ mutex' = NULL
      BY <1>3, LeaveType
    <3>2. QED
      BY <1>3, <3>1 DEF ClearReply, TypeOK, Labels
  <2>3. Owned'
    BY <1>1, <1>3, <2>1, LeaveOwned
  <2>4. pc'[Worker] = pc[Worker]
    BY <1>1, <1>3 DEF Leave, Goto, TypeOK
  <2>5. WorkerSends' /\ Slot' /\ Handling'
    BY <1>3, <2>4 DEF ClearReply, WorkerSends, Slot, Handling
  <2>6. QED
    BY <2>2, <2>3, <2>5
<1>4. CASE Answered(c)
  BY <1>3, <1>4 DEF Answered, TypeOK, boundVars
<1>5. CASE TimeOut(c)
  BY <1>3, <1>5 DEF TimeOut, TypeOK
<1>6. QED
  BY <1>2, <1>4, <1>5 DEF CallStep

\* A step of the worker that leaves the mutex and the commands alone.
LEMMA WorkerPreserves ==
  ASSUME IInv, WorkerStep
  PROVE  IInv'
<1> USE DEF IInv, replyVars, statusVars, devVars, boundVars
<1>1. /\ Worker \in Threads /\ Worker \in Sender /\ Worker \notin Callers
      /\ NULL \notin Threads /\ Sender \subseteq Threads
  BY CallersAssumption DEF Sender, Threads
<1>2. ASSUME NEW l \in {"idle", "lock", "take", "match", "pick", "copy", "complete"},
             pc' = [pc EXCEPT ![Worker] = l],
             pc[Worker] \in {"idle", "take", "match", "pick", "copy", "complete"},
             UNCHANGED <<mutex, cmd, reply_id, reply_buf, cmdq, mbox, todo>>,
             l \in {"match", "pick", "copy", "complete"} => evt' \in EventType,
             l = "copy" => dst' \in Callers,
             TypeOK'
      PROVE  IInv'
  <2>0. pc \in [Threads -> Labels] /\ pc'[Worker] = l
        /\ \A t \in Threads \ {Worker} : pc'[t] = pc[t]
    BY <1>1, <1>2 DEF TypeOK, Labels
  <2>1. Owned'
    BY <1>1, <1>2, <2>0 DEF Owned
  <2>2. WorkerSends' /\ Handling'
    BY <1>2, <2>0 DEF WorkerSends, Handling
  <2>3. Slot'
    <3>1. mutex # Worker /\ reply_buf # Worker
      BY <1>1, <1>2 DEF TypeOK, Owned
    <3>2. \A t \in Callers : pc'[t] = pc[t]
      BY <1>1, <2>0 DEF Threads
    <3>3. mutex # NULL => mutex \in Callers
      BY <3>1 DEF TypeOK
    <3>4. reply_buf # NULL => reply_buf \in Callers
      BY DEF TypeOK
    <3>5. QED
      BY <1>2, <3>2, <3>3, <3>4 DEF Slot
  <2>4. QED
    BY <1>2, <2>1, <2>2, <2>3
<1>3. CASE WorkerStart
  <2>1. TypeOK'
    <3>1. pc' \in [Threads -> Labels]
      BY <1>3, PcType DEF WorkerStart, Goto, Labels
    <3>2. queued' \in BOOLEAN
      BY <1>3 DEF WorkerStart
    <3>3. QED
      BY <1>3, <3>1, <3>2 DEF WorkerStart, TypeOK, Labels
  <2>2. QED
    BY <1>2, <1>3, <2>1 DEF WorkerStart, Goto
<1>4. CASE WorkerTake
  <2>1. CASE pending = <<>>
    <3>1. TypeOK'
      <4>1. pc' \in [Threads -> Labels]
        BY <1>4, <2>1, PcType DEF WorkerTake, Goto, Labels
      <4>2. QED
        BY <1>4, <2>1, <4>1 DEF WorkerTake, TypeOK, Labels
    <3>2. QED
      BY <1>2, <1>4, <2>1, <3>1 DEF WorkerTake, Goto
  <2>2. CASE pending # <<>>
    <3>1. pending \in Seq(EventType)
      BY DEF TypeOK, EventType
    <3>2. evt' \in EventType /\ pending' \in Seq(EventType)
      BY <1>4, <2>2, <3>1 DEF WorkerTake
    <3>3. TypeOK'
      <4>1. pc' \in [Threads -> Labels]
        BY <1>4, <2>2, PcType DEF WorkerTake, Goto, Labels
      <4>2. QED
        BY <1>4, <2>2, <3>2, <4>1 DEF WorkerTake, TypeOK, EventType, Labels
    <3>4. QED
      BY <1>2, <1>4, <2>2, <3>2, <3>3 DEF WorkerTake, Goto
  <2>3. QED
    BY <2>1, <2>2
<1>5. CASE WorkerMatch
  <2>1. evt \in EventType
    BY <1>5 DEF WorkerMatch, Handling
  <2>2. PICK l \in {"pick", "complete", "lock", "take"} :
          pc' = [pc EXCEPT ![Worker] = l] /\ fwready' \in BOOLEAN
    BY <1>5 DEF WorkerMatch, Goto, AfterEvent, TypeOK
  <2>3. TypeOK'
    <3>1. pc' \in [Threads -> Labels]
      BY <1>1, <2>2 DEF TypeOK, Labels
    <3>2. QED
      BY <1>5, <2>2, <3>1 DEF WorkerMatch, eventVars, TypeOK, Labels
  <2>4. QED
    BY <1>2, <1>5, <2>1, <2>2, <2>3 DEF WorkerMatch, eventVars
<1>6. CASE WorkerPick
  <2>1. evt \in EventType /\ (reply_buf # NULL => reply_buf \in Callers)
    BY <1>6 DEF WorkerPick, Handling, TypeOK
  <2>2. TypeOK'
    <3>1. pc' \in [Threads -> Labels]
      <4>1. PICK l \in {"complete", "copy"} : pc' = [pc EXCEPT ![Worker] = l]
        BY <1>6 DEF WorkerPick, Goto
      <4>2. QED
        BY <4>1, PcType DEF Labels
    <3>2. QED
      BY <1>6, <3>1 DEF WorkerPick, TypeOK, Labels
  <2>3. QED
    BY <1>2, <1>6, <2>1, <2>2 DEF WorkerPick, Goto
<1>7. CASE WorkerCopy
  <2>1. evt \in EventType /\ dst \in Callers
    BY <1>7 DEF WorkerCopy, Handling
  <2>2. TypeOK'
    <3>1. evt.n \in 0..MaxCalls
      BY <2>1 DEF EventType
    <3>2. got' \in [Callers -> 0..MaxCalls]
      BY <1>7, <2>1, <3>1 DEF WorkerCopy, TypeOK
    <3>3. pc' \in [Threads -> Labels]
      BY <1>1, <1>7 DEF WorkerCopy, Goto, TypeOK, Labels
    <3>4. QED
      BY <1>7, <3>2, <3>3 DEF WorkerCopy, eventVars, TypeOK, Labels
  <2>3. QED
    BY <1>2, <1>7, <2>1, <2>2 DEF WorkerCopy, Goto, eventVars
<1>8. CASE WorkerComplete
  <2>1. TypeOK'
    <3>1. pc' \in [Threads -> Labels] /\ ready' \in Nat
      BY <1>1, <1>8 DEF WorkerComplete, Goto, AfterEvent, TypeOK, Labels
    <3>2. QED
      BY <1>8, <3>1 DEF WorkerComplete, eventVars, TypeOK, Labels
  <2>2. QED
    BY <1>2, <1>8, <2>1 DEF WorkerComplete, Goto, AfterEvent, eventVars
<1>9. QED
  BY <1>3, <1>4, <1>5, <1>6, <1>7, <1>8 DEF WorkerStep

\* A step of a thread that sends no commands, or of the firmware.
LEMMA OtherPreserves ==
  ASSUME IInv, ReceiverStep \/ ResetBegin \/ ResetStep \/ FwStep
  PROVE  IInv'
<1> USE DEF IInv
<1>1. /\ Receiver \in Threads \ Sender /\ Resetter \in Threads \ Sender
      /\ Worker \in Sender /\ Callers \subseteq Sender /\ Sender \subseteq Threads
      /\ NULL \notin Threads
  BY CallersAssumption DEF Sender, Threads, Worker, Receiver, Resetter
<1>2. ASSUME UNCHANGED <<mutex, cmd, reply_id, reply_buf, evt, dst>>,
             \A t \in Sender : pc'[t] = pc[t],
             \A c \in todo' : c.id # NULL,
             TypeOK'
      PROVE  IInv'
  <2>1. Owned'
    BY <1>2 DEF Owned
  <2>2. WorkerSends' /\ Handling'
    BY <1>1, <1>2 DEF WorkerSends, Handling
  <2>3. Slot'
    BY <1>1, <1>2 DEF TypeOK, Slot
  <2>4. QED
    BY <1>2, <2>1, <2>2, <2>3
<1>3. ASSUME NEW t \in {Receiver, Resetter}, NEW l \in Labels, pc' = [pc EXCEPT ![t] = l]
      PROVE  pc' \in [Threads -> Labels] /\ \A s \in Sender : pc'[s] = pc[s]
  BY <1>1, <1>3 DEF TypeOK, Labels
<1>4. pc \in [Threads -> Labels] /\ \A c \in todo : c.id # NULL
  BY DEF TypeOK, Labels, Handling
<1>5. ASSUME ReceiverStep PROVE IInv'
  <2> USE DEF replyVars, statusVars, devVars, boundVars, eventVars
  <2>1. CASE IrqMisc
    <3>1. pc' \in [Threads -> Labels] /\ \A s \in Sender : pc'[s] = pc[s]
      <4>1. \E l \in {"start", "idle", "notify"} : pc' = [pc EXCEPT ![Receiver] = l]
        BY <2>1 DEF IrqMisc, Goto
      <4>2. QED
        BY <1>3, <4>1 DEF Labels
    <3>2. TypeOK'
      BY <2>1, <3>1 DEF IrqMisc, TypeOK, Labels
    <3>3. QED
      BY <1>2, <1>4, <2>1, <3>1, <3>2 DEF IrqMisc
  <2>2. CASE ReceiverStart
    <3>1. pc' \in [Threads -> Labels] /\ \A s \in Sender : pc'[s] = pc[s]
      BY <1>3, <1>4, <2>2 DEF ReceiverStart, Goto, Labels
    <3>2. TypeOK'
      BY <2>2, <3>1 DEF ReceiverStart, TypeOK, Labels
    <3>3. QED
      BY <1>2, <1>4, <2>2, <3>1, <3>2 DEF ReceiverStart
  <2>5. CASE ReceiverNotify
    <3>1. pc' \in [Threads -> Labels] /\ \A s \in Sender : pc'[s] = pc[s]
      BY <1>3, <1>4, <2>5 DEF ReceiverNotify, Goto, Labels
    <3>2. TypeOK'
      BY <2>5, <3>1 DEF ReceiverNotify, TypeOK, Labels
    <3>3. QED
      BY <1>2, <1>4, <2>5, <3>1, <3>2 DEF ReceiverNotify
  <2>3. CASE ReceiverLoop
    <3>1. pc' \in [Threads -> Labels] /\ \A s \in Sender : pc'[s] = pc[s]
      BY <1>3, <1>4, <2>3 DEF ReceiverLoop, Goto, AfterReceive, Labels
    <3>2. mbox \in Seq(EventType) /\ pending \in Seq(EventType)
      BY DEF TypeOK, EventType
    <3>3. mbox' \in Seq(EventType) /\ pending' \in Seq(EventType) /\ queued' \in BOOLEAN
      <4>1. CASE UNCHANGED <<mbox, pending, queued>>
        BY <4>1, <3>2 DEF TypeOK
      <4>2. CASE /\ mbox # <<>> /\ mbox' = Tail(mbox) /\ queued' = TRUE
                 /\ pending' = Append(pending, Head(mbox))
        BY <4>2, <3>2
      <4>3. QED
        BY <2>3, <4>1, <4>2 DEF ReceiverLoop
    <3>4. TypeOK'
      <4>1. starved' \in BOOLEAN
        BY <2>3, Zenon DEF ReceiverLoop, TypeOK
      <4>2. QED
        BY <2>3, <3>1, <3>3, <4>1 DEF ReceiverLoop, TypeOK, Labels, EventType
    <3>5. QED
      BY <1>2, <1>4, <2>3, <3>1, <3>4 DEF ReceiverLoop
  <2>4. QED
    BY <1>5, <2>1, <2>2, <2>3, <2>5 DEF ReceiverStep
<1>6. ASSUME ResetBegin \/ ResetStep PROVE IInv'
  <2> USE DEF replyVars, statusVars, devVars, boundVars, eventVars
  <2>1. PICK l \in Labels : pc' = [pc EXCEPT ![Resetter] = l]
    BY <1>6
    DEF ResetBegin, ResetStep, ResetFlush, ResetDrained, ResetTarget, ResetInit, ResetEnd,
        Goto, Labels
  <2>2. pc' \in [Threads -> Labels] /\ \A s \in Sender : pc'[s] = pc[s]
    BY <1>3, <2>1
  <2>3. CASE ResetBegin
    <3>0. resets' \in 0..MaxResets
      BY <2>3, BoundAssumption DEF ResetBegin, TypeOK
    <3>1. TypeOK'
      BY <2>2, <2>3, <3>0 DEF ResetBegin, TypeOK, Labels
    <3>2. QED
      BY <1>2, <1>4, <2>2, <2>3, <3>1 DEF ResetBegin
  <2>4. CASE ResetFlush
    <3>1. pending' \in Seq(EventType)
      BY <2>4 DEF ResetFlush
    <3>2. TypeOK'
      BY <2>2, <2>4, <3>1 DEF ResetFlush, TypeOK, Labels, EventType
    <3>3. QED
      BY <1>2, <1>4, <2>2, <2>4, <3>2 DEF ResetFlush
  <2>5. CASE ResetDrained
    <3>1. TypeOK'
      BY <2>2, <2>5 DEF ResetDrained, TypeOK, Labels
    <3>2. QED
      BY <1>2, <1>4, <2>2, <2>5, <3>1 DEF ResetDrained
  <2>6. CASE ResetTarget
    <3>1. /\ mbox' \in Seq(EventType) /\ cmdq' \in Seq(Commands) /\ Len(cmdq') < RingSize
          /\ todo' = {}
      BY <2>6, RingAssumption DEF ResetTarget
    <3>2. TypeOK'
      BY <2>2, <2>6, <3>1 DEF ResetTarget, TypeOK, Labels, EventType
    <3>3. QED
      BY <1>2, <2>2, <2>6, <3>1, <3>2 DEF ResetTarget
  <2>7. CASE ResetInit
    <3>1. TypeOK'
      BY <2>2, <2>7 DEF ResetInit, TypeOK, Labels
    <3>2. QED
      BY <1>2, <1>4, <2>2, <2>7, <3>1 DEF ResetInit
  <2>8. CASE ResetEnd
    <3>1. ready' \in Nat /\ late' \in BOOLEAN
      <4>1. ready \in Nat /\ late \in BOOLEAN
        BY DEF TypeOK
      <4>2. CASE ready > 0
        <5>1. ready' = ready - 1 /\ late' = late
          BY <2>8, <4>2 DEF ResetEnd
        <5>2. QED
          BY <4>1, <4>2, <5>1
      <4>3. CASE ~(ready > 0)
        <5>1. ready' = ready /\ late' = TRUE
          BY <2>8, <4>3 DEF ResetEnd
        <5>2. QED
          BY <4>1, <5>1
      <4>4. QED
        BY <4>2, <4>3
    <3>2. TypeOK'
      BY <2>2, <2>8, <3>1 DEF ResetEnd, TypeOK, Labels
    <3>3. QED
      BY <1>2, <1>4, <2>2, <2>8, <3>2 DEF ResetEnd
  <2>9. QED
    BY <1>6, <2>3, <2>4, <2>5, <2>6, <2>7, <2>8 DEF ResetStep
<1>7. ASSUME FwStep PROVE IInv'
  <2> USE DEF threadVars, replyVars, statusVars, boundVars, eventVars
  <2>1. mbox \in Seq(EventType) /\ cmdq \in Seq(Commands) /\ Len(cmdq) < RingSize
    BY DEF TypeOK, EventType
  <2>2. CASE FwBoot
    <3>1. [id |-> "fw_ready", n |-> 0] \in EventType
      BY BoundAssumption DEF EventType, EventIds
    <3>2. mbox' \in Seq(EventType)
      BY <2>1, <2>2, <3>1 DEF FwBoot, Post
    <3>3. TypeOK'
      BY <2>2, <3>2 DEF FwBoot, Post, TypeOK, EventType
    <3>4. QED
      BY <1>2, <1>4, <2>2, <3>3 DEF FwBoot
  <2>3. CASE FwTake
    <3>1. Head(cmdq) \in Commands /\ cmdq' \in Seq(Commands) /\ Len(cmdq') < RingSize
      BY <2>1, <2>3, RingAssumption DEF FwTake
    <3>2. todo' \subseteq Commands /\ \A c \in todo' : c.id # NULL
      BY <1>4, <2>3, <3>1 DEF FwTake, TypeOK
    <3>3. TypeOK'
      BY <2>3, <3>1, <3>2 DEF FwTake, TypeOK
    <3>4. QED
      BY <1>2, <2>3, <3>2, <3>3 DEF FwTake
  <2>4. CASE FwReply
    <3>1. PICK c \in todo : todo' = todo \ {c} /\ Post([id |-> c.id, n |-> c.n], {"MBOX"})
      BY <2>4 DEF FwReply
    <3>2. c \in Commands /\ c.id # NULL
      BY <1>4 DEF TypeOK
    <3>3. c.id \in EventIds /\ c.n \in 0..MaxCalls
      BY <3>2, BoundAssumption DEF Commands, DisconnectSta, EventIds
    <3>4. [id |-> c.id, n |-> c.n] \in EventType
      BY <3>3 DEF EventType
    <3>5. mbox' \in Seq(EventType)
      BY <2>1, <3>1, <3>4 DEF Post
    <3>6. cause' \subseteq {"FW_READY", "MBOX", "FW_ERROR"} /\ starved' \in BOOLEAN
      BY <3>1 DEF Post, TypeOK
    <3>7. todo' \subseteq Commands
      BY <3>1 DEF TypeOK
    <3>8. TypeOK'
      BY <2>4, <3>5, <3>6, <3>7 DEF FwReply, TypeOK, EventType
    <3>9. QED
      BY <1>2, <1>4, <2>4, <3>1, <3>8 DEF FwReply
  <2>5. CASE FwNews
    <3>1. [id |-> "disconnect", n |-> 0] \in EventType
      BY BoundAssumption DEF EventType, EventIds
    <3>2. mbox' \in Seq(EventType) /\ news' \in 0..MaxNews
      BY <2>1, <2>5, <3>1, BoundAssumption DEF FwNews, Post, TypeOK
    <3>3. cause' \subseteq {"FW_READY", "MBOX", "FW_ERROR"} /\ starved' \in BOOLEAN
      BY <2>5 DEF FwNews, Post, TypeOK
    <3>4. TypeOK'
      BY <2>5, <3>2, <3>3 DEF FwNews, TypeOK, EventType
    <3>5. QED
      BY <1>2, <1>4, <2>5, <3>4 DEF FwNews
  <2>6. CASE FwError
    <3>1. news' \in 0..MaxNews
      BY <2>6, BoundAssumption DEF FwError, TypeOK
    <3>2. TypeOK'
      BY <2>6, <3>1 DEF FwError, TypeOK, EventType
    <3>3. QED
      BY <1>2, <1>4, <2>6, <3>2 DEF FwError
  <2>7. QED
    BY <1>7, <2>2, <2>3, <2>4, <2>5, <2>6 DEF FwStep
<1>8. QED
  BY <1>5, <1>6, <1>7

-----------------------------------------------------------------------------
\* Every step preserves the strengthening.
LEMMA InvStep == IInv /\ [Next]_vars => IInv'
<1> SUFFICES ASSUME IInv, [Next]_vars PROVE IInv'
  OBVIOUS
<1>1. CASE UNCHANGED vars
  BY <1>1
  DEF vars, threadVars, replyVars, eventVars, statusVars, devVars, boundVars,
      IInv, TypeOK, Owned, WorkerSends, Slot, Handling
<1>2. QED
  BY <1>1, BeginPreserves, CallPreserves, SendPreserves, WorkerPreserves, OtherPreserves DEF Next, Sender

\* The strengthening is an invariant.
THEOREM Inductive == Spec => []IInv
<1>1. QED
  BY InitInv, InvStep, PTL DEF Spec

\* The types, and that the command ring of __wmi_send never overruns its tail,
\* for a ring of any size (wmi.c:204).
THEOREM TypeCorrect == Spec => []TypeOK
<1>1. IInv => TypeOK
  BY DEF IInv
<1>2. QED
  BY <1>1, Inductive, PTL

\* For any number of callers, what the event worker takes for awaited belongs to
\* the one call that holds wmi_mutex and waits (wmi.c:787, 802, 1353).
THEOREM SlotOwned == Spec => []ReplySlotOwned
<1>1. IInv => ReplySlotOwned
  BY DEF IInv, Slot, ReplySlotOwned
<1>2. QED
  BY <1>1, Inductive, PTL
-----------------------------------------------------------------------------
(* What completes wmi_ready is on its way once at most. *)

\* The events that calls wait for are neither of the two that come unasked.
OwnIds == \A k \in Kinds : k.id \notin {"fw_ready", "disconnect"}

Handles == {"match", "pick", "copy", "complete"}

\* Events that may complete wmi_ready.
Completes(e) == e.id # "disconnect"

\* Who waits has said for what; calls and resets exclude each other.
Published ==
  /\ \A c \in Callers :
       /\ pc[c] \in {"sent", "wait"} => cmd[c].id # NULL
       /\ pc[c] = "wait" => /\ reply_id = cmd[c].id
                            /\ reply_buf = IF cmd[c].buf THEN c ELSE NULL
  /\ pc[Resetter] # "idle" => \A c \in Callers : pc[c] = "idle"
  /\ pc[Worker] \in {"pick", "copy", "complete"} => Completes(evt)

\* The firmware after a reset: nobody has told it anything, and what it says first
\* is that it is ready.
FreshFirmware ==
  pc[Resetter] \in {"init", "wait"} =>
    /\ todo = {} /\ \A i \in 1..Len(cmdq) : cmdq[i].id = NULL
    /\ fw = "boot" => mbox = <<>>
    /\ \A i \in 1..Len(mbox) : Completes(mbox[i]) => i = 1 /\ mbox[i].id = "fw_ready"

\* wmi_ready is to be completed for the reset that waits, or for the call.
Due(id, n) ==
  IF pc[Resetter] = "wait" THEN fw = "up" /\ id = "fw_ready"
  ELSE /\ mutex \in Callers /\ pc[mutex] \in {"sent", "wait"}
       /\ id = cmd[mutex].id /\ n = cmd[mutex].n

\* The call waits, with the reply in its buffer.
Served ==
  IF pc[Resetter] = "wait" THEN fw = "up"
  ELSE /\ mutex \in Callers /\ pc[mutex] = "wait"
       /\ cmd[mutex].buf => got[mutex] = cmd[mutex].n

\* What is due is in the place s, if anywhere: command, task, event or completion.
OnlyAt(s) ==
  /\ \A i \in 1..Len(cmdq) : cmdq[i].id # NULL => s = "cmdq" /\ Due(cmdq[i].id, cmdq[i].n)
  /\ \A c \in todo : s = "todo" /\ Due(c.id, c.n)
  /\ \A i \in 1..Len(mbox) : Completes(mbox[i]) => s = "mbox" /\ Due(mbox[i].id, mbox[i].n)
  /\ \A i \in 1..Len(pending) :
       Completes(pending[i]) => s = "pending" /\ Due(pending[i].id, pending[i].n)
  /\ pc[Worker] \in Handles /\ Completes(evt) => s = "evt" /\ Due(evt.id, evt.n)
  /\ ready > 0 => s = "ready" /\ Served

\* It is there once.
Once ==
  /\ \A i, j \in 1..Len(cmdq) : cmdq[i].id # NULL /\ cmdq[j].id # NULL => i = j
  /\ \A c, d \in todo : c = d
  /\ \A i, j \in 1..Len(mbox) : Completes(mbox[i]) /\ Completes(mbox[j]) => i = j
  /\ \A i, j \in 1..Len(pending) : Completes(pending[i]) /\ Completes(pending[j]) => i = j
  /\ ready <= 1

\* How far the worker is with it.
Copying ==
  pc[Resetter] = "idle" =>
    /\ pc[Worker] \in {"pick", "copy", "complete"} => mutex \in Callers /\ pc[mutex] = "wait"
    /\ pc[Worker] = "copy" => dst = mutex
    /\ pc[Worker] = "complete" => Served

Places == {"cmdq", "todo", "mbox", "pending", "evt", "ready"}

\* Until a wait times out.
OneCompletion ==
  ~late /\ pc[Resetter] \in {"wait", "idle"} =>
    /\ \E s \in Places : OnlyAt(s)
    /\ Once /\ Copying
    /\ pc[Resetter] = "idle" => fw = "up"

OwnInv == Published /\ FreshFirmware /\ OneCompletion

-----------------------------------------------------------------------------
\* The threads are different, and none of them is NULL.
LEMMA Apart ==
  /\ Worker \in Sender /\ Callers \subseteq Sender /\ Sender \subseteq Threads
  /\ Receiver \in Threads \ Sender /\ Resetter \in Threads \ Sender
  /\ Worker \notin Callers /\ NULL \notin Threads /\ Receiver # Resetter
BY CallersAssumption DEF Sender, Threads, Worker, Receiver, Resetter

\* A thread that goes on leaves the others where they are.
LEMMA Elsewhere ==
  ASSUME TypeOK, NEW t \in Threads, NEW l, pc' = [pc EXCEPT ![t] = l]
  PROVE  pc'[t] = l /\ \A x \in Threads \ {t} : pc'[x] = pc[x]
BY DEF TypeOK

\* What a caller waits for is none of the events that come unasked.
LEMMA AskedFor ==
  ASSUME TypeOK, OwnIds, NEW c \in Callers, cmd[c].id # NULL
  PROVE  cmd[c].id \notin {"fw_ready", "disconnect"}
<1>1. cmd[c] \in Commands
  BY DEF TypeOK
<1>2. QED
  BY <1>1 DEF Commands, DisconnectSta, OwnIds

\* Nothing is on its way.
Nothing ==
  /\ \A i \in 1..Len(cmdq) : cmdq[i].id = NULL
  /\ todo = {} /\ ready = 0
  /\ \A i \in 1..Len(mbox) : ~Completes(mbox[i])
  /\ \A i \in 1..Len(pending) : ~Completes(pending[i])
  /\ pc[Worker] \in Handles => ~Completes(evt)

\* That is all that has to be known, if a step makes it so.
LEMMA NothingDue ==
  ASSUME Nothing', Published', pc'[Resetter] = "idle" => fw' = "up"
  PROVE  OneCompletion'
<1>1. pc'[Worker] \notin {"pick", "copy", "complete"}
  BY DEF Nothing, Published, Handles
<1>2. OnlyAt("cmdq")'
  BY DEF Nothing, OnlyAt
<1>3. Once'
  BY DEF Nothing, Once
<1>4. QED
  BY <1>1, <1>2, <1>3 DEF OneCompletion, Copying, Places

\* Nothing is on its way for a call that has not sent its command.
LEMMA NothingYet ==
  ASSUME TypeOK, OneCompletion, ~late, pc[Resetter] = "idle",
         mutex \notin Callers \/ pc[mutex] \notin {"sent", "wait"}
  PROVE  Nothing
<1>1. PICK s \in Places : OnlyAt(s)
  BY DEF OneCompletion
<1>2. \A id, n : ~Due(id, n)
  BY DEF Due
<1>3. ~Served
  BY DEF Served
<1>4. ready = 0
  BY <1>1, <1>3 DEF OnlyAt, TypeOK
<1>5. QED
  BY <1>1, <1>2, <1>4 DEF OnlyAt, Nothing

\* A step that moves nothing, and after which still due is what was.
LEMMA NothingMoves ==
  ASSUME OneCompletion, Copying => Copying',
         UNCHANGED <<cmdq, todo, mbox, pending, evt, ready, fw, late>>,
         pc'[Worker] \in Handles => pc[Worker] \in Handles,
         pc'[Resetter] = pc[Resetter],
         \A id, n : Due(id, n) => Due(id, n)',
         Served => Served'
  PROVE  OneCompletion'
<1>1. ASSUME NEW s \in Places, OnlyAt(s) PROVE OnlyAt(s)'
  BY <1>1 DEF OnlyAt, Completes
<1>2. Once => Once'
  BY DEF Once, Completes
<1>3. QED
  BY <1>1, <1>2 DEF OneCompletion

-----------------------------------------------------------------------------
\* Calls publish what they wait for, and exclude resets.
LEMMA PublishedStep ==
  ASSUME Exclusive, OwnIds, IInv, IInv', Published, Next
  PROVE  Published'
<1> USE DEF Goto
<1>1. TypeOK /\ Owned /\ Slot /\ Handling
  BY DEF IInv
<1>2. ASSUME NEW c \in Callers, Begin(c) PROVE Published'
  <2>1. c \in Threads /\ pc' = [pc EXCEPT ![c] = "lock"] /\ pc[Resetter] = "idle"
    BY <1>2, Apart DEF Begin
  <2>2. pc'[c] = "lock" /\ \A x \in Threads \ {c} : pc'[x] = pc[x]
    BY <1>1, <2>1, Elsewhere
  <2>3. (\A d \in Callers \ {c} : cmd'[d] = cmd[d]) /\ UNCHANGED <<reply_id, reply_buf, evt>>
    BY <1>1, <1>2 DEF Begin, TypeOK, replyVars, eventVars
  <2>4. QED
    BY <2>1, <2>2, <2>3, Apart DEF Published, Completes
<1>3. ASSUME NEW c \in Callers, CallStep(c) PROVE Published'
  <2>1. mutex = c /\ c \in Threads /\ pc[c] # "idle"
    BY <1>1, <1>3, Apart DEF CallStep, Publish, Answered, TimeOut, Owned
  <2>2. PICK l : l \in {"wait", "idle"} /\ pc' = [pc EXCEPT ![c] = l]
    BY <1>3, Apart DEF CallStep, Publish, Answered, TimeOut, Leave
  <2>3. pc'[c] = l /\ \A x \in Threads \ {c} : pc'[x] = pc[x]
    BY <1>1, <2>1, <2>2, Elsewhere
  <2>4. \A d \in Callers \ {c} : pc[d] \notin {"put", "sent", "wait"}
    BY <1>1, <2>1, Apart DEF Owned
  <2>5. UNCHANGED <<cmd, evt>>
    BY <1>3 DEF CallStep, Publish, Answered, TimeOut, eventVars
  <2>6. pc[Resetter] = "idle"
    BY <2>1 DEF Published
  <2>7. pc'[c] = "wait" => /\ cmd[c].id # NULL /\ reply_id' = cmd[c].id
                           /\ reply_buf' = IF cmd[c].buf THEN c ELSE NULL
    <3>1. CASE Publish(c)
      BY <3>1 DEF Publish, Published
    <3>2. CASE Answered(c) \/ TimeOut(c)
      <4>1. pc' = [pc EXCEPT ![c] = "idle"]
        BY <3>2, Apart DEF Answered, TimeOut, Leave
      <4>2. QED
        BY <1>1, <2>1, <4>1, Elsewhere
    <3>3. QED
      BY <1>3, <3>1, <3>2 DEF CallStep
  <2>8. pc'[c] # "sent"
    BY <2>2, <2>3
  <2>9. QED
    BY <2>3, <2>4, <2>5, <2>6, <2>7, <2>8, Apart DEF Published, Completes
<1>4. ASSUME NEW t \in Sender, SendStep(t) PROVE Published'
  <2>1. t \in Threads
    BY Apart
  <2>2. PICK l : /\ l \in {"put", "idle", "take", "sent"} /\ pc' = [pc EXCEPT ![t] = l]
                 /\ l = "sent" => cmd[t].id # NULL
    BY <1>4 DEF SendStep, SendCheck, SendPut, Leave, AfterEvent
  <2>3. pc'[t] = l /\ \A x \in Threads \ {t} : pc'[x] = pc[x]
    BY <1>1, <2>1, <2>2, Elsewhere
  <2>4. UNCHANGED <<cmd, reply_id, reply_buf, evt>>
    BY <1>4 DEF SendStep, SendCheck, SendPut, replyVars, eventVars
  <2>5. pc[t] \in {"lock", "put"}
    BY <1>4 DEF SendStep, SendCheck, SendPut
  <2>6. t \in Callers => pc[Resetter] = "idle"
    BY <2>5 DEF Published
  <2>7. QED
    BY <2>2, <2>3, <2>4, <2>6, Apart DEF Published, Completes
<1>5. ASSUME WorkerStep PROVE Published'
  <2>1. UNCHANGED <<cmd, reply_id, reply_buf>>
    BY <1>5
    DEF WorkerStep, WorkerStart, WorkerTake, WorkerMatch, WorkerPick, WorkerCopy,
        WorkerComplete, replyVars
  <2>2. PICK l : pc' = [pc EXCEPT ![Worker] = l]
    BY <1>5
    DEF WorkerStep, WorkerStart, WorkerTake, WorkerMatch, WorkerPick, WorkerCopy,
        WorkerComplete
  <2>3. Worker \in Threads
    BY Apart
  <2>4. pc'[Worker] = l /\ \A x \in Threads \ {Worker} : pc'[x] = pc[x]
    BY <1>1, <2>2, <2>3, Elsewhere
  <2>5. l \in {"pick", "copy", "complete"} => Completes(evt')
    <3>1. CASE WorkerStart \/ WorkerTake
      <4>1. pc' = [pc EXCEPT ![Worker] = "take"] \/ pc' = [pc EXCEPT ![Worker] = "idle"]
            \/ pc' = [pc EXCEPT ![Worker] = "match"]
        BY <3>1 DEF WorkerStart, WorkerTake
      <4>2. pc'[Worker] \in {"take", "idle", "match"}
        BY <1>1, <2>3, <4>1, Elsewhere
      <4>3. QED
        BY <2>4, <4>2
    <3>2. CASE WorkerMatch
      <4>1. evt' = evt
        BY <3>2 DEF WorkerMatch, eventVars
      <4>2. CASE Awaited
        <5>1. reply_id = evt.id /\ mutex \in Callers /\ cmd[mutex].id = reply_id /\ reply_id # NULL
          BY <1>1, <4>2 DEF Awaited, Slot
        <5>2. evt.id # "disconnect"
          BY <1>1, <5>1, AskedFor
        <5>3. QED
          BY <4>1, <5>2 DEF Completes
      <4>3. CASE ~Awaited /\ evt.id # "disconnect"
        BY <4>1, <4>3 DEF Completes
      <4>4. CASE ~Awaited /\ evt.id = "disconnect"
        <5>1. pc' = [pc EXCEPT ![Worker] = "lock"] \/ pc' = [pc EXCEPT ![Worker] = "take"]
          BY <3>2, <4>4 DEF WorkerMatch, AfterEvent
        <5>2. pc'[Worker] \in {"lock", "take"}
          BY <1>1, <2>3, <5>1, Elsewhere
        <5>3. QED
          BY <2>4, <5>2
      <4>5. QED
        BY <4>2, <4>3, <4>4
    <3>3. CASE WorkerPick
      BY <3>3 DEF WorkerPick, Published
    <3>4. CASE WorkerCopy \/ WorkerComplete
      BY <3>4 DEF WorkerCopy, WorkerComplete, eventVars, Published
    <3>5. QED
      BY <1>5, <3>1, <3>2, <3>3, <3>4 DEF WorkerStep
  <2>6. QED
    BY <2>1, <2>4, <2>5, Apart DEF Published, Completes
<1>6. ASSUME ReceiverStep \/ FwStep PROVE Published'
  <2>1. UNCHANGED <<cmd, reply_id, reply_buf, evt>>
    BY <1>6
    DEF ReceiverStep, IrqMisc, ReceiverNotify, ReceiverStart, ReceiverLoop,
        FwStep, FwBoot, FwTake, FwReply,
        FwNews, FwError, replyVars, threadVars, eventVars
  <2>2. \A x \in Threads \ {Receiver} : pc'[x] = pc[x]
    <3>1. pc' = pc \/ \E l : pc' = [pc EXCEPT ![Receiver] = l]
      BY <1>6
      DEF ReceiverStep, IrqMisc, ReceiverNotify, ReceiverStart, ReceiverLoop, FwStep, FwBoot, FwTake, FwReply,
          FwNews, FwError, threadVars
    <3>2. QED
      BY <1>1, <3>1, Elsewhere, Apart
  <2>3. QED
    BY <2>1, <2>2, Apart DEF Published, Completes
<1>7. ASSUME ResetBegin \/ ResetStep PROVE Published'
  <2>1. UNCHANGED <<cmd, reply_id, reply_buf, evt>>
    BY <1>7
    DEF ResetBegin, ResetStep, ResetFlush, ResetDrained, ResetTarget, ResetInit, ResetEnd,
        replyVars, eventVars
  <2>2. \A x \in Threads \ {Resetter} : pc'[x] = pc[x]
    <3>1. \E l : pc' = [pc EXCEPT ![Resetter] = l]
      BY <1>7
      DEF ResetBegin, ResetStep, ResetFlush, ResetDrained, ResetTarget, ResetInit, ResetEnd
    <3>2. QED
      BY <1>1, <3>1, Elsewhere, Apart
  <2>3. \A c \in Callers : pc[c] = "idle"
    BY <1>7
    DEF ResetBegin, ResetStep, ResetFlush, ResetDrained, ResetTarget, ResetInit, ResetEnd,
        Published
  <2>4. QED
    BY <2>1, <2>2, <2>3, Apart DEF Published, Completes
<1>8. QED
  BY <1>2, <1>3, <1>4, <1>5, <1>6, <1>7 DEF Next, Sender

-----------------------------------------------------------------------------
\* A sequence that grows or loses its head, and what holds of all its elements.
LEMMA Grown ==
  ASSUME NEW S, NEW q \in Seq(S), NEW e \in S
  PROVE  /\ Len(Append(q, e)) = Len(q) + 1 /\ Append(q, e)[Len(q) + 1] = e
         /\ \A i \in 1..Len(q) : Append(q, e)[i] = q[i]
         /\ \A i \in 1..(Len(q) + 1) : i \in 1..Len(q) \/ i = Len(q) + 1
         /\ Len(q) \in Nat
OBVIOUS

LEMMA Shrunk ==
  ASSUME NEW S, NEW q \in Seq(S), q # <<>>
  PROVE  /\ \A i \in 1..Len(Tail(q)) : i + 1 \in 1..Len(q) /\ Tail(q)[i] = q[i + 1] /\ i + 1 # 1
         /\ 1 \in 1..Len(q) /\ Head(q) = q[1]
OBVIOUS

\* After a reset the firmware is told nothing before it says that it is ready.
LEMMA FreshStep ==
  ASSUME Exclusive, OwnIds, IInv, IInv', Published, FreshFirmware, Next
  PROVE  FreshFirmware'
<1> USE DEF Goto
<1>0. /\ TypeOK /\ WorkerSends /\ cmdq \in Seq(Commands) /\ mbox \in Seq(EventType)
      /\ Worker \in Threads /\ Resetter \in Threads /\ Receiver \in Threads
      /\ Resetter # Receiver /\ Resetter # Worker
  BY Apart DEF IInv, TypeOK, EventType
<1>1. ASSUME UNCHANGED <<todo, cmdq, fw, mbox>>, pc'[Resetter] = pc[Resetter]
      PROVE  FreshFirmware'
  BY <1>1 DEF FreshFirmware, Completes
<1>2. ASSUME NEW c \in Callers, Begin(c) \/ CallStep(c) PROVE FreshFirmware'
  <2>1. UNCHANGED <<todo, cmdq, fw, mbox>>
    BY <1>2 DEF Begin, CallStep, Publish, Answered, TimeOut, devVars
  <2>2. \E l : pc' = [pc EXCEPT ![c] = l]
    BY <1>2 DEF Begin, CallStep, Publish, Answered, TimeOut, Leave
  <2>3. c \in Threads /\ c # Resetter
    BY Apart
  <2>4. QED
    BY <1>0, <1>1, <2>1, <2>2, <2>3, Elsewhere
<1>3. ASSUME NEW t \in Sender, SendStep(t) PROVE FreshFirmware'
  <2>1. UNCHANGED <<todo, fw, mbox>>
    BY <1>3 DEF SendStep, SendCheck, SendPut, devVars
  <2>2. \E l : pc' = [pc EXCEPT ![t] = l]
    BY <1>3 DEF SendStep, SendCheck, SendPut, Leave
  <2>3. t \in Threads /\ t # Resetter
    BY Apart
  <2>4. pc'[Resetter] = pc[Resetter]
    BY <1>0, <2>2, <2>3, Elsewhere
  <2>5. CASE cmdq' = cmdq
    BY <1>1, <2>1, <2>4, <2>5
  <2>6. CASE cmdq' = Append(cmdq, cmd[t]) /\ SendPut(t)
    <3>1. SUFFICES ASSUME pc[Resetter] \in {"init", "wait"} PROVE FreshFirmware'
      BY <2>4 DEF FreshFirmware
    <3>2. t = Worker
      <4>1. pc[t] = "put"
        BY <2>6 DEF SendPut
      <4>2. t \notin Callers
        BY <3>1, <4>1 DEF Published
      <4>3. QED
        BY <4>2 DEF Sender
    <3>3. cmd[t].id = NULL /\ cmd[t] \in Commands
      BY <1>0, <3>2 DEF WorkerSends, DisconnectSta, Commands
    <3>4. \A i \in 1..Len(cmdq') : cmdq'[i].id = NULL
      BY <1>0, <2>6, <3>1, <3>3, Grown DEF FreshFirmware
    <3>5. QED
      BY <2>1, <3>1, <3>4 DEF FreshFirmware, Completes
  <2>7. QED
    BY <1>3, <2>5, <2>6 DEF SendStep, SendCheck, SendPut, devVars
<1>4. ASSUME WorkerStep PROVE FreshFirmware'
  <2>1. UNCHANGED <<todo, cmdq, fw, mbox>> /\ \E l : pc' = [pc EXCEPT ![Worker] = l]
    BY <1>4
    DEF WorkerStep, WorkerStart, WorkerTake, WorkerMatch, WorkerPick, WorkerCopy,
        WorkerComplete, devVars
  <2>2. QED
    BY <1>0, <1>1, <2>1, Elsewhere
<1>5. ASSUME ReceiverStep PROVE FreshFirmware'
  <2>1. UNCHANGED <<todo, cmdq, fw>>
    BY <1>5 DEF ReceiverStep, IrqMisc, ReceiverNotify, ReceiverStart, ReceiverLoop, devVars
  <2>2. pc' = pc \/ \E l : pc' = [pc EXCEPT ![Receiver] = l]
    BY <1>5 DEF ReceiverStep, IrqMisc, ReceiverNotify, ReceiverStart, ReceiverLoop
  <2>3. pc'[Resetter] = pc[Resetter]
    BY <1>0, <2>2, Elsewhere
  <2>4. CASE mbox' = mbox
    BY <1>1, <2>1, <2>3, <2>4
  <2>5. CASE mbox # <<>> /\ mbox' = Tail(mbox)
    <3>1. SUFFICES ASSUME pc[Resetter] \in {"init", "wait"} PROVE FreshFirmware'
      BY <2>3 DEF FreshFirmware
    <3>2. \A i \in 1..Len(mbox') : i + 1 \in 1..Len(mbox) /\ mbox'[i] = mbox[i + 1] /\ i + 1 # 1
      BY <1>0, <2>5, Shrunk
    <3>3. \A i \in 1..Len(mbox') : ~Completes(mbox'[i])
      BY <3>1, <3>2 DEF FreshFirmware
    <3>4. fw # "boot"
      BY <2>5, <3>1 DEF FreshFirmware
    <3>5. QED
      BY <2>1, <3>1, <3>3, <3>4 DEF FreshFirmware, Completes
  <2>6. QED
    BY <1>5, <2>4, <2>5 DEF ReceiverStep, IrqMisc, ReceiverNotify, ReceiverStart, ReceiverLoop, devVars
<1>6. ASSUME ResetBegin \/ ResetStep PROVE FreshFirmware'
  <2>1. \A l : pc' = [pc EXCEPT ![Resetter] = l] => pc'[Resetter] = l
    BY <1>0, Elsewhere
  <2>2. CASE ResetBegin \/ ResetFlush \/ ResetDrained \/ ResetEnd
    <3>1. pc'[Resetter] \in {"flush", "drain", "target", "idle"}
      BY <2>1, <2>2 DEF ResetBegin, ResetFlush, ResetDrained, ResetEnd
    <3>2. QED
      BY <3>1 DEF FreshFirmware
  <2>3. CASE ResetTarget
    BY <2>3 DEF ResetTarget, FreshFirmware
  <2>4. CASE ResetInit
    <3>1. pc[Resetter] = "init" /\ UNCHANGED <<todo, cmdq, fw, mbox>>
      BY <2>4 DEF ResetInit
    <3>2. QED
      BY <3>1 DEF FreshFirmware, Completes
  <2>5. QED
    BY <1>6, <2>2, <2>3, <2>4 DEF ResetStep
<1>7. ASSUME FwStep PROVE FreshFirmware'
  <2>1. pc' = pc
    BY <1>7 DEF FwStep, FwBoot, FwTake, FwReply, FwNews, FwError, threadVars
  <2>2. SUFFICES ASSUME pc[Resetter] \in {"init", "wait"} PROVE FreshFirmware'
    BY <2>1 DEF FreshFirmware
  <2>3. /\ todo = {} /\ \A i \in 1..Len(cmdq) : cmdq[i].id = NULL
        /\ fw = "boot" => mbox = <<>>
        /\ \A i \in 1..Len(mbox) : Completes(mbox[i]) => i = 1 /\ mbox[i].id = "fw_ready"
    BY <2>2 DEF FreshFirmware
  <2>4. CASE FwBoot
    <3>1. mbox' = <<[id |-> "fw_ready", n |-> 0]>> /\ fw' = "up" /\ UNCHANGED <<todo, cmdq>>
      BY <2>3, <2>4 DEF FwBoot, Post
    <3>2. QED
      BY <2>3, <3>1 DEF FreshFirmware
  <2>5. CASE FwTake
    <3>1. cmdq # <<>> /\ cmdq' = Tail(cmdq) /\ UNCHANGED <<fw, mbox>>
      BY <2>5 DEF FwTake
    <3>2. \A i \in 1..Len(cmdq') : cmdq'[i].id = NULL
      BY <1>0, <2>3, <3>1, Shrunk
    <3>3. Head(cmdq).id = NULL
      BY <1>0, <2>3, <3>1, Shrunk
    <3>4. todo' = {}
      BY <2>3, <2>5, <3>3 DEF FwTake
    <3>5. QED
      BY <2>3, <3>1, <3>2, <3>4 DEF FreshFirmware, Completes
  <2>6. CASE FwReply
    BY <2>3, <2>6 DEF FwReply
  <2>7. CASE FwNews
    <3>1. /\ mbox' = Append(mbox, [id |-> "disconnect", n |-> 0]) /\ fw = "up"
          /\ UNCHANGED <<fw, todo, cmdq>>
      BY <2>7 DEF FwNews, Post
    <3>2. [id |-> "disconnect", n |-> 0] \in EventType
      BY BoundAssumption DEF EventType, EventIds
    <3>3. \A i \in 1..Len(mbox') : Completes(mbox'[i]) => i = 1 /\ mbox'[i].id = "fw_ready"
      BY <1>0, <2>3, <3>1, <3>2, Grown DEF Completes
    <3>4. QED
      BY <2>3, <3>1, <3>3 DEF FreshFirmware
  <2>8. CASE FwError
    BY <2>1, <2>3, <2>8 DEF FwError, FreshFirmware, Completes
  <2>9. QED
    BY <1>7, <2>4, <2>5, <2>6, <2>7, <2>8 DEF FwStep
<1>8. QED
  BY <1>2, <1>3, <1>4, <1>5, <1>6, <1>7 DEF Next, Sender

-----------------------------------------------------------------------------
\* What a step is taken from, and what is known of the state it leads to.
OwnStep ==
  /\ Exclusive /\ OwnIds
  /\ IInv /\ IInv' /\ Published /\ Published' /\ FreshFirmware /\ FreshFirmware'
  /\ OneCompletion

\* A call that begins is not the one that something is on its way for.
LEMMA BeginOne ==
  ASSUME OwnStep, NEW c \in Callers, Begin(c)
  PROVE  OneCompletion'
<1>1. TypeOK /\ Owned /\ OneCompletion
  BY DEF OwnStep, IInv
<1>2. c \in Threads /\ c \in Sender /\ pc[c] = "idle" /\ pc' = [pc EXCEPT ![c] = "lock"]
  BY Apart DEF Begin, Goto
<1>3. mutex # c
  BY <1>1, <1>2 DEF Owned
<1>4. \A x \in Threads \ {c} : pc'[x] = pc[x]
  BY <1>1, <1>2, Elsewhere
<1>5. pc'[Worker] = pc[Worker] /\ pc'[Resetter] = pc[Resetter]
  BY <1>2, <1>4, Apart
<1>6. mutex \in Callers => /\ pc'[mutex] = pc[mutex] /\ cmd'[mutex] = cmd[mutex]
                           /\ got'[mutex] = got[mutex]
  BY <1>1, <1>2, <1>3, <1>4, Apart DEF Begin, TypeOK
<1>7. UNCHANGED <<mutex, cmdq, todo, mbox, pending, evt, dst, ready, fw, late>>
  BY DEF Begin, replyVars, eventVars, devVars
<1>8. (\A id, n : Due(id, n) => Due(id, n)') /\ (Served => Served') /\ (Copying => Copying')
  BY <1>5, <1>6, <1>7 DEF Due, Served, Copying
<1>9. QED
  BY <1>1, <1>5, <1>7, <1>8, NothingMoves

\* A command that somebody waits for is sent with nothing else on its way.
LEMMA SendOne ==
  ASSUME OwnStep, NEW t \in Sender, SendStep(t)
  PROVE  OneCompletion'
<1> USE DEF Goto
<1>1. /\ TypeOK /\ Owned /\ WorkerSends /\ OneCompletion /\ cmdq \in Seq(Commands)
      /\ Published /\ Published' /\ FreshFirmware'
  BY DEF OwnStep, IInv, TypeOK
<1>2. /\ UNCHANGED <<todo, mbox, pending, evt, ready, fw, late, cmd>>
      /\ pc[t] \in {"lock", "put"}
  BY DEF SendStep, SendCheck, SendPut, replyVars, eventVars, devVars, boundVars
<1>3. PICK l \in {"put", "idle", "take", "sent"} : pc' = [pc EXCEPT ![t] = l]
  BY DEF SendStep, SendCheck, SendPut, Leave, AfterEvent
<1>4. t \in Threads /\ pc'[t] = l /\ \A x \in Threads \ {t} : pc'[x] = pc[x]
  BY <1>1, <1>3, Elsewhere, Apart
<1>5. pc'[Resetter] = pc[Resetter] /\ (pc'[Worker] \in Handles => pc[Worker] \in Handles)
  BY <1>3, <1>4, Apart DEF Handles
<1>6. SUFFICES ASSUME ~late, pc[Resetter] \in {"wait", "idle"} PROVE OneCompletion'
  BY <1>2, <1>5 DEF OneCompletion
<1>7. CASE pc[Resetter] = "idle"
  <2>1. Nothing
    <3>1. mutex \notin Callers \/ pc[mutex] \notin {"sent", "wait"}
      <4>1. CASE SendCheck(t)
        BY <4>1, Apart DEF SendCheck
      <4>2. CASE SendPut(t)
        BY <1>1, <4>2 DEF SendPut, Owned
      <4>3. QED
        BY <4>1, <4>2 DEF SendStep
    <3>2. QED
      BY <1>1, <1>6, <1>7, <3>1, NothingYet
  <2>2. fw' = "up"
    BY <1>1, <1>2, <1>6, <1>7 DEF OneCompletion
  <2>3. CASE \A i \in 1..Len(cmdq') : cmdq'[i].id = NULL
    <3>1. Nothing'
      BY <1>2, <1>5, <2>1, <2>3 DEF Nothing, Completes
    <3>2. QED
      BY <1>1, <2>2, <3>1, NothingDue
  <2>4. CASE cmdq' = cmdq
    BY <2>1, <2>3, <2>4 DEF Nothing
  <2>5. CASE cmdq' = Append(cmdq, cmd[t]) /\ SendPut(t)
    <3>1. cmd[t] \in Commands
      BY <1>1 DEF TypeOK, Sender
    <3>2. /\ \A i \in 1..Len(cmdq) : cmdq'[i].id = NULL
          /\ cmdq'[Len(cmdq) + 1] = cmd[t] /\ Len(cmdq') = Len(cmdq) + 1
          /\ \A i \in 1..(Len(cmdq) + 1) : i \in 1..Len(cmdq) \/ i = Len(cmdq) + 1
      BY <1>1, <2>1, <2>5, <3>1, Grown DEF Nothing
    <3>3. CASE cmd[t].id = NULL
      BY <2>3, <3>2, <3>3
    <3>4. CASE cmd[t].id # NULL
      <4>1. t \in Callers
        BY <1>1, <3>4 DEF WorkerSends, DisconnectSta, Sender
      <4>2. pc' = [pc EXCEPT ![t] = "sent"] /\ mutex' = mutex /\ mutex = t
        BY <1>1, <2>1, <2>5, <3>2, <3>4 DEF SendPut, Owned
      <4>3. pc'[t] = "sent"
        BY <1>1, <1>4, <4>2, Elsewhere
      <4>4. \A id, n : id = cmd[t].id /\ n = cmd[t].n => Due(id, n)'
        BY <1>2, <1>5, <1>7, <4>1, <4>2, <4>3 DEF Due
      <4>5. OnlyAt("cmdq")'
        <5>1. \A i \in 1..Len(cmdq') : cmdq'[i].id # NULL => cmdq'[i] = cmd[t]
          BY <3>2
        <5>2. /\ \A i \in 1..Len(mbox') : ~Completes(mbox[i])'
              /\ \A i \in 1..Len(pending') : ~Completes(pending[i])'
              /\ ready' = 0 /\ todo' = {}
              /\ ~(pc'[Worker] \in Handles /\ Completes(evt)')
          BY <1>2, <1>5, <2>1 DEF Nothing, Completes
        <5>3. QED
          BY <4>4, <5>1, <5>2 DEF OnlyAt
      <4>6. Once'
        BY <1>2, <2>1, <3>2 DEF Nothing, Once, Completes
      <4>7. Copying'
        BY <1>1, <1>2, <1>5, <2>1 DEF Nothing, Copying, Published, Handles
      <4>8. QED
        BY <2>2, <4>5, <4>6, <4>7 DEF OneCompletion, Places
    <3>5. QED
      BY <3>3, <3>4
  <2>6. QED
    BY <2>4, <2>5 DEF SendStep, SendCheck, SendPut, devVars
<1>8. CASE pc[Resetter] = "wait"
  <2>1. PICK s \in Places : OnlyAt(s)
    BY <1>1, <1>6 DEF OneCompletion
  <2>2. \A i \in 1..Len(cmdq') : cmdq'[i].id = NULL
    BY <1>1, <1>5, <1>8 DEF FreshFirmware
  <2>3. (\A id, n : Due(id, n) => Due(id, n)') /\ (Served => Served') /\ Copying'
    BY <1>2, <1>5, <1>8 DEF Due, Served, Copying
  <2>4. OnlyAt(s)'
    BY <1>2, <1>5, <2>1, <2>2, <2>3 DEF OnlyAt, Completes
  <2>5. Once'
    BY <1>1, <1>2, <1>6, <2>2 DEF OneCompletion, Once, Completes
  <2>6. QED
    BY <1>5, <1>8, <2>3, <2>4, <2>5 DEF OneCompletion
<1>9. QED
  BY <1>6, <1>7, <1>8

\* A call waits for what is on its way, and takes it.
LEMMA CallOne ==
  ASSUME OwnStep, NEW c \in Callers, CallStep(c)
  PROVE  OneCompletion'
<1> USE DEF Goto
<1>1. /\ TypeOK /\ Owned /\ OneCompletion /\ Published /\ Published'
  BY DEF OwnStep, IInv
<1>2. mutex = c /\ c \in Threads /\ pc[c] \in {"sent", "wait"} /\ pc[Resetter] = "idle"
  <2>1. pc[c] \in {"sent", "wait"}
    BY DEF CallStep, Publish, Answered, TimeOut
  <2>2. QED
    BY <1>1, <2>1, Apart DEF Owned, Published
<1>3. UNCHANGED <<cmd, cmdq, todo, mbox, pending, evt, dst, fw, got>>
  BY DEF CallStep, Publish, Answered, TimeOut, eventVars, devVars
<1>4. PICK l : pc' = [pc EXCEPT ![c] = l]
  BY DEF CallStep, Publish, Answered, TimeOut, Leave
<1>5. pc'[c] = l /\ pc'[Resetter] = pc[Resetter] /\ pc'[Worker] = pc[Worker]
  BY <1>1, <1>2, <1>4, Elsewhere, Apart
<1>6. CASE Publish(c)
  <2>1. pc' = [pc EXCEPT ![c] = "wait"] /\ UNCHANGED <<mutex, ready, late>> /\ pc[c] = "sent"
    BY <1>6 DEF Publish, boundVars
  <2>2. pc'[c] = "wait"
    BY <1>1, <1>2, <2>1, Elsewhere
  <2>3. (\A id, n : Due(id, n) => Due(id, n)') /\ (Served => Served') /\ (Copying => Copying')
    BY <1>2, <1>3, <1>5, <2>1, <2>2 DEF Due, Served, Copying
  <2>4. QED
    BY <1>1, <1>3, <1>5, <2>1, <2>3, NothingMoves
<1>7. CASE Answered(c)
  <2>1. ready > 0 /\ ready' = ready - 1 /\ late' = late
    BY <1>7 DEF Answered, boundVars
  <2>2. SUFFICES ASSUME ~late PROVE OneCompletion'
    BY <2>1 DEF OneCompletion
  <2>3. PICK s \in Places : OnlyAt(s)
    BY <1>1, <1>2, <2>2 DEF OneCompletion
  <2>4. ready <= 1 /\ fw' = "up"
    BY <1>1, <1>2, <1>3, <2>2 DEF OneCompletion, Once
  <2>5. s = "ready" /\ ready' = 0
    BY <1>1, <2>1, <2>3, <2>4 DEF OnlyAt, TypeOK
  <2>6. Nothing'
    BY <1>3, <1>5, <2>3, <2>5 DEF OnlyAt, Nothing, Completes
  <2>7. QED
    BY <1>1, <2>4, <2>6, NothingDue DEF OneCompletion
<1>8. CASE TimeOut(c)
  BY <1>8 DEF TimeOut, OneCompletion
<1>9. QED
  BY <1>6, <1>7, <1>8 DEF CallStep

\* The worker takes an event, copies it for who waits, and completes wmi_ready.
LEMMA WorkerOne ==
  ASSUME OwnStep, WorkerStep
  PROVE  OneCompletion'
<1> USE DEF Goto
<1>1. /\ TypeOK /\ Owned /\ Slot /\ Handling /\ OneCompletion /\ Published /\ Published'
      /\ pending \in Seq(EventType) /\ OwnIds
  BY DEF OwnStep, IInv, TypeOK, EventType
<1>2. UNCHANGED <<mutex, cmd, cmdq, todo, mbox, fw, late>>
  BY DEF WorkerStep, WorkerStart, WorkerTake, WorkerMatch, WorkerPick, WorkerCopy,
         WorkerComplete, devVars, boundVars
<1>3. PICK l : pc' = [pc EXCEPT ![Worker] = l]
  BY DEF WorkerStep, WorkerStart, WorkerTake, WorkerMatch, WorkerPick, WorkerCopy,
         WorkerComplete
<1>4. pc'[Worker] = l /\ \A x \in Threads \ {Worker} : pc'[x] = pc[x]
  BY <1>1, <1>3, Elsewhere, Apart
<1>5. /\ pc'[Resetter] = pc[Resetter] /\ (mutex \in Callers => pc'[mutex] = pc[mutex])
  BY <1>4, Apart
<1>6. \A id, n : Due(id, n) <=> Due(id, n)'
  BY <1>2, <1>5 DEF Due
<1>7. got' = got => (Served <=> Served')
  BY <1>2, <1>5 DEF Served
<1>8. SUFFICES ASSUME ~late, pc[Resetter] \in {"wait", "idle"} PROVE OneCompletion'
  BY <1>2, <1>5 DEF OneCompletion
<1>9. PICK s \in Places : OnlyAt(s)
  BY <1>1, <1>8 DEF OneCompletion
<1>10. Once /\ Copying /\ (pc[Resetter] = "idle" => fw = "up")
  BY <1>1, <1>8 DEF OneCompletion
<1>11. \A x : pc' = [pc EXCEPT ![Worker] = x] => pc'[Worker] = x
  BY <1>1, Elsewhere, Apart
<1>12. CASE WorkerStart
  <2>1. pc'[Worker] = "take" /\ UNCHANGED <<pending, evt, ready, got>>
    BY <1>11, <1>12 DEF WorkerStart, replyVars
  <2>2. Copying'
    BY <2>1 DEF Copying
  <2>3. QED
    BY <1>1, <1>2, <1>5, <1>6, <1>7, <2>1, <2>2, NothingMoves DEF Handles
<1>13. CASE WorkerTake
  <2>1. UNCHANGED <<ready, got>>
    BY <1>13 DEF WorkerTake, replyVars
  <2>2. CASE pending = <<>>
    <3>1. pc'[Worker] = "idle" /\ pending' = pending
      BY <1>11, <1>13, <2>2 DEF WorkerTake
    <3>2. OnlyAt(s)'
      BY <1>2, <1>6, <1>7, <1>9, <2>1, <3>1 DEF OnlyAt, Handles, Completes
    <3>3. Once' /\ Copying'
      BY <1>2, <1>10, <2>1, <3>1 DEF Once, Copying, Completes
    <3>4. QED
      BY <1>2, <1>5, <1>10, <3>2, <3>3 DEF OneCompletion
  <2>3. CASE pending # <<>>
    <3>1. pc'[Worker] = "match" /\ pending' = Tail(pending) /\ evt' = pending[1]
      BY <1>1, <1>11, <1>13, <2>3, Shrunk DEF WorkerTake
    <3>2. /\ 1 \in 1..Len(pending)
          /\ \A i \in 1..Len(pending') : /\ i + 1 \in 1..Len(pending) /\ i + 1 # 1
                                         /\ pending'[i] = pending[i + 1]
      BY <1>1, <2>3, <3>1, Shrunk
    <3>3. Once'
      <4>1. \A i, j \in 1..Len(pending') : Completes(pending[i])' /\ Completes(pending[j])' => i = j
        <5>1. SUFFICES ASSUME NEW i \in 1..Len(pending'), NEW j \in 1..Len(pending'),
                              Completes(pending[i])', Completes(pending[j])'
                       PROVE  i = j
          OBVIOUS
        <5>2. i + 1 = j + 1
          BY <1>10, <3>2, <5>1 DEF Once, Completes
        <5>3. QED
          BY <5>2
      <4>2. QED
        BY <1>2, <1>10, <2>1, <4>1 DEF Once, Completes
    <3>4. Copying'
      BY <3>1 DEF Copying
    <3>5. CASE Completes(pending[1])
      <4>1. s = "pending" /\ Due(pending[1].id, pending[1].n)
        BY <1>9, <3>2, <3>5 DEF OnlyAt
      <4>2. \A i \in 1..Len(pending') : ~Completes(pending[i])'
        BY <1>10, <3>2, <3>5 DEF Once, Completes
      <4>3. OnlyAt("evt")'
        BY <1>2, <1>6, <1>9, <2>1, <3>1, <4>1, <4>2 DEF OnlyAt, Completes
      <4>4. QED
        BY <1>2, <1>5, <1>10, <3>3, <3>4, <4>3 DEF OneCompletion, Places
    <3>6. CASE ~Completes(pending[1])
      <4>1. ~Completes(evt)'
        BY <3>1, <3>6 DEF Completes
      <4>2. \A i \in 1..Len(pending') :
              Completes(pending[i])' => s = "pending" /\ Due(pending[i].id, pending[i].n)'
        <5>1. SUFFICES ASSUME NEW i \in 1..Len(pending'), Completes(pending[i])'
                       PROVE  s = "pending" /\ Due(pending[i].id, pending[i].n)'
          OBVIOUS
        <5>2. Completes(pending[i + 1]) /\ i + 1 \in 1..Len(pending) /\ pending'[i] = pending[i + 1]
          BY <3>2, <5>1 DEF Completes
        <5>3. s = "pending" /\ Due(pending[i + 1].id, pending[i + 1].n)
          BY <1>9, <5>2 DEF OnlyAt
        <5>4. QED
          BY <1>2, <1>5, <5>2, <5>3 DEF Due
      <4>3. OnlyAt(s)'
        BY <1>2, <1>6, <1>7, <1>9, <2>1, <4>1, <4>2 DEF OnlyAt, Completes
      <4>4. QED
        BY <1>2, <1>5, <1>10, <3>3, <3>4, <4>3 DEF OneCompletion
    <3>7. QED
      BY <3>5, <3>6
  <2>4. QED
    BY <2>2, <2>3
<1>14. CASE WorkerMatch
  <2>1. pc[Worker] = "match" /\ UNCHANGED <<pending, evt, ready, got>>
    BY <1>14 DEF WorkerMatch, eventVars, replyVars
  <2>2. Copying'
    <3>1. SUFFICES ASSUME pc[Resetter] = "idle", l \in {"pick", "copy", "complete"}
                   PROVE  l = "pick" /\ mutex \in Callers /\ pc[mutex] = "wait"
      BY <1>2, <1>4, <1>5 DEF Copying
    <3>2. CASE Awaited
      <4>1. pc' = [pc EXCEPT ![Worker] = "pick"]
        BY <1>14, <3>2 DEF WorkerMatch
      <4>2. l = "pick"
        BY <1>4, <1>11, <4>1
      <4>3. QED
        BY <1>1, <3>2, <4>2 DEF Awaited, Slot
    <3>3. CASE ~Awaited
      <4>1. Completes(evt)
        BY <1>1, <1>4, <2>1, <3>1 DEF Published, Completes
      <4>2. Due(evt.id, evt.n)
        BY <1>9, <2>1, <4>1 DEF OnlyAt, Handles
      <4>3. mutex \in Callers /\ evt.id = cmd[mutex].id /\ cmd[mutex].id # NULL
        BY <1>1, <3>1, <4>2 DEF Due, Published
      <4>4. evt.id \notin {"fw_ready", "disconnect"}
        BY <1>1, <4>3, AskedFor
      <4>5. pc' = [pc EXCEPT ![Worker] = "take"]
        BY <1>14, <3>3, <4>4 DEF WorkerMatch, AfterEvent
      <4>6. QED
        BY <1>4, <1>11, <3>1, <4>5
    <3>4. QED
      BY <3>2, <3>3
  <2>3. QED
    BY <1>1, <1>2, <1>5, <1>6, <1>7, <2>1, <2>2, NothingMoves DEF Handles
<1>15. CASE WorkerPick
  <2>1. pc[Worker] = "pick" /\ UNCHANGED <<pending, evt, ready, got>> /\ dst' = reply_buf
        /\ pc' = [pc EXCEPT ![Worker] = IF reply_buf = NULL THEN "complete" ELSE "copy"]
    BY <1>15 DEF WorkerPick, replyVars
  <2>2. Copying'
    <3>1. SUFFICES ASSUME pc[Resetter] = "idle" PROVE Copying'
      BY <1>5 DEF Copying
    <3>2. mutex \in Callers /\ pc[mutex] = "wait"
      BY <1>10, <2>1, <3>1 DEF Copying
    <3>3. reply_buf = IF cmd[mutex].buf THEN mutex ELSE NULL
      BY <1>1, <3>2 DEF Published
    <3>4. mutex # NULL
      BY <3>2, Apart
    <3>5. CASE cmd[mutex].buf
      <4>1. pc'[Worker] = "copy" /\ dst' = mutex
        BY <1>11, <2>1, <3>3, <3>4, <3>5
      <4>2. QED
        BY <1>2, <1>5, <3>2, <4>1 DEF Copying
    <3>6. CASE ~cmd[mutex].buf
      <4>1. pc'[Worker] = "complete"
        BY <1>11, <2>1, <3>3, <3>6
      <4>2. Served'
        BY <1>2, <1>5, <3>1, <3>2, <3>6 DEF Served
      <4>3. QED
        BY <1>2, <1>5, <3>2, <4>1, <4>2 DEF Copying
    <3>7. QED
      BY <3>5, <3>6
  <2>3. QED
    BY <1>1, <1>2, <1>5, <1>6, <1>7, <2>1, <2>2, NothingMoves DEF Handles
<1>16. CASE WorkerCopy
  <2>1. /\ pc[Worker] = "copy" /\ UNCHANGED <<pending, evt, dst, ready>>
        /\ got' = [got EXCEPT ![dst] = evt.n] /\ pc'[Worker] = "complete"
    BY <1>11, <1>16 DEF WorkerCopy, replyVars, eventVars
  <2>2. pc[Resetter] = "idle" => Served'
    <3>1. SUFFICES ASSUME pc[Resetter] = "idle" PROVE Served'
      OBVIOUS
    <3>2. mutex \in Callers /\ pc[mutex] = "wait" /\ dst = mutex
      BY <1>10, <2>1, <3>1 DEF Copying
    <3>3. Completes(evt)
      BY <1>1, <2>1 DEF Published
    <3>4. evt.n = cmd[mutex].n
      BY <1>9, <2>1, <3>1, <3>3 DEF OnlyAt, Handles, Due
    <3>5. got'[mutex] = cmd[mutex].n
      BY <1>1, <2>1, <3>2, <3>4 DEF TypeOK
    <3>6. QED
      BY <1>2, <1>5, <3>1, <3>2, <3>5 DEF Served
  <2>3. Served => Served'
    <3>1. CASE pc[Resetter] = "wait"
      BY <1>2, <1>5, <3>1 DEF Served
    <3>2. QED
      BY <1>8, <2>2, <3>1
  <2>4. Copying'
    <3>1. pc[Resetter] = "idle" => mutex \in Callers /\ pc[mutex] = "wait"
      BY <1>10, <2>1 DEF Copying
    <3>2. QED
      BY <1>2, <1>5, <2>1, <2>2, <3>1 DEF Copying
  <2>5. QED
    BY <1>1, <1>2, <1>5, <1>6, <2>1, <2>3, <2>4, NothingMoves DEF Handles
<1>17. CASE WorkerComplete
  <2>1. /\ pc[Worker] = "complete" /\ UNCHANGED <<pending, evt, dst, got>>
        /\ ready' = ready + 1 /\ pc'[Worker] = "take"
    BY <1>11, <1>17 DEF WorkerComplete, eventVars, AfterEvent
  <2>2. Completes(evt)
    BY <1>1, <2>1 DEF Published
  <2>3. s = "evt" /\ Due(evt.id, evt.n)
    BY <1>9, <2>1, <2>2 DEF OnlyAt, Handles
  <2>4. ready = 0
    BY <1>1, <1>9, <2>3 DEF OnlyAt, TypeOK
  <2>5. Served
    <3>1. CASE pc[Resetter] = "wait"
      BY <2>3, <3>1 DEF Due, Served
    <3>2. CASE pc[Resetter] = "idle"
      BY <1>10, <2>1, <3>2 DEF Copying
    <3>3. QED
      BY <1>8, <3>1, <3>2
  <2>6. OnlyAt("ready")'
    BY <1>2, <1>7, <1>9, <2>1, <2>3, <2>5 DEF OnlyAt, Handles, Completes
  <2>7. Once' /\ Copying'
    BY <1>2, <1>10, <2>1, <2>4 DEF Once, Copying, Completes
  <2>8. QED
    BY <1>2, <1>5, <1>10, <2>6, <2>7 DEF OneCompletion, Places
<1>18. QED
  BY <1>12, <1>13, <1>14, <1>15, <1>16, <1>17 DEF WorkerStep

\* The interrupt thread moves what it finds.
LEMMA ReceiverOne ==
  ASSUME OwnStep, ReceiverStep
  PROVE  OneCompletion'
<1> USE DEF Goto
<1>1. /\ TypeOK /\ OneCompletion
      /\ pending \in Seq(EventType) /\ mbox \in Seq(EventType)
  BY DEF OwnStep, IInv, TypeOK, EventType
<1>2. UNCHANGED <<mutex, cmd, got, cmdq, todo, evt, dst, ready, fw, late>>
  BY DEF ReceiverStep, IrqMisc, ReceiverNotify, ReceiverStart, ReceiverLoop, devVars, boundVars,
         replyVars, eventVars
<1>3. pc'[Resetter] = pc[Resetter] /\ pc'[Worker] = pc[Worker] /\ \A c \in Callers : pc'[c] = pc[c]
  <2>1. pc' = pc \/ \E l : pc' = [pc EXCEPT ![Receiver] = l]
    BY DEF ReceiverStep, IrqMisc, ReceiverNotify, ReceiverStart, ReceiverLoop
  <2>2. \A x \in Threads \ {Receiver} : pc'[x] = pc[x]
    BY <1>1, <2>1, Elsewhere, Apart
  <2>3. QED
    BY <2>2, Apart
<1>4. (\A id, n : Due(id, n) <=> Due(id, n)') /\ (Served <=> Served') /\ (Copying <=> Copying')
  BY <1>2, <1>3 DEF Due, Served, Copying
<1>5. CASE UNCHANGED <<mbox, pending>>
  BY <1>1, <1>2, <1>3, <1>4, <1>5, NothingMoves
<1>6. CASE mbox # <<>> /\ mbox' = Tail(mbox) /\ pending' = Append(pending, Head(mbox))
  <2>1. SUFFICES ASSUME ~late, pc[Resetter] \in {"wait", "idle"} PROVE OneCompletion'
    BY <1>2, <1>3 DEF OneCompletion
  <2>2. PICK s \in Places : OnlyAt(s)
    BY <1>1, <2>1 DEF OneCompletion
  <2>3. Once /\ Copying /\ (pc[Resetter] = "idle" => fw = "up")
    BY <1>1, <2>1 DEF OneCompletion
  <2>4. /\ 1 \in 1..Len(mbox) /\ Head(mbox) = mbox[1] /\ mbox[1] \in EventType
        /\ \A i \in 1..Len(mbox') : /\ i + 1 \in 1..Len(mbox) /\ i + 1 # 1
                                    /\ mbox'[i] = mbox[i + 1]
    BY <1>1, <1>6, Shrunk
  <2>5. /\ Len(pending') = Len(pending) + 1 /\ pending'[Len(pending) + 1] = mbox[1]
        /\ \A i \in 1..Len(pending) : pending'[i] = pending[i]
        /\ \A i \in 1..Len(pending') : i \in 1..Len(pending) \/ i = Len(pending) + 1
    BY <1>1, <1>6, <2>4, Grown
  <2>6. \A i, j \in 1..Len(mbox') : Completes(mbox[i])' /\ Completes(mbox[j])' => i = j
    <3>1. SUFFICES ASSUME NEW i \in 1..Len(mbox'), NEW j \in 1..Len(mbox'),
                          Completes(mbox[i])', Completes(mbox[j])'
                   PROVE  i = j
      OBVIOUS
    <3>2. i + 1 = j + 1
      BY <2>3, <2>4, <3>1 DEF Once, Completes
    <3>3. QED
      BY <3>2
  <2>7. CASE Completes(mbox[1])
    <3>1. s = "mbox" /\ Due(mbox[1].id, mbox[1].n)
      BY <2>2, <2>4, <2>7 DEF OnlyAt
    <3>2. \A i \in 1..Len(mbox') : ~Completes(mbox[i])'
      BY <2>3, <2>4, <2>7 DEF Once, Completes
    <3>3. \A i \in 1..Len(pending) : ~Completes(pending[i])
      BY <2>2, <3>1 DEF OnlyAt
    <3>4. \A i \in 1..Len(pending') : Completes(pending[i])' => i = Len(pending) + 1
      BY <2>5, <3>3 DEF Completes
    <3>5. \A i \in 1..Len(pending') : Completes(pending[i])' => Due(pending[i].id, pending[i].n)'
      BY <1>2, <1>3, <2>5, <3>1, <3>4 DEF Due
    <3>6. OnlyAt("pending")'
      BY <1>2, <1>3, <1>4, <2>2, <3>1, <3>2, <3>5 DEF OnlyAt, Completes
    <3>7. Once'
      BY <1>2, <2>3, <2>6, <3>4 DEF Once, Completes
    <3>8. QED
      BY <1>2, <1>3, <1>4, <2>3, <3>6, <3>7 DEF OneCompletion, Places
  <2>8. CASE ~Completes(mbox[1])
    <3>1. \A i \in 1..Len(pending') : Completes(pending[i])' =>
            i \in 1..Len(pending) /\ Completes(pending[i]) /\ pending'[i] = pending[i]
      BY <2>5, <2>8 DEF Completes
    <3>2. \A i \in 1..Len(pending') :
            Completes(pending[i])' => s = "pending" /\ Due(pending[i].id, pending[i].n)'
      BY <1>2, <1>3, <2>2, <3>1 DEF OnlyAt, Due
    <3>3. \A i \in 1..Len(mbox') :
            Completes(mbox[i])' => s = "mbox" /\ Due(mbox[i].id, mbox[i].n)'
      <4>1. SUFFICES ASSUME NEW i \in 1..Len(mbox'), Completes(mbox[i])'
                     PROVE  s = "mbox" /\ Due(mbox[i].id, mbox[i].n)'
        OBVIOUS
      <4>2. Completes(mbox[i + 1]) /\ i + 1 \in 1..Len(mbox) /\ mbox'[i] = mbox[i + 1]
        BY <2>4, <4>1 DEF Completes
      <4>3. s = "mbox" /\ Due(mbox[i + 1].id, mbox[i + 1].n)
        BY <2>2, <4>2 DEF OnlyAt
      <4>4. QED
        BY <1>2, <1>3, <4>2, <4>3 DEF Due
    <3>4. OnlyAt(s)'
      BY <1>2, <1>3, <1>4, <2>2, <3>2, <3>3 DEF OnlyAt, Completes
    <3>5. \A i, j \in 1..Len(pending') : Completes(pending[i])' /\ Completes(pending[j])' => i = j
      BY <2>3, <3>1 DEF Once
    <3>6. Once'
      BY <1>2, <2>3, <2>6, <3>5 DEF Once, Completes
    <3>7. QED
      BY <1>2, <1>3, <1>4, <2>3, <3>4, <3>6 DEF OneCompletion
  <2>9. QED
    BY <2>7, <2>8
<1>7. QED
  BY <1>5, <1>6 DEF ReceiverStep, IrqMisc, ReceiverNotify, ReceiverStart, ReceiverLoop, devVars, eventVars

\* A reset takes back what was left over, unless a thread is at work, which makes it
\* late.
LEMMA ResetOne ==
  ASSUME OwnStep, ResetBegin \/ ResetStep
  PROVE  OneCompletion'
<1> USE DEF Goto
<1>1. TypeOK /\ OneCompletion /\ Published' /\ FreshFirmware
  BY DEF OwnStep, IInv
<1>2. \A l : pc' = [pc EXCEPT ![Resetter] = l] => pc'[Resetter] = l /\ pc'[Worker] = pc[Worker]
  BY <1>1, Elsewhere, Apart
<1>3. CASE ResetBegin \/ ResetFlush \/ ResetDrained \/ ResetTarget
  <2>1. pc'[Resetter] \in {"flush", "drain", "target", "init"}
    BY <1>2, <1>3 DEF ResetBegin, ResetFlush, ResetDrained, ResetTarget
  <2>2. QED
    BY <2>1 DEF OneCompletion
<1>4. CASE ResetInit
  <2>1. /\ pc[Resetter] = "init" /\ pc'[Resetter] = "wait" /\ pc'[Worker] = pc[Worker]
        /\ ready' = 0 /\ UNCHANGED <<todo, cmdq, fw, mbox, pending>>
        /\ ~late' => pending = <<>> /\ pc[Worker] = "idle"
    BY <1>2, <1>4 DEF ResetInit, eventVars
  <2>2. SUFFICES ASSUME ~late' PROVE OneCompletion'
    BY DEF OneCompletion
  <2>3. /\ todo = {} /\ \A i \in 1..Len(cmdq) : cmdq[i].id = NULL
        /\ fw = "boot" => mbox = <<>>
        /\ \A i \in 1..Len(mbox) : Completes(mbox[i]) => i = 1 /\ mbox[i].id = "fw_ready"
    BY <1>1, <2>1 DEF FreshFirmware
  <2>4. \A i \in 1..Len(mbox) : fw = "up"
    BY <1>1, <2>3 DEF TypeOK
  <2>5. OnlyAt("mbox")'
    BY <2>1, <2>2, <2>3, <2>4 DEF OnlyAt, Due, Handles, Completes
  <2>6. Once'
    BY <2>1, <2>2, <2>3 DEF Once, Completes
  <2>7. QED
    BY <2>1, <2>5, <2>6 DEF OneCompletion, Copying, Places
<1>5. CASE ResetEnd
  <2>1. /\ pc[Resetter] = "wait" /\ pc'[Resetter] = "idle" /\ pc'[Worker] = pc[Worker]
        /\ UNCHANGED <<todo, cmdq, fw, mbox, pending, evt>>
        /\ ~late' => ~late /\ ready > 0 /\ ready' = ready - 1
    BY <1>2, <1>5 DEF ResetEnd, eventVars, devVars
  <2>2. SUFFICES ASSUME ~late' PROVE OneCompletion'
    BY DEF OneCompletion
  <2>3. PICK s \in Places : OnlyAt(s)
    BY <1>1, <2>1, <2>2 DEF OneCompletion
  <2>4. s = "ready" /\ fw = "up"
    BY <2>1, <2>2, <2>3 DEF OnlyAt, Served
  <2>5. ready' = 0
    BY <1>1, <2>1, <2>2 DEF OneCompletion, Once, TypeOK
  <2>6. Nothing'
    BY <2>1, <2>3, <2>4, <2>5 DEF OnlyAt, Nothing, Completes
  <2>7. QED
    BY <1>1, <2>1, <2>4, <2>6, NothingDue
<1>6. QED
  BY <1>3, <1>4, <1>5 DEF ResetStep

\* The firmware is ready once, and answers a command once.
LEMMA FirmwareOne ==
  ASSUME OwnStep, FwStep
  PROVE  OneCompletion'
<1>1. /\ TypeOK /\ OneCompletion /\ Published'
      /\ cmdq \in Seq(Commands) /\ mbox \in Seq(EventType)
  BY DEF OwnStep, IInv, TypeOK, EventType
<1>2. UNCHANGED <<pc, mutex, cmd, got, pending, evt, dst, ready, late>>
  BY DEF FwStep, FwBoot, FwTake, FwReply, FwNews, FwError, threadVars, replyVars, eventVars, boundVars
<1>3. SUFFICES ASSUME ~late, pc[Resetter] \in {"wait", "idle"} PROVE OneCompletion'
  BY <1>2 DEF OneCompletion
<1>4. PICK s \in Places : OnlyAt(s)
  BY <1>1, <1>3 DEF OneCompletion
<1>5. Once /\ Copying /\ (pc[Resetter] = "idle" => fw = "up")
  BY <1>1, <1>3 DEF OneCompletion
<1>6. fw' = "up" => /\ \A id, n : Due(id, n) => Due(id, n)'
                    /\ Served => Served'
                    /\ Copying'
  BY <1>2, <1>3, <1>5 DEF Due, Served, Copying
<1>7. CASE FwBoot
  <2>1. /\ fw = "boot" /\ fw' = "up" /\ UNCHANGED <<cmdq, todo>>
        /\ mbox' = Append(mbox, [id |-> "fw_ready", n |-> 0])
    BY <1>7 DEF FwBoot, Post
  <2>2. pc[Resetter] = "wait"
    BY <1>3, <1>5, <2>1
  <2>3. (\A id, n : ~Due(id, n)) /\ ~Served
    BY <2>1, <2>2 DEF Due, Served
  <2>4. [id |-> "fw_ready", n |-> 0] \in EventType
    BY BoundAssumption DEF EventType, EventIds
  <2>5. /\ Len(mbox') = Len(mbox) + 1
        /\ \A i \in 1..Len(mbox) : ~Completes(mbox[i]) /\ mbox'[i] = mbox[i]
        /\ mbox'[Len(mbox) + 1].id = "fw_ready"
        /\ \A i \in 1..(Len(mbox) + 1) : i \in 1..Len(mbox) \/ i = Len(mbox) + 1
    BY <1>1, <1>4, <2>1, <2>3, <2>4, Grown DEF OnlyAt
  <2>6. \A i \in 1..Len(mbox') : Completes(mbox'[i]) => i = Len(mbox) + 1
    BY <2>5
  <2>7. OnlyAt("mbox")'
    <3>1. \A i \in 1..Len(mbox') : Completes(mbox[i])' => Due(mbox[i].id, mbox[i].n)'
      BY <1>2, <2>1, <2>2, <2>5, <2>6 DEF Due, Completes
    <3>2. QED
      BY <1>2, <1>4, <2>1, <2>3, <3>1 DEF OnlyAt, Completes
  <2>8. Once'
    BY <1>2, <1>5, <2>1, <2>6 DEF Once, Completes
  <2>9. QED
    BY <1>2, <1>6, <2>1, <2>7, <2>8 DEF OneCompletion, Places
<1>8. CASE FwTake
  <2>1. /\ cmdq # <<>> /\ cmdq' = Tail(cmdq) /\ UNCHANGED <<mbox, fw>> /\ fw = "up"
        /\ todo' = todo \cup {c \in {Head(cmdq)} : c.id # NULL}
    BY <1>8 DEF FwTake
  <2>2. /\ 1 \in 1..Len(cmdq) /\ Head(cmdq) = cmdq[1]
        /\ \A i \in 1..Len(cmdq') : /\ i + 1 \in 1..Len(cmdq) /\ i + 1 # 1
                                    /\ cmdq'[i] = cmdq[i + 1]
    BY <1>1, <2>1, Shrunk
  <2>3. \A i, j \in 1..Len(cmdq') : cmdq'[i].id # NULL /\ cmdq'[j].id # NULL => i = j
    <3>1. SUFFICES ASSUME NEW i \in 1..Len(cmdq'), NEW j \in 1..Len(cmdq'),
                          cmdq'[i].id # NULL, cmdq'[j].id # NULL
                   PROVE  i = j
      OBVIOUS
    <3>2. i + 1 = j + 1
      BY <1>5, <2>2, <3>1 DEF Once
    <3>3. QED
      BY <3>2
  <2>4. CASE cmdq[1].id # NULL
    <3>1. s = "cmdq" /\ Due(cmdq[1].id, cmdq[1].n)
      BY <1>4, <2>2, <2>4 DEF OnlyAt
    <3>2. \A i \in 1..Len(cmdq') : cmdq'[i].id = NULL
      BY <1>5, <2>2, <2>4 DEF Once
    <3>3. todo' = {cmdq[1]}
      BY <1>4, <2>1, <2>2, <2>4, <3>1 DEF OnlyAt
    <3>4. OnlyAt("todo")'
      BY <1>2, <1>4, <1>6, <2>1, <3>1, <3>2, <3>3 DEF OnlyAt, Completes
    <3>5. Once'
      BY <1>2, <1>5, <2>1, <2>3, <3>3 DEF Once, Completes
    <3>6. QED
      BY <1>2, <1>6, <2>1, <3>4, <3>5 DEF OneCompletion, Places
  <2>5. CASE cmdq[1].id = NULL
    <3>1. todo' = todo
      BY <2>1, <2>2, <2>5
    <3>2. \A i \in 1..Len(cmdq') : cmdq'[i].id # NULL => s = "cmdq" /\ Due(cmdq[i].id, cmdq[i].n)'
      <4>1. SUFFICES ASSUME NEW i \in 1..Len(cmdq'), cmdq'[i].id # NULL
                     PROVE  s = "cmdq" /\ Due(cmdq[i].id, cmdq[i].n)'
        OBVIOUS
      <4>2. s = "cmdq" /\ Due(cmdq[i + 1].id, cmdq[i + 1].n)
        BY <1>4, <2>2, <4>1 DEF OnlyAt
      <4>3. QED
        BY <1>2, <2>1, <2>2, <4>2 DEF Due
    <3>3. OnlyAt(s)'
      BY <1>2, <1>4, <1>6, <2>1, <3>1, <3>2 DEF OnlyAt, Completes
    <3>4. Once'
      BY <1>2, <1>5, <2>1, <2>3, <3>1 DEF Once, Completes
    <3>5. QED
      BY <1>2, <1>6, <2>1, <3>3, <3>4 DEF OneCompletion
  <2>6. QED
    BY <2>4, <2>5
<1>9. CASE FwReply
  <2>1. PICK c \in todo : todo' = todo \ {c} /\ mbox' = Append(mbox, [id |-> c.id, n |-> c.n])
    BY <1>9 DEF FwReply, Post
  <2>2. UNCHANGED <<cmdq, fw>> /\ fw = "up"
    BY <1>9 DEF FwReply
  <2>3. s = "todo" /\ Due(c.id, c.n) /\ todo' = {}
    BY <1>4, <1>5, <2>1 DEF OnlyAt, Once
  <2>4. [id |-> c.id, n |-> c.n] \in EventType
    <3>1. c \in Commands /\ c.id # NULL
      BY <2>1 DEF OwnStep, IInv, TypeOK, Handling
    <3>2. c.id \in EventIds /\ c.n \in 0..MaxCalls
      BY <3>1, BoundAssumption DEF Commands, DisconnectSta, EventIds
    <3>3. QED
      BY <3>2 DEF EventType
  <2>5. /\ Len(mbox') = Len(mbox) + 1
        /\ \A i \in 1..Len(mbox) : ~Completes(mbox[i]) /\ mbox'[i] = mbox[i]
        /\ mbox'[Len(mbox) + 1] = [id |-> c.id, n |-> c.n]
        /\ \A i \in 1..(Len(mbox) + 1) : i \in 1..Len(mbox) \/ i = Len(mbox) + 1
    BY <1>1, <1>4, <2>1, <2>3, <2>4, Grown DEF OnlyAt
  <2>6. \A i \in 1..Len(mbox') : Completes(mbox'[i]) => i = Len(mbox) + 1
    BY <2>5
  <2>7. OnlyAt("mbox")'
    <3>1. \A i \in 1..Len(mbox') : Completes(mbox[i])' => Due(mbox[i].id, mbox[i].n)'
      BY <1>2, <2>2, <2>3, <2>5, <2>6 DEF Due, Completes
    <3>2. QED
      BY <1>2, <1>4, <2>2, <2>3, <3>1 DEF OnlyAt, Completes
  <2>8. Once'
    BY <1>2, <1>5, <2>2, <2>3, <2>6 DEF Once, Completes
  <2>9. QED
    BY <1>2, <1>6, <2>2, <2>7, <2>8 DEF OneCompletion, Places
<1>10. CASE FwNews
  <2>1. /\ mbox' = Append(mbox, [id |-> "disconnect", n |-> 0])
        /\ UNCHANGED <<cmdq, todo, fw>> /\ fw = "up"
    BY <1>10 DEF FwNews, Post
  <2>2. [id |-> "disconnect", n |-> 0] \in EventType
    BY BoundAssumption DEF EventType, EventIds
  <2>3. \A i \in 1..Len(mbox') : Completes(mbox'[i]) =>
          i \in 1..Len(mbox) /\ Completes(mbox[i]) /\ mbox'[i] = mbox[i]
    BY <1>1, <2>1, <2>2, Grown DEF Completes
  <2>4. \A i \in 1..Len(mbox') : Completes(mbox[i])' => s = "mbox" /\ Due(mbox[i].id, mbox[i].n)'
    BY <1>2, <1>4, <2>1, <2>3 DEF OnlyAt, Due, Completes
  <2>5. OnlyAt(s)'
    BY <1>2, <1>4, <1>6, <2>1, <2>4 DEF OnlyAt, Completes
  <2>6. Once'
    BY <1>2, <1>5, <2>1, <2>3 DEF Once, Completes
  <2>7. QED
    BY <1>2, <1>6, <2>1, <2>5, <2>6 DEF OneCompletion
<1>11. CASE FwError
  <2>1. UNCHANGED <<cmdq, todo, mbox, fw>>
    BY <1>11 DEF FwError
  <2>2. (\A id, n : Due(id, n) => Due(id, n)') /\ (Served => Served') /\ (Copying => Copying')
    BY <1>2, <2>1 DEF Due, Served, Copying
  <2>3. QED
    BY <1>1, <1>2, <2>1, <2>2, NothingMoves
<1>12. QED
  BY <1>7, <1>8, <1>9, <1>10, <1>11 DEF FwStep

-----------------------------------------------------------------------------
\* At the start the reset waits for a firmware that boots.
LEMMA OwnInit == Init => OwnInv
<1> SUFFICES ASSUME Init PROVE OwnInv
  OBVIOUS
<1>1. /\ pc[Resetter] = "wait" /\ pc[Worker] = "idle" /\ \A c \in Callers : pc[c] = "idle"
      /\ cmdq = <<>> /\ mbox = <<>> /\ pending = <<>> /\ todo = {} /\ ready = 0
  BY Apart DEF Init
<1>2. Published /\ FreshFirmware
  BY <1>1 DEF Published, FreshFirmware
<1>3. OnlyAt("cmdq") /\ Once /\ Copying
  BY <1>1 DEF OnlyAt, Once, Copying, Handles
<1>4. QED
  BY <1>1, <1>2, <1>3 DEF OwnInv, OneCompletion, Places

\* Every step keeps it so.
LEMMA OwnInvStep ==
  ASSUME Exclusive, OwnIds
  PROVE  IInv /\ IInv' /\ OwnInv /\ [Next]_vars => OwnInv'
<1> SUFFICES ASSUME IInv, IInv', OwnInv, [Next]_vars PROVE OwnInv'
  OBVIOUS
<1>1. CASE UNCHANGED vars
  <2>1. UNCHANGED <<pc, cmd, got, mutex, reply_id, reply_buf, ready, pending, evt, dst,
                    cmdq, mbox, fw, todo, late>>
    BY <1>1 DEF vars, threadVars, replyVars, eventVars, statusVars, devVars, boundVars
  <2>2. Published' /\ FreshFirmware'
    BY <2>1 DEF OwnInv, Published, FreshFirmware, Completes
  <2>3. OneCompletion'
    BY <2>1, NothingMoves DEF OwnInv, Copying, Due, Served
  <2>4. QED
    BY <2>2, <2>3 DEF OwnInv
<1>2. CASE Next
  <2>1. Published' /\ FreshFirmware'
    BY <1>2, PublishedStep, FreshStep DEF OwnInv
  <2>2. OwnStep
    BY <2>1 DEF OwnStep, OwnInv
  <2>3. OneCompletion'
    BY <1>2, <2>2, BeginOne, CallOne, SendOne, WorkerOne, ReceiverOne, ResetOne, FirmwareOne
    DEF Next, Sender
  <2>4. QED
    BY <2>1, <2>3 DEF OwnInv
<1>3. QED
  BY <1>1, <1>2

\* Unless a wait has timed out since the last reset, a call that is completed has the
\* reply to its own command: there is one completion, for the reset or for the one
\* call that waits, and it comes after the copy (wmi.c:787, 1353).
THEOREM RepliesOwn ==
  ASSUME Exclusive, OwnIds
  PROVE  Spec => OwnReply
<1>1. IInv /\ OwnInv =>
        [\A c \in Callers :
           Answered(c) /\ ~late /\ cmd[c].buf => got[c] = cmd[c].n]_vars
  <2>1. SUFFICES ASSUME IInv, OwnInv, NEW c \in Callers, Answered(c), ~late, cmd[c].buf
                 PROVE  got[c] = cmd[c].n
    OBVIOUS
  <2>2. pc[c] = "wait" /\ ready > 0 /\ mutex = c
    BY <2>1, Apart DEF Answered, IInv, Owned
  <2>3. pc[Resetter] = "idle"
    BY <2>1, <2>2 DEF OwnInv, Published
  <2>4. Served
    BY <2>1, <2>2, <2>3 DEF OwnInv, OneCompletion, OnlyAt
  <2>5. QED
    BY <2>1, <2>2, <2>3, <2>4 DEF Served
<1>2. Init => OwnInv
  BY OwnInit
<1>3. IInv /\ IInv' /\ OwnInv /\ [Next]_vars => OwnInv'
  BY OwnInvStep
<1>4. QED
  BY <1>1, <1>2, <1>3, Inductive, PTL DEF Spec, OwnReply
=============================================================================
