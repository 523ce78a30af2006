---------------------------- MODULE ProbeRemove ----------------------------
(***************************************************************************)
(* The life of one device: pcie_bus.c (probe, its roll-back, remove) with  *)
(* what it calls in netdev.c, cfg80211.c, main.c and interrupt.c to take   *)
(* and to give back resources, against all that may run meanwhile: the     *)
(* interrupt thread, the WMI event worker, the connect, Block Ack, ROC and *)
(* disconnect workers, the connect timer, and calls from user space.       *)
(*                                                                         *)
(* A resource is a name.  Probe takes them in the order of ProbeOrder; if  *)
(* it cannot take one, and in remove, what is still to be done is the list *)
(* todo.  The work of the interrupt handlers and workers is reduced to the *)
(* work that they queue; StaRings, WmiCall, Interrupts and ClientIface     *)
(* have the rest.                                                          *)
(*                                                                         *)
(* The names differ from those of Interrupts, so that a module may have    *)
(* both.                                                                   *)
(*                                                                         *)
(* A definition named X_m_... is X with a plausible slip; no specification *)
(* uses it, it stands in for X when a property is tested against it.       *)
(***************************************************************************)
EXTENDS Naturals, SequencesExt

CONSTANTS
  use_msi,   (* the module parameter: MSIs to ask for, 0, 1 or 3       *)
  Fails,     (* the members of ProbeOrder that probe may be refused    *)
  EvMax      (* events that wait for the event worker                  *)

ProbeOrder ==
  <<"device", "region", "csr",                    \* wil_pcie_probe
    "wdev", "wiphy", "registered",                \* wil_cfg80211_init
    "wmi_wq", "wmi_wq_conn", "back_wq", "roc_wq", \* wil_priv_init
    "ndev",                                       \* wil_if_alloc
    "master", "msi",                              \* wil_if_pcie_enable
    "irq0", "irq1", "irq2", "reset",
    "netdev", "debugfs">>                         \* wil_if_add and after

ASSUME UseMsiAssumption == use_msi \in {0, 1, 3}
ASSUME FailsAssumption == Fails \subseteq ToSet(ProbeOrder) \ {"master", "msi", "debugfs"}
ASSUME EvMaxAssumption == EvMax \in Nat \ {0}

VARIABLES
  phase,     (* "unbound", "probe", "bound", "release", or "dead" after an oops *)
  at,        (* (probe) the member of ProbeOrder to be taken next        *)
  todo,      (* (release) what roll-back or remove has yet to do         *)
  held,      (* the resources the driver holds, since it was bound last  *)
  got_msi,   (* wil->n_msi, the MSIs it got                              *)
  enabled,   (* the device may raise interrupts                          *)
  up,        (* the network device is up                                 *)
  isr,       (* the thread of the misc interrupt runs                    *)
  events,    (* pending_wmi_ev: the kinds of the events that wait        *)
  conn, back, disc,      (* the workers: "idle", "queued" or "run"       *)
  evt,       (* the event worker: so, or the kind of the event it handles *)
  roc,       (* roc.work: "idle", "delayed" or "queued"                  *)
  timer      (* connect_timer is armed                                   *)

busVars == <<phase, at, todo, held, got_msi>>
workVars == <<evt, conn, back, disc, roc, timer>>
probeVars == <<busVars, enabled, up, isr, events, workVars>>

Kind == {"connect", "addba", "other"}

ProbeInit ==
  /\ phase = "unbound" /\ at = 1 /\ todo = <<>>
  /\ held = {} /\ got_msi = 0
  /\ enabled = FALSE /\ up = FALSE /\ isr = FALSE
  /\ events = <<>>
  /\ evt = "idle" /\ conn = "idle" /\ back = "idle" /\ disc = "idle"
  /\ roc = "idle"
  /\ timer = FALSE

-----------------------------------------------------------------------------
(* What the functions that give resources back do, in order.               *)

undo_region == <<"region", "device">>
undo_csr_m_wrong_label == undo_region

undo_csr == <<"csr">> \o undo_region

wil_wdev_free == <<"registered", "wiphy", "wdev">>

wil_priv_deinit_m_back_first ==
  <<"cancel_disc", "disconnect", "flush", "back_wq", "roc_wq", "wmi_wq_conn", "wmi_wq">>

wil_priv_deinit ==
  <<"cancel_disc", "disconnect", "flush", "roc_wq", "wmi_wq_conn", "wmi_wq", "back_wq">>

wil_if_free == <<"ndev">> \o wil_priv_deinit \o wil_wdev_free

wil6210_fini_irq_m_all_lines(n) == <<"disable_irq", "irq0", "irq1", "irq2">>

wil6210_fini_irq(n) ==
  <<"disable_irq", "irq0">> \o (IF n = 3 THEN <<"irq1", "irq2">> ELSE <<>>)

wil_if_pcie_disable(n) == <<"master">> \o wil6210_fini_irq(n) \o <<"msi">>

wil_pcie_remove(n) ==
  <<"debugfs">> \o wil_if_pcie_disable(n) \o <<"netdev">> \o wil_if_free \o undo_csr

\* What each function undoes itself when it cannot take r; n is got_msi.

wil_cfg80211_init(r) ==
  CASE r = "wdev" -> <<>>
    [] r = "wiphy" -> <<"wdev">>
    [] r = "registered" -> <<"wiphy", "wdev">>

wil_priv_init(r) ==
  CASE r = "wmi_wq" -> <<>>
    [] r = "wmi_wq_conn" -> <<"wmi_wq">>
    [] r \in {"back_wq", "roc_wq"} -> <<"wmi_wq_conn", "wmi_wq">>

InCfg == {"wdev", "wiphy", "registered"}
InPriv == {"wmi_wq", "wmi_wq_conn", "back_wq", "roc_wq"}
InEnable == {"irq0", "irq1", "irq2", "reset"}

wil_if_alloc(r) ==
  CASE r \in InCfg -> wil_cfg80211_init(r)
    [] r \in InPriv -> wil_priv_init(r) \o wil_wdev_free
    [] r = "ndev" -> wil_priv_deinit \o wil_wdev_free

wil6210_request_3msi(r) ==
  CASE r = "irq0" -> <<>>
    [] r = "irq1" -> <<"irq0">>
    [] r = "irq2" -> <<"irq1", "irq0">>

wil_if_pcie_enable(r, n) ==
  IF r = "reset" THEN wil6210_fini_irq(n) \o <<"msi", "master">>
  ELSE wil6210_request_3msi(r) \o <<"master">>

\* What probe does, with these, when it cannot take r.
Rollback(r, n) ==
  CASE r = "device" -> <<>>
    [] r = "region" -> <<"device">>
    [] r = "csr" -> undo_region
    [] r \in InCfg \cup InPriv \cup {"ndev"} -> wil_if_alloc(r) \o undo_csr
    [] r \in InEnable -> wil_if_pcie_enable(r, n) \o wil_if_free \o undo_csr
    [] r = "netdev" -> wil_if_pcie_disable(n) \o wil_if_free \o undo_csr

-----------------------------------------------------------------------------
(* Probe and remove.                                                       *)

\* The line of the misc interrupt, which brings events.
MiscLine == IF got_msi = 3 THEN "irq2" ELSE "irq0"

\* Probe goes on, or is done.
Advance == at' = at + 1 /\ phase' = IF at = Len(ProbeOrder) THEN "bound" ELSE "probe"

ProbeBegin ==
  /\ phase = "unbound"
  /\ phase' = "probe" /\ at' = 1
  /\ UNCHANGED <<todo, held, got_msi, enabled, up, isr, events, workVars>>

\* One MSI if three are refused, INTx if that is refused too.
TakeMsi ==
  /\ phase = "probe" /\ ProbeOrder[at] = "msi"
  /\ \E n \in {m \in {0, 1, 3} : m <= use_msi} :
       /\ got_msi' = n
       /\ held' = IF n = 0 THEN held ELSE held \cup {"msi"}
  /\ Advance
  /\ UNCHANGED <<todo, enabled, up, isr, events, workVars>>

\* Interrupts are enabled once every line is requested.
Take ==
  LET r == ProbeOrder[at]
      needed == r \in {"irq1", "irq2"} => got_msi = 3
  IN /\ phase = "probe" /\ r \notin {"msi", "reset"}
     /\ held' = IF needed THEN held \cup {r} ELSE held
     /\ enabled' = (enabled \/ r = "irq2")
     /\ Advance
     /\ UNCHANGED <<todo, got_msi, up, isr, events, workVars>>

\* wil_reset, as far as it concerns this module: work is cancelled or waited
\* for.  The connect worker is waited for before the event worker, which may
\* queue it again.
wil_reset ==
  /\ disc # "run" /\ evt = "idle" /\ back = "idle"
  /\ disc' = "idle"
  /\ timer' = FALSE
  /\ events' = <<>>
  /\ enabled' = TRUE
  /\ UNCHANGED <<got_msi, isr, evt, conn, back, roc>>

ProbeReset ==
  /\ phase = "probe" /\ ProbeOrder[at] = "reset"
  /\ wil_reset
  /\ Advance
  /\ UNCHANGED <<todo, held, up>>

Refused ==
  LET r == ProbeOrder[at]
  IN /\ phase = "probe" /\ r \in Fails
     /\ r \in {"irq1", "irq2"} => got_msi = 3
     /\ IF r = "reset" THEN wil_reset
        ELSE UNCHANGED <<got_msi, enabled, isr, events, workVars>>
     /\ phase' = "release"
     /\ todo' = Rollback(r, got_msi)
     /\ UNCHANGED <<at, held, up>>

RemoveBegin ==
  /\ phase = "bound"
  /\ phase' = "release"
  /\ todo' = wil_pcie_remove(got_msi)
  /\ UNCHANGED <<at, held, got_msi, enabled, up, isr, events, workVars>>

\* The next thing to be done is x; ...
Comes(x) ==
  /\ phase = "release" /\ todo # <<>> /\ Head(todo) = x
  /\ todo' = Tail(todo)
  /\ UNCHANGED <<phase, at, got_msi>>

\* ... and it is done.
Does(x) == Comes(x) /\ held' = held \ {x}

\* Remove, and not the roll-back of probe, is under way.
Removing == at > Len(ProbeOrder)

\* What may run or be asked for while x is given back is waited for.
Idle(x) ==
  /\ x = "wmi_wq" => evt = "idle"
  /\ x = "wmi_wq_conn" => conn = "idle"
  /\ x = "back_wq" => back = "idle"
  /\ x = "roc_wq" => roc # "queued"
  /\ x = MiscLine => ~isr

GiveBack ==
  /\ \E x \in ToSet(ProbeOrder) \ {"netdev", "csr"} : Idle(x) /\ Does(x)
  /\ UNCHANGED <<enabled, up, isr, events, workVars>>

\* Probe unmaps the registers by a variable of its own; remove reads wil->csr, when
\* wil is freed: what it unmaps may be something else, or nothing.
Unmap ==
  /\ Comes("csr")
  /\ held' = held \ {"csr"} \/ (Removing /\ held' = held)
  /\ UNCHANGED <<enabled, up, isr, events, workVars>>

\* unregister_netdev takes the interface down, if it is up, by wil_stop.
wil_down_m_keeps_timer == up' = FALSE /\ UNCHANGED timer

wil_down == up' = FALSE /\ timer' = FALSE

wil_if_remove ==
  /\ Does("netdev")
  /\ IF up THEN wil_down ELSE UNCHANGED <<up, timer>>
  /\ UNCHANGED <<enabled, isr, events, evt, conn, back, disc, roc>>

DisableIrq ==
  /\ Does("disable_irq")
  /\ enabled' = FALSE
  /\ UNCHANGED <<up, isr, events, workVars>>

CancelDisc ==
  /\ Does("cancel_disc")
  /\ disc # "run"
  /\ disc' = "idle"
  /\ UNCHANGED <<enabled, up, isr, events, evt, conn, back, roc, timer>>

\* wdev->netdev is NULL: the network device could not be allocated.
NoNetdev == ~Removing /\ ProbeOrder[at] = "ndev"

\* wil6210_disconnect(wil, NULL).
DeinitDisconnect ==
  /\ Does("disconnect") /\ ~NoNetdev
  /\ timer' = FALSE
  /\ UNCHANGED <<enabled, up, isr, events, evt, conn, back, disc, roc>>

\* Without a network device wil_link_off, which it calls, dereferences NULL: the thread
\* that probes dies, and the device stays locked.
Oops ==
  /\ phase = "release" /\ todo # <<>> /\ Head(todo) = "disconnect" /\ NoNetdev
  /\ phase' = "dead" /\ todo' = <<>>
  /\ timer' = FALSE
  /\ UNCHANGED <<at, held, got_msi, enabled, up, isr, events, evt, conn, back, disc, roc>>

StaysDead == phase = "dead" /\ UNCHANGED probeVars

\* wmi_event_flush and wil_back_flush.
DeinitFlush ==
  /\ Does("flush")
  /\ events' = <<>>
  /\ UNCHANGED <<enabled, up, isr, workVars>>

\* What is still held then is never given back.
Unbound ==
  /\ phase = "release" /\ todo = <<>>
  /\ phase' = "unbound" /\ held' = {}
  /\ UNCHANGED <<at, todo, got_msi, enabled, up, isr, events, workVars>>

-----------------------------------------------------------------------------
(* Interrupts, timer and workers.                                          *)

\* The firmware raises the misc interrupt.
IsrBegin ==
  /\ enabled /\ MiscLine \in held /\ ~isr
  /\ isr' = TRUE
  /\ UNCHANGED <<busVars, enabled, up, events, workVars>>

\* wmi_recv_cmd: an event of a kind that queues more work, or of another.
\* The thread may find nothing.
IsrEnd ==
  /\ isr /\ isr' = FALSE
  /\ \/ /\ Len(events) < EvMax
        /\ \E k \in Kind : events' = Append(events, k)
        /\ evt' = IF evt = "idle" THEN "queued" ELSE evt
     \/ UNCHANGED <<events, evt>>
  /\ UNCHANGED <<busVars, enabled, up, conn, back, disc, roc, timer>>

EvtBegin ==
  /\ evt = "queued" /\ evt' = "run"
  /\ UNCHANGED <<busVars, enabled, up, isr, events, conn, back, disc, roc, timer>>

Queue(w) == IF w = "idle" THEN "queued" ELSE w

\* next_wmi_ev: the event leaves the list before it is handled.
EvtTake ==
  /\ evt = "run" /\ events # <<>>
  /\ evt' = Head(events) /\ events' = Tail(events)
  /\ UNCHANGED <<busVars, enabled, up, isr, conn, back, disc, roc, timer>>

\* The handler of the event.  A connect event that comes out of turn, and an
\* ADDBA request that cannot be stored, queue nothing.
EvtHandle ==
  /\ evt \in Kind
  /\ \/ evt = "connect" /\ timer' = FALSE /\ conn' = Queue(conn) /\ UNCHANGED back
     \/ evt = "addba" /\ back' = Queue(back) /\ UNCHANGED <<timer, conn>>
     \/ UNCHANGED <<timer, conn, back>>
  /\ evt' = "run"
  /\ UNCHANGED <<busVars, enabled, up, isr, events, disc, roc>>

EvtEnd ==
  /\ evt = "run" /\ events = <<>>
  /\ evt' = "idle"
  /\ UNCHANGED <<busVars, enabled, up, isr, events, conn, back, disc, roc, timer>>

\* A worker that waits begins, one that runs ends.
Step(w) == (w = "queued" /\ w' = "run") \/ (w = "run" /\ w' = "idle")

ConnStep ==
  /\ Step(conn)
  /\ UNCHANGED <<busVars, enabled, up, isr, events, evt, back, disc, roc, timer>>

BackStep ==
  /\ Step(back)
  /\ UNCHANGED <<busVars, enabled, up, isr, events, evt, conn, disc, roc, timer>>

DiscStep ==
  /\ Step(disc)
  /\ UNCHANGED <<busVars, enabled, up, isr, events, evt, conn, back, roc, timer>>

TimerFires ==
  /\ timer /\ timer' = FALSE
  /\ disc' = Queue(disc)
  /\ UNCHANGED <<busVars, enabled, up, isr, events, evt, conn, back, roc>>

RocStep ==
  /\ \/ roc = "delayed" /\ roc' = "queued"
     \/ roc = "queued" /\ roc' = "idle"
  /\ UNCHANGED <<busVars, enabled, up, isr, events, evt, conn, back, disc, timer>>

-----------------------------------------------------------------------------
(* User space, while the network device is registered.                     *)

\* Without its interrupt the firmware's ready event is never seen.
wil_open ==
  /\ "netdev" \in held /\ ~up
  /\ wil_reset
  /\ up' \in (IF MiscLine \in held THEN BOOLEAN ELSE {FALSE})
  /\ UNCHANGED <<phase, at, todo, held>>

wil_stop ==
  /\ "netdev" \in held /\ up
  /\ wil_down
  /\ UNCHANGED <<busVars, enabled, isr, events, evt, conn, back, disc, roc>>

\* The command of a connection attempt has no reply.
Connect ==
  /\ "netdev" \in held /\ up
  /\ timer' = TRUE
  /\ UNCHANGED <<busVars, enabled, up, isr, events, evt, conn, back, disc, roc>>

\* Start listening has one.
Listen ==
  /\ "netdev" \in held /\ up /\ MiscLine \in held
  /\ roc = "idle" /\ roc' = "delayed"
  /\ UNCHANGED <<busVars, enabled, up, isr, events, evt, conn, back, disc, timer>>

-----------------------------------------------------------------------------
Release == GiveBack \/ Unmap \/ wil_if_remove \/ DisableIrq \/ CancelDisc \/ DeinitDisconnect
           \/ Oops \/ StaysDead \/ DeinitFlush \/ Unbound

Works == IsrEnd \/ EvtBegin \/ EvtTake \/ EvtHandle \/ EvtEnd \/ ConnStep \/ BackStep \/ DiscStep
         \/ TimerFires \/ RocStep

User == wil_open \/ wil_stop \/ Connect \/ Listen

ProbeNext ==
  \/ ProbeBegin \/ TakeMsi \/ Take \/ ProbeReset \/ Refused \/ RemoveBegin
  \/ Release \/ IsrBegin \/ Works \/ User

ProbeSpec == ProbeInit /\ [][ProbeNext]_probeVars

-----------------------------------------------------------------------------
(* Properties.                                                             *)

Worker == {"idle", "queued", "run"}

\* The type of the state.
ProbeTypeOK ==
  /\ phase \in {"unbound", "probe", "bound", "release", "dead"}
  /\ at \in 1..(Len(ProbeOrder) + 1)
  /\ phase = "probe" => at <= Len(ProbeOrder)
  /\ ToSet(todo) \subseteq ToSet(ProbeOrder) \cup {"disable_irq", "cancel_disc", "disconnect", "flush"}
  /\ held \subseteq ToSet(ProbeOrder) \ {"reset"}
  /\ got_msi \in {0, 1, 3}
  /\ enabled \in BOOLEAN /\ up \in BOOLEAN /\ isr \in BOOLEAN /\ timer \in BOOLEAN
  /\ events \in Seq(Kind) /\ Len(events) <= EvMax
  /\ evt \in Worker \cup Kind
  /\ {conn, back, disc} \subseteq Worker
  /\ roc \in {"idle", "delayed", "queued"}

\* What is left behind when the k-th resource is refused, or at the end: by remove the
\* registers, if wil->csr is no longer what it was (pcie_bus.c:204); by a probe that is
\* refused roc_wq the queue of the Block Ack work (main.c:238); by one that is refused
\* an interrupt line the MSIs (pcie_bus.c:75).
Left(k) ==
  IF k > Len(ProbeOrder) THEN {"csr"}
  ELSE CASE ProbeOrder[k] = "roc_wq" -> {"back_wq"}
         [] ProbeOrder[k] \in {"irq0", "irq1", "irq2"} -> {"msi"}
         [] OTHER -> {}

\* Wherever a probe is refused, and whatever MSIs it has got, it gives back all that it
\* has taken when its roll-back ends ("rollback to ...", wil_pcie_probe), and so does
\* remove, but for what is known to be left.
GivesAllBack == phase = "release" /\ todo = <<>> => held \subseteq Left(at)

\* They give back all.
NothingLeaked == phase = "release" /\ todo = <<>> => held = {}

\* Every roll-back ends.
RollbackEnds == phase # "dead"

\* Nothing is given back that is not held, or twice, whatever the number of
\* interrupts and the point of failure; "safe to call if no MSI" (pcie_bus.c:87).
ReleasesHeld ==
  \A i \in DOMAIN todo : todo[i] \in ToSet(ProbeOrder) \ {"msi"} =>
    /\ todo[i] \in held
    /\ \A j \in DOMAIN todo : todo[j] = todo[i] => j = i

\* While an interrupt line is requested, or its thread runs, the handlers find
\* what they use: the registers, the private memory and the queue of the event
\* worker.  That queue is not destroyed while the worker is on it, and Block Ack
\* work, which the worker may still queue, finds its own.
WorkBacked ==
  /\ isr \/ held \cap {"irq0", "irq1", "irq2"} # {}
       => {"csr", "wiphy", "wmi_wq"} \subseteq held
  /\ evt # "idle" => "wmi_wq" \in held
  /\ back # "idle" => "back_wq" \in held

\* The connect timer and the disconnect worker, which has no queue of its own,
\* do not outlive the private memory.
TimerGone == "wiphy" \notin held => ~timer /\ disc = "idle"

\* The same for the delayed work of a ROC and for the connect worker.
RocGone == "roc_wq" \notin held => roc = "idle"
ConnGone == "wmi_wq_conn" \notin held => conn = "idle"

\* Whoever uses the network device finds it allocated: the handlers of events,
\* the disconnect worker, and the wil6210_disconnect of wil_priv_deinit.
NdevBacked ==
  \/ evt \in Kind
  \/ disc = "run"
  \/ todo # <<>> /\ Head(todo) = "disconnect"
    => "ndev" \in held
=============================================================================
