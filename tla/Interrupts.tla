----------------------------- MODULE Interrupts -----------------------------
(***************************************************************************)
(* The interrupts of the device, interrupt.c, and what they start: the Rx  *)
(* and the Tx NAPI poll (netdev.c) and the interrupt thread.  Each of the  *)
(* vectors "rx", "tx" and "misc" has a cause register (ICR) that latches,  *)
(* and a mask; a further mask, of the pseudo cause register, stops all.    *)
(* With three MSIs every vector has an interrupt line and a handler of its *)
(* own, otherwise wil6210_hardirq serves all of them.                      *)
(*                                                                         *)
(* What there is to do is counted per vector: frames received, frames      *)
(* transmitted, events in the mailbox.                                     *)
(*                                                                         *)
(* Assumed of the hardware: the line of a handler is asserted, whenever it *)
(* is not running, as long as a cause that is not masked is latched.  The  *)
(* completion of a frame raises TX_DONE, or the cause of Tx ring 0 as well *)
(* (TX_DONE_N(0), which is not masked either), or first one and then the   *)
(* other.                                                                  *)
(*                                                                         *)
(* A definition named X_m_... is X with a plausible slip; no specification *)
(* uses it, it stands in for X when a property is tested against it.       *)
(***************************************************************************)
EXTENDS Naturals, FiniteSetsExt

CONSTANTS
  NMsi,          (* the values wil->n_msi may have: 0, 1 or 3               *)
  Budget,        (* of the Rx poll                                          *)
  MaxResets,     (* bound: how many resets there are                        *)
  Loads,         (* bounds, of which a behaviour has one: how much there may
                    be to do per vector at a time; 0: it is not used        *)
  NULL

ASSUME MsiAssumption == NMsi \subseteq {0, 1, 3}
ASSUME WorkAssumption ==
  Budget \in Nat \ {0, 1} /\ MaxResets \in Nat

\* The progress of a hard handler: where it is, the vectors it has still to look
\* at, and whether it is to wake the thread.
Progress == [at : {"enter", "serve"}, todo : SUBSET {"rx", "tx", "misc"}, wake : BOOLEAN]
ASSUME NullAssumption == NULL \notin Progress

Napi == {"rx", "tx"}
Vector == Napi \cup {"misc"}

\* The order in which wil6210_hardirq looks at them.
Order == [rx |-> 1, tx |-> 2, misc |-> 3]

ASSUME LoadAssumption == Loads \subseteq [Vector -> Nat]

VARIABLES
  n_msi,     (* wil->n_msi                                                  *)
  load,      (* the bound of this behaviour, one of Loads                   *)
  icr,       (* per vector: the latched causes                              *)
  masked,    (* per vector: its mask                                        *)
  pseudo,    (* the pseudo cause register is masked                         *)
  irqen,     (* the bit irqen of wil->status                                *)
  hard,      (* per line: NULL, or the progress of its hard handler         *)
  isr_misc,  (* wil->isr_misc                                               *)
  runthread, (* the kernel's flag: the interrupt thread has been woken      *)
  thread,    (* the interrupt thread: "idle", "served", "unmasked"          *)
  napi,      (* per NAPI vector: its state, see below                       *)
  ending,    (* per NAPI vector: how many polls have completed and are about
                to unmask it                                                *)
  work,      (* per vector: what there is to do                             *)
  stage,     (* of the interface: "down", "off", "boot", "up"               *)
  live,      (* the reset under way is one with NAPI enabled                *)
  resets,    (* counter for the bound                                       *)
  caught,    (* history: the vectors that were being served when wil_reset
                enabled interrupts again, and have been ever since          *)
  stray      (* history: the vectors whose last handler with work to do ran in
                such a service, or with NAPI disabled, or without DONE      *)

irqVars  == <<icr, masked, pseudo, irqen>>
miscVars == <<isr_misc, runthread, thread>>
ifVars   == <<stage, live, resets>>
histVars == <<caught, stray>>

vars == <<n_msi, load, irqVars, hard, miscVars, napi, ending, work, ifVars, histVars>>

Line == {"irq"} \cup Vector
LineUsed(l) == IF n_msi = 3 THEN l \in Vector ELSE l = "irq"

\* The device has been probed, or the interface has been opened since: interrupts
\* are enabled, NAPI only in the second case.
Init ==
  /\ n_msi \in NMsi /\ load \in Loads
  /\ icr = [v \in Vector |-> {}] /\ masked = [v \in Vector |-> FALSE]
  /\ pseudo = FALSE /\ irqen = TRUE
  /\ hard = [l \in Line |-> NULL]
  /\ isr_misc = {} /\ runthread = FALSE /\ thread = "idle"
  /\ stage \in {"down", "up"} /\ live = FALSE /\ resets = 0
  /\ napi = [v \in Napi |-> IF stage = "up" THEN "idle" ELSE "disabled"]
  /\ ending = [v \in Napi |-> 0]
  /\ work = [v \in Vector |-> 0]
  /\ caught = {} /\ stray = {}

\* A poll of v is scheduled, or runs, or has run and is about to unmask v.
PollUnderWay(v) == napi[v] \in {"scheduled", "polled"} \/ ending[v] > 0

\* The thread runs, or is to run.
ThreadUnderWay ==
  runthread \/ thread = "served" \/ \E l \in Line : hard[l] # NULL /\ hard[l].wake

\* What a handler of v started is under way.
Served(v) == IF v = "misc" THEN ThreadUnderWay ELSE PollUnderWay(v)

\* Of the services that a reset caught, those that are still under way.
StillCaught == caught' = {v \in caught : Served(v)'}

-----------------------------------------------------------------------------
(* The hard handlers. *)

Asserted(V) == ~pseudo /\ \E v \in V : icr[v] # {} /\ ~masked[v]

HardBegin(l) ==
  /\ LineUsed(l) /\ hard[l] = NULL
  /\ Asserted(IF n_msi = 3 THEN {l} ELSE Vector)
  /\ hard' = [hard EXCEPT ![l] =
                IF n_msi = 3 THEN [at |-> "serve", todo |-> {l}, wake |-> FALSE]
                             ELSE [at |-> "enter", todo |-> {}, wake |-> FALSE]]
  /\ UNCHANGED <<n_msi, load, irqVars, miscVars, napi, ending, work, ifVars, histVars>>

\* wil6210_hardirq before it calls the handlers of the vectors, and
\* wil6210_debug_irq_mask, which throws the causes away.
HardDiscover ==
  /\ hard["irq"] # NULL /\ hard["irq"].at = "enter"
  /\ LET causes == {v \in Vector : icr[v] # {} /\ ~masked[v]}
     IN  IF causes # {} /\ irqen
         THEN /\ pseudo' = TRUE /\ irqen' = FALSE
              /\ hard' = [hard EXCEPT !["irq"] =
                            [@ EXCEPT !.at = "serve", !.todo = causes]]
              /\ UNCHANGED icr
         ELSE /\ icr' = IF causes = {} THEN icr ELSE [v \in Vector |-> {}]
              /\ hard' = [hard EXCEPT !["irq"] = NULL]
              /\ UNCHANGED <<pseudo, irqen>>
  /\ UNCHANGED <<n_msi, load, masked, miscVars, napi, ending, work, ifVars, histVars>>

\* napi_schedule does nothing if NAPI is disabled or scheduled already.
napi_schedule(v) == napi' = [napi EXCEPT ![v] = IF @ = "idle" THEN "scheduled" ELSE @]

MaskVector_m_not_misc(v) ==
  masked' = IF v = "misc" THEN masked ELSE [masked EXCEPT ![v] = TRUE]

MaskVector(v) == masked' = [masked EXCEPT ![v] = TRUE]

\* wil6210_irq_rx and wil6210_irq_tx: any cause masks, only DONE starts a poll.
ServeNapi(v) ==
  /\ MaskVector(v)
  /\ IF "DONE" \in icr[v] THEN napi_schedule(v) ELSE UNCHANGED napi
  /\ UNCHANGED isr_misc

\* wil6210_irq_misc: the firmware-ready cause is done with here, the rest is left
\* to the thread.
ServeMisc ==
  /\ isr_misc' = icr["misc"] \ {"FW_READY"}
  /\ IF isr_misc' = {} THEN masked' = [masked EXCEPT !["misc"] = FALSE]
                        ELSE MaskVector("misc")
  /\ UNCHANGED napi

\* The causes of v are taken in a way from which no service of v may follow.
Astray(v) ==
  v \in caught \/ (v \in Napi /\ (napi[v] = "disabled" \/ "DONE" \notin icr[v]))

\* The handler of the next vector reads and clears its cause register; when that
\* is empty, "spurious IRQ", it does nothing else.
HardServe(l) ==
  /\ hard[l] # NULL /\ hard[l].at = "serve"
  /\ \E v \in hard[l].todo :
         /\ \A w \in hard[l].todo : Order[v] <= Order[w]
         /\ icr' = [icr EXCEPT ![v] = {}]
         /\ IF icr[v] = {} THEN UNCHANGED <<masked, napi, isr_misc, stray>>
            ELSE /\ IF v = "misc" THEN ServeMisc ELSE ServeNapi(v)
                 /\ stray' = IF Astray(v) THEN stray \cup {v}
                             ELSE stray \ {w \in {v} : icr[v] # {"FW_READY"}}
         /\ hard' = [hard EXCEPT ![l].todo = @ \ {v},
                                 ![l].wake = @ \/ (v = "misc" /\ icr[v] \ {"FW_READY"} # {})]
  /\ UNCHANGED <<n_msi, load, pseudo, irqen, runthread, thread, ending, work, ifVars, caught>>

UnmaskAfterHard_m_never(l) == FALSE

\* "if thread is requested, it will unmask IRQ"
UnmaskAfterHard(l) == n_msi # 3 /\ ~hard[l].wake

HardEnd(l) ==
  /\ hard[l] # NULL /\ hard[l].at = "serve" /\ hard[l].todo = {}
  /\ hard' = [hard EXCEPT ![l] = NULL]
  /\ IF UnmaskAfterHard(l) THEN pseudo' = FALSE /\ irqen' = TRUE
                           ELSE UNCHANGED <<pseudo, irqen>>
  /\ runthread' = (runthread \/ hard[l].wake)
  /\ UNCHANGED <<n_msi, load, icr, masked, isr_misc, thread, napi, ending, work, ifVars, histVars>>

-----------------------------------------------------------------------------
(* The interrupt thread: wil6210_irq_misc_thread, alone or in               *)
(* wil6210_thread_irq.                                                      *)

\* wil6210_thread_irq finds that there is nothing to do.
ThreadSkip ==
  /\ runthread /\ thread = "idle"
  /\ n_msi # 3 /\ isr_misc = {}
  /\ runthread' = FALSE /\ thread' = "unmasked"
  /\ UNCHANGED <<n_msi, load, irqVars, hard, isr_misc, napi, ending, work, ifVars, stray>>
  /\ StillCaught

\* wmi_recv_cmd takes all events.
ThreadServe ==
  /\ runthread /\ thread = "idle"
  /\ n_msi = 3 \/ isr_misc # {}
  /\ runthread' = FALSE /\ thread' = "served"
  /\ work' = [work EXCEPT !["misc"] = IF "MBOX_EVT" \in isr_misc THEN 0 ELSE @]
  /\ UNCHANGED <<n_msi, load, irqVars, hard, isr_misc, napi, ending, ifVars, histVars>>

ThreadDone ==
  /\ thread = "served"
  /\ isr_misc' = {}
  /\ masked' = [masked EXCEPT !["misc"] = FALSE]
  /\ thread' = IF n_msi = 3 THEN "idle" ELSE "unmasked"
  /\ UNCHANGED <<n_msi, load, icr, pseudo, irqen, hard, runthread, napi, ending, work, ifVars, stray>>
  /\ StillCaught

ThreadEnd ==
  /\ thread = "unmasked"
  /\ pseudo' = FALSE /\ irqen' = TRUE
  /\ thread' = "idle"
  /\ UNCHANGED <<n_msi, load, icr, masked, hard, isr_misc, runthread, napi, ending, work, ifVars, histVars>>

-----------------------------------------------------------------------------
(* wil6210_netdev_poll_rx and wil6210_netdev_poll_tx.                       *)

Done_m_budget(v) == IF v = "rx" THEN Budget ELSE work[v]

\* What a poll gets done: the Tx poll ignores its budget.
Done(v) == IF v = "rx" THEN Min({work[v], Budget}) ELSE work[v]

\* "burst ends - only one packet processed"
Poll(v) ==
  /\ napi[v] = "scheduled"
  /\ work' = [work EXCEPT ![v] = @ - Done(v)]
  /\ napi' = [napi EXCEPT ![v] = IF Done(v) <= 1 THEN "polled" ELSE @]
  /\ UNCHANGED <<n_msi, load, irqVars, hard, miscVars, ending, ifVars, histVars>>

PollComplete_m_unmasks_first(v) ==
  /\ napi[v] = "polled"
  /\ IF masked[v] THEN masked' = [masked EXCEPT ![v] = FALSE] /\ UNCHANGED napi
                  ELSE napi' = [napi EXCEPT ![v] = "idle"] /\ UNCHANGED masked
  /\ UNCHANGED <<n_msi, load, icr, pseudo, irqen, hard, miscVars, ending, work, ifVars, histVars>>

\* napi_complete
PollComplete(v) ==
  /\ napi[v] = "polled"
  /\ napi' = [napi EXCEPT ![v] = "idle"]
  /\ ending' = [ending EXCEPT ![v] = @ + 1]
  /\ UNCHANGED <<n_msi, load, irqVars, hard, miscVars, work, ifVars, histVars>>

\* The unmasking that comes after it.
PollUnmask(v) ==
  /\ ending[v] > 0
  /\ ending' = [ending EXCEPT ![v] = @ - 1]
  /\ masked' = [masked EXCEPT ![v] = FALSE]
  /\ UNCHANGED <<n_msi, load, icr, pseudo, irqen, hard, miscVars, napi, work, ifVars, stray>>
  /\ StillCaught

-----------------------------------------------------------------------------
(* wil_reset in __wil_up, or alone (start_ap, debugfs), and __wil_down.     *)

\* wil6210_disable_irq; it waits for nobody, neither handlers nor polls.
ResetBegin ==
  /\ stage \in {"down", "up"} /\ resets < MaxResets
  /\ resets' = resets + 1
  /\ live' = (stage = "up")
  /\ masked' = [v \in Vector |-> TRUE]
  /\ pseudo' = TRUE /\ irqen' = FALSE
  /\ stage' = "off"
  /\ UNCHANGED <<n_msi, load, icr, hard, miscVars, napi, ending, work, histVars>>

\* wil_target_reset, and wil6210_enable_irq.
ResetEnable ==
  /\ stage = "off"
  /\ icr' = [v \in Vector |-> {}]
  /\ work' = [v \in Vector |-> 0]
  /\ masked' = [v \in Vector |-> FALSE]
  /\ pseudo' = FALSE /\ irqen' = TRUE
  /\ stage' = IF live THEN "up" ELSE "boot"
  /\ caught' = {v \in Vector : Served(v)} /\ stray' = {}
  /\ UNCHANGED <<n_msi, load, hard, miscVars, napi, ending, live, resets>>

\* The end of __wil_up.
NapiEnable ==
  /\ stage = "boot"
  /\ napi' = [v \in Napi |-> "idle"]
  /\ stage' = "up"
  /\ UNCHANGED <<n_msi, load, irqVars, hard, miscVars, ending, work, live, resets, histVars>>

\* One of its steps fails before; or there is no __wil_up (debugfs).
UpFails ==
  /\ stage = "boot"
  /\ stage' = "down"
  /\ UNCHANGED <<n_msi, load, irqVars, hard, miscVars, napi, ending, work, live, resets, histVars>>

\* __wil_down: napi_disable waits until the poll has completed.
NapiDisable ==
  /\ stage = "up" /\ \A v \in Napi : napi[v] = "idle"
  /\ napi' = [v \in Napi |-> "disabled"]
  /\ work' = [work EXCEPT !["rx"] = 0]
  /\ stage' = "down"
  /\ UNCHANGED <<n_msi, load, irqVars, hard, miscVars, ending, live, resets, histVars>>

-----------------------------------------------------------------------------
(* The device. *)

Cause(v, causes) ==
  /\ load[v] > 0
  /\ icr' = [icr EXCEPT ![v] = @ \cup causes]
  /\ UNCHANGED <<n_msi, load, masked, pseudo, irqen, hard, miscVars, napi, ending, ifVars, histVars>>

\* The Rx ring is set up before NAPI is enabled, and frames may come.
Traffic(v) ==
  /\ stage = "up" \/ (v = "rx" /\ stage = "boot")
  /\ work[v] < load[v]
  /\ work' = [work EXCEPT ![v] = @ + 1]
  /\ Cause(v, {"DONE"})

\* The cause of Tx ring 0.
RingDone ==
  /\ stage = "up"
  /\ Cause("tx", {"DONE_N"}) /\ UNCHANGED work

FwEvent ==
  /\ stage # "off" /\ work["misc"] < load["misc"]
  /\ work' = [work EXCEPT !["misc"] = @ + 1]
  /\ Cause("misc", {"MBOX_EVT"})

\* The firmware is ready after a reset.  (An error of it is a cause like
\* MBOX_EVT, without an event; WmiCall has it.)
FwReady ==
  /\ stage = "boot" \/ (stage = "up" /\ live)
  /\ Cause("misc", {"FW_READY"}) /\ UNCHANGED work

-----------------------------------------------------------------------------
HardStep(l) == HardBegin(l) \/ HardServe(l) \/ HardEnd(l)

ThreadStep == ThreadSkip \/ ThreadServe \/ ThreadDone \/ ThreadEnd

NapiStep(v) == Poll(v) \/ PollComplete(v) \/ PollUnmask(v)

Next ==
  \/ \E l \in Line : HardStep(l)
  \/ HardDiscover
  \/ ThreadStep
  \/ \E v \in Napi : NapiStep(v) \/ Traffic(v)
  \/ ResetBegin \/ ResetEnable \/ NapiEnable \/ UpFails \/ NapiDisable
  \/ RingDone \/ FwEvent \/ FwReady

Spec == Init /\ [][Next]_vars

\* The processor serves its interrupts, softirqs and threads; a reset goes on.
\* Two polls of a vector may run on two processors.
Fairness ==
  /\ \A l \in Line : WF_vars(HardStep(l))
  /\ WF_vars(HardDiscover) /\ WF_vars(ThreadStep)
  /\ \A v \in Napi : WF_vars(Poll(v) \/ PollComplete(v)) /\ WF_vars(PollUnmask(v))
  /\ WF_vars(ResetEnable)

FairSpec == Spec /\ Fairness

-----------------------------------------------------------------------------
(* The types of the variables. *)
TypeOK ==
  /\ n_msi \in NMsi /\ load \in Loads
  /\ icr \in [Vector -> SUBSET {"DONE", "DONE_N", "MBOX_EVT", "FW_READY"}]
  /\ masked \in [Vector -> BOOLEAN] /\ pseudo \in BOOLEAN /\ irqen \in BOOLEAN
  /\ hard \in [Line -> Progress \cup {NULL}]
  /\ isr_misc \subseteq {"DONE", "DONE_N", "MBOX_EVT"}
  /\ runthread \in BOOLEAN /\ thread \in {"idle", "served", "unmasked"}
  /\ napi \in [Napi -> {"disabled", "idle", "scheduled", "polled"}]
  /\ ending \in [Napi -> Nat]
  /\ work \in [Vector -> Nat] /\ \A v \in Vector : work[v] <= load[v]
  /\ stage \in {"down", "off", "boot", "up"} /\ live \in BOOLEAN /\ resets \in 0..MaxResets
  /\ caught \subseteq Vector /\ stray \subseteq Vector

(* A vector is masked while what its handler started is under way, so that the
   handler does not run against it and wil->isr_misc is not overwritten: "one have
   to mask/unmask interrupts for the real ISR registers, or hardware may
   malfunction" (interrupt.c:33).  The one thing that unmasks it under a poll or
   the thread is wil6210_enable_irq in a wil_reset, which waited for neither
   (main.c:344, cfg80211.c:720), and only until that service is over.       *)
MaskedWhileServed ==
  \A v \in Vector : Served(v) => masked[v] \/ v \in caught

(* Whatever is masked will be unmasked by someone: a poll that is under way, the
   interrupt thread, the hard handler or wil_reset.  "Rx IRQ will be enabled when
   NAPI processing finished" (interrupt.c:206).  The code leaves an Rx or Tx
   vector masked without an owner only if its handler ran with NAPI disabled, for
   another cause than DONE (interrupt.c:196 and 228), or in a service that a reset
   had caught; the misc vector and the pseudo cause register, never.        *)
MaskHasOwner ==
  stage # "off" =>
    /\ \A v \in Napi : masked[v] => PollUnderWay(v) \/ v \in stray
    /\ masked["misc"] => ThreadUnderWay
    /\ pseudo => thread # "idle" \/ runthread \/ hard["irq"] # NULL

(* No interrupt is lost: what there is to do is done, frames as long as the
   interface is up.  A frame or an event that comes between the last look of a
   poll or of the thread and its unmasking (netdev.c:76, interrupt.c:334) is
   latched, and raises the interrupt again.  The same three cases are excepted,
   and they only until the next handler of the vector.                      *)
WorkHandled ==
  \A v \in Vector :
    LET due == work[v] > 0 /\ v \notin stray /\ (v = "misc" \/ stage = "up")
    IN  due ~> ~due

(* Every Rx or Tx interrupt starts a poll, which unmasks it again.          *)
NeverStray ==
  \A v \in Napi : v \notin stray

(* No interrupt handler of the driver begins between wil6210_disable_irq and
   wil6210_enable_irq: "IRQ to raise when it should be masked"
   (interrupt.c:359) is taken for a bug in the hardware.                    *)
QuietWhenDisabled ==
  [][\A l \in Line : hard[l] = NULL /\ hard'[l] # NULL => stage # "off"]_vars
=============================================================================
