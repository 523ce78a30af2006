------------------------------ MODULE StaRings ------------------------------
(***************************************************************************)
(* Stations and their Tx rings on an AP-like interface: main.c, with the   *)
(* connect and disconnect event handlers of wmi.c and the ring lookup and  *)
(* ring configuration of txrx.c.                                           *)
(*                                                                         *)
(* Three threads change this state, none of them under a common lock:      *)
(*   "evt"   the WMI event worker (workqueue wmi_wq), one event at a time; *)
(*   "user"  a system call: del_station, or wil_reset from up / start_ap;  *)
(*   worker  the connect worker (workqueue wmi_wq_conn), which sleeps in   *)
(*           wmi_call while the firmware configures the ring.              *)
(* A step ends where its thread may sleep.  The firmware is external: it   *)
(* reports a peer that associated or left as an event, in order, and tears *)
(* a link down when the host asks.                                         *)
(*                                                                         *)
(* A definition named X_m_... is X with a plausible slip; no specification *)
(* uses it, it stands in for X when a property is tested against it.       *)
(***************************************************************************)
EXTENDS Integers, FiniteSets, Sequences

CONSTANTS
  MaxCid,    (* WIL6210_MAX_CID                                *)
  MaxRings,  (* WIL6210_MAX_TX_RINGS                           *)
  Addr,      (* addresses of peers                             *)
  OwnAddr,   (* the address of the interface, ndev->dev_addr   *)
  EvMax,     (* events that wait for the event worker          *)
  NULL

ASSUME MaxCidAssumption == MaxCid \in Nat \ {0}
ASSUME MaxRingsAssumption == MaxRings \in Nat /\ MaxRings >= MaxCid
ASSUME AddrAssumption == OwnAddr \notin Addr /\ NULL \notin Addr
ASSUME NullAssumption == NULL \notin 0..(MaxRings - 1)
ASSUME NullWorker == NULL \notin [cid : 0..(MaxCid - 1), ring : 0..(MaxRings - 1)]
ASSUME EvMaxAssumption == EvMax \in Nat \ {0}

VARIABLES
  status,    (* sta[cid].status                                              *)
  addr,      (* sta[cid].addr, kept after the station is gone                *)
  va,        (* vring_tx[i].va # NULL: the ring is allocated                 *)
  vring2cid, (* vring2cid_tid[i][0], kept after the ring is freed            *)
  hwtail,    (* the firmware has told vring_tx[i].hwtail for this allocation *)
  pending,   (* pending_connect_cid                                          *)
  queued,    (* connect_worker is queued                                     *)
  worker,    (* NULL, or the cid and ring the connect worker configures      *)
  disc,      (* per thread: NULL, or the progress of _wil6210_disconnect     *)
  resetting, (* the user thread is inside wil_reset                          *)
  evq,       (* pending_wmi_ev                                               *)
  mixed,     (* history: stations announced while the connection of another  *)
             (* was not settled, and those whose connection that was         *)
  fw         (* external: the peer the firmware has linked to each cid       *)

vars == <<status, addr, va, vring2cid, hwtail, pending, queued, worker, disc,
          resetting, evq, mixed, fw>>

Cid == 0..(MaxCid - 1)
Ring == 0..(MaxRings - 1)
Thread == {"evt", "user"}

staVars == <<status, addr>>
ringVars == <<va, vring2cid, hwtail>>
connVars == <<pending, queued, worker, mixed>>

\* All memory of struct wil6210_priv starts zeroed; wil_priv_init sets the rest.
Init ==
  /\ status = [c \in Cid |-> "unused"]
  /\ addr = [c \in Cid |-> NULL]
  /\ va = [i \in Ring |-> FALSE]
  /\ vring2cid = [i \in Ring |-> 0]
  /\ hwtail = [i \in Ring |-> FALSE]
  /\ pending = -1
  /\ queued = FALSE
  /\ worker = NULL
  /\ disc = [p \in Thread |-> NULL]
  /\ resetting = FALSE
  /\ evq = <<>>
  /\ mixed = {}
  /\ fw = [c \in Cid |-> NULL]

-----------------------------------------------------------------------------
(* Lookups. *)

\* The stations wil_find_cid may return for a MAC address; it returns the first.
Matching(a) == {c \in Cid : status[c] # "unused" /\ addr[c] = a}

First(S) == CHOOSE x \in S : \A y \in S : x <= y

\* The ring wil_find_tx_vring transmits on for the station c: the first that
\* was ever given to c, if it is allocated.
RingsOf(c) == {i \in Ring : vring2cid[i] = c}

wil_find_tx_vring(c) ==
  IF RingsOf(c) # {} /\ va[First(RingsOf(c))] THEN First(RingsOf(c)) ELSE NULL

-----------------------------------------------------------------------------
(* The firmware (external) and its events. *)

FwConnect(c, a) ==
  /\ ~resetting /\ Len(evq) < EvMax
  /\ fw[c] = NULL /\ \A k \in Cid : fw[k] # a
  /\ fw' = [fw EXCEPT ![c] = a]
  /\ evq' = Append(evq, [ev |-> "connect", cid |-> c, mac |-> a])
  /\ UNCHANGED <<staVars, ringVars, connVars, disc, resetting>>

FwDisconnect(c) ==
  /\ ~resetting /\ Len(evq) < EvMax
  /\ fw[c] # NULL
  /\ fw' = [fw EXCEPT ![c] = NULL]
  /\ evq' = Append(evq, [ev |-> "disconnect", cid |-> c, mac |-> fw[c]])
  /\ UNCHANGED <<staVars, ringVars, connVars, disc, resetting>>

\* The firmware obeys WMI_DISCONNECT_STA_CMDID for address a.  Its event is lost
\* while the interrupts are off.
FwObeys(a) ==
  LET linked == {c \in Cid : fw[c] # NULL /\ fw[c] = a}
  IN  /\ fw' = [c \in Cid |-> IF c \in linked THEN NULL ELSE fw[c]]
      /\ evq' = IF linked = {} \/ resetting THEN evq
                ELSE Append(evq, [ev |-> "disconnect", cid |-> First(linked),
                                  mac |-> a])

-----------------------------------------------------------------------------
(* Disconnecting: _wil6210_disconnect, in thread p. *)

\* wil6210_disconnect up to its first wil_disconnect_cid: the stations bssid
\* stands for.  NULL stands for none of them.
DiscBegin(p, bssid) ==
  LET cids == IF bssid # NULL /\ Matching(bssid) # {}
              THEN {First(Matching(bssid))}
              ELSE IF bssid = OwnAddr THEN Cid ELSE {}
  IN  disc' = [disc EXCEPT ![p] = [todo |-> cids, sent |-> FALSE]]

\* wil_disconnect_cid for the next station of a non-empty todo, as far as
\* wmi_disconnect_sta, which sleeps on wmi_mutex.
DiscSend(p) ==
  /\ disc[p] # NULL
  /\ ~disc[p].sent /\ disc[p].todo # {}
  /\ disc' = [disc EXCEPT ![p].sent = TRUE]
  /\ IF status[First(disc[p].todo)] # "unused"
     THEN FwObeys(addr[First(disc[p].todo)])
     ELSE UNCHANGED <<fw, evq>>
  /\ UNCHANGED <<staVars, ringVars, connVars, resetting>>

\* The rest of wil_disconnect_cid: every ring ever given to the station goes.
DiscFree(p) ==
  /\ disc[p] # NULL
  /\ disc[p].sent
  /\ LET c == First(disc[p].todo)
     IN  /\ status' = [status EXCEPT ![c] = "unused"]
         /\ va' = [i \in Ring |-> va[i] /\ vring2cid[i] # c]
         /\ disc' = [disc EXCEPT ![p] = [todo |-> @.todo \ {c}, sent |-> FALSE]]
  /\ UNCHANGED <<addr, vring2cid, hwtail, connVars, resetting, evq, fw>>

\* cfg80211_del_sta, and back to the caller.
DiscEnd(p) ==
  /\ disc[p] # NULL
  /\ ~disc[p].sent /\ disc[p].todo = {}
  /\ disc' = [disc EXCEPT ![p] = NULL]
  /\ UNCHANGED <<staVars, ringVars, connVars, resetting, evq, fw>>

-----------------------------------------------------------------------------
(* The event worker. *)

NextEvent(kind) ==
  /\ disc["evt"] = NULL
  /\ evq # <<>> /\ Head(evq).ev = kind
  /\ evq' = Tail(evq)

\* The stations that connect_worker is to configure, or configures.
Unsettled == ({pending} \cap Cid) \cup (IF worker = NULL THEN {} ELSE {worker.cid})

wmi_evt_connect ==
  /\ NextEvent("connect")
  /\ LET c == Head(evq).cid
     IN  /\ addr' = [addr EXCEPT ![c] = Head(evq).mac]
         /\ status' = [status EXCEPT ![c] = "conn_pending"]
         /\ pending' = c
         /\ mixed' = IF Unsettled \subseteq {c} THEN mixed \ {c} ELSE mixed \cup Unsettled \cup {c}
  /\ queued' = TRUE
  /\ UNCHANGED <<ringVars, worker, disc, resetting, fw>>

wmi_evt_disconnect ==
  /\ NextEvent("disconnect")
  /\ DiscBegin("evt", Head(evq).mac)
  /\ UNCHANGED <<staVars, ringVars, connVars, resetting, fw>>

-----------------------------------------------------------------------------
(* The connect worker. *)

IsFirstFree_m_any(i) == ~va[i]

\* The first ring that is free, as wil_find_free_vring finds it.
IsFirstFree(i) == ~va[i] /\ \A j \in Ring : j < i => va[j]

ConnectBegin_m_no_cid_check ==
  /\ queued /\ worker = NULL
  /\ queued' = FALSE
  /\ \E i \in Ring :
       /\ IsFirstFree(i)
       /\ va' = [va EXCEPT ![i] = TRUE]
       /\ vring2cid' = [vring2cid EXCEPT ![i] = pending]
       /\ hwtail' = [hwtail EXCEPT ![i] = FALSE]
       /\ worker' = [cid |-> pending, ring |-> i]
  /\ UNCHANGED <<staVars, pending, disc, resetting, evq, mixed, fw>>

\* wil_connect_worker up to the wmi_call of wil_vring_init_tx.  The allocation
\* publishes the ring before the firmware knows of it.
ConnectBegin ==
  /\ queued /\ worker = NULL
  /\ queued' = FALSE
  /\ pending \in Cid
  /\ \E i \in Ring :
       /\ IsFirstFree(i)
       /\ va' = [va EXCEPT ![i] = TRUE]
       /\ vring2cid' = [vring2cid EXCEPT ![i] = pending]
       /\ hwtail' = [hwtail EXCEPT ![i] = FALSE]
       /\ worker' = [cid |-> pending, ring |-> i]
  /\ UNCHANGED <<staVars, pending, disc, resetting, evq, mixed, fw>>

\* No memory for a ring; or no ring is free, and -EINVAL used as the index of
\* one finds memory that does not look free ("already allocated").
ConnectNoRing ==
  /\ queued /\ worker = NULL
  /\ queued' = FALSE
  /\ pending \in Cid
  /\ status' = [status EXCEPT ![pending] = "unused"]
  /\ pending' = -1
  /\ UNCHANGED <<addr, ringVars, worker, disc, resetting, evq, mixed, fw>>

\* "No connection pending": there is nothing to configure.
ConnectNone ==
  /\ queued /\ worker = NULL
  /\ pending = -1
  /\ queued' = FALSE
  /\ UNCHANGED <<staVars, ringVars, pending, worker, disc, resetting, evq, mixed, fw>>

\* The firmware confirmed the ring.
ConnectDone ==
  /\ worker # NULL
  /\ hwtail' = [hwtail EXCEPT ![worker.ring] = TRUE]
  /\ pending' = -1
  /\ status' = [status EXCEPT ![worker.cid] = "connected"]
  /\ worker' = NULL
  /\ UNCHANGED <<addr, va, vring2cid, queued, disc, resetting, evq, mixed, fw>>

ConnectFail_m_keeps_status ==
  /\ worker # NULL
  /\ va' = [va EXCEPT ![worker.ring] = FALSE]
  /\ pending' = -1
  /\ worker' = NULL
  /\ UNCHANGED <<staVars, vring2cid, hwtail, queued, disc, resetting, evq, mixed, fw>>

\* It refused, or did not answer in time: the ring is freed again.
ConnectFail ==
  /\ worker # NULL
  /\ va' = [va EXCEPT ![worker.ring] = FALSE]
  /\ pending' = -1
  /\ status' = [status EXCEPT ![worker.cid] = "unused"]
  /\ worker' = NULL
  /\ UNCHANGED <<addr, vring2cid, hwtail, queued, disc, resetting, evq, mixed, fw>>

-----------------------------------------------------------------------------
(* The user thread. *)

wil_cfg80211_del_station(a) ==
  /\ disc["user"] = NULL /\ ~resetting
  /\ DiscBegin("user", a)
  /\ UNCHANGED <<staVars, ringVars, connVars, resetting, evq, fw>>

\* wil_reset up to its flush_workqueue calls: wil6210_disconnect(wil, NULL),
\* which sleeps nowhere, interrupts off, wmi_event_flush.
ResetBegin ==
  /\ disc["user"] = NULL /\ ~resetting
  /\ resetting' = TRUE
  /\ evq' = <<>>
  /\ UNCHANGED <<staVars, ringVars, connVars, disc, fw>>

\* The workers are idle: reset the target and start over.
ResetEnd ==
  /\ resetting
  /\ ~queued /\ worker = NULL /\ disc["evt"] = NULL
  /\ resetting' = FALSE
  /\ pending' = -1
  /\ fw' = [c \in Cid |-> NULL]
  /\ evq' = <<>>
  /\ UNCHANGED <<staVars, ringVars, queued, worker, mixed, disc>>

-----------------------------------------------------------------------------
Next ==
  \/ \E c \in Cid, a \in Addr : FwConnect(c, a)
  \/ \E c \in Cid : FwDisconnect(c)
  \/ \E p \in Thread : DiscSend(p) \/ DiscFree(p) \/ DiscEnd(p)
  \/ wmi_evt_connect
  \/ wmi_evt_disconnect
  \/ ConnectBegin \/ ConnectNoRing \/ ConnectNone \/ ConnectDone \/ ConnectFail
  \/ \E a \in Addr \cup {OwnAddr, NULL} : wil_cfg80211_del_station(a)
  \/ ResetBegin
  \/ ResetEnd

Spec == Init /\ [][Next]_vars

-----------------------------------------------------------------------------
(* Properties. *)

Event == [ev : {"connect", "disconnect"}, cid : Cid, mac : Addr]

\* The type of the state.
TypeOK ==
  /\ status \in [Cid -> {"unused", "conn_pending", "connected"}]
  /\ addr \in [Cid -> Addr \cup {NULL}]
  /\ va \in [Ring -> BOOLEAN]
  /\ vring2cid \in [Ring -> Cid]
  /\ hwtail \in [Ring -> BOOLEAN]
  /\ pending \in Cid \cup {-1}
  /\ queued \in BOOLEAN
  /\ worker \in [cid : Cid, ring : Ring] \cup {NULL}
  /\ disc \in [Thread -> [todo : SUBSET Cid, sent : BOOLEAN] \cup {NULL}]
  /\ resetting \in BOOLEAN
  /\ evq \in Seq(Event)
  /\ mixed \subseteq Cid
  /\ fw \in [Cid -> Addr \cup {NULL}]

\* Transmission reaches a station: if a connected station has an allocated
\* ring, the first ring that wil_find_tx_vring meets for it, and the only one
\* it looks at, is allocated.
LookupFindsRing ==
  \A c \in Cid :
    status[c] = "connected" /\ (\E i \in Ring : va[i] /\ vring2cid[i] = c)
      => wil_find_tx_vring(c) # NULL

\* The connect worker is never run in vain: "No connection pending" is an
\* error (main.c:183).
WorkerHasConnection == queued /\ worker = NULL => pending # -1

\* "We reset all the structures" (main.c:333): no station and no ring survives
\* wil_reset.
ResetClearsAll ==
  [][ResetEnd => /\ \A c \in Cid : status'[c] = "unused"
                 /\ \A i \in Ring : ~va'[i]]_vars

\* "hwtail: write here to inform hw" (wil6210.h:226): the ring a frame is sent
\* on is one whose tail register the firmware has told.
TxRingConfigured ==
  \A c \in Cid :
    status[c] # "unused" /\ wil_find_tx_vring(c) # NULL
      => hwtail[wil_find_tx_vring(c)]

\* A station is half connected only while connect_worker configures it, or is
\* queued to; so it does not stay half connected, since the worker ends.  The
\* exceptions are stations announced while the connection of another was not
\* settled, and that other: pending_connect_cid holds one station, and the worker
\* clears it when it has done with another (main.c:191, wmi.c:481).
PendingAwaited ==
  \A c \in Cid :
    status[c] = "conn_pending" =>
      \/ worker # NULL /\ worker.cid = c
      \/ queued /\ pending = c
      \/ c \in mixed
=============================================================================
