----------------------------- MODULE ClientIface -----------------------------
(***************************************************************************)
(* What cfg80211 asks of a client interface (cfg80211.c, offchannel.c) and *)
(* how it is answered: scans, the P2P search, staying on a channel (ROC),  *)
(* connecting and disconnecting, the interface going down and up.  Four    *)
(* threads take part: the user's, which cfg80211 serialises with the RTNL  *)
(* lock; the worker that ends a ROC; the worker that handles the events of *)
(* the firmware; the worker that the connect timer starts.  The bit        *)
(* "dontscan", scan_request and sme_state are shared without a lock;       *)
(* wil->mutex protects the ROC, and the interface going up or down.        *)
(*                                                                         *)
(* One WMI command is one step: WmiCall models how commands are answered.  *)
(* What connections mean to stations and rings is in StaRings.             *)
(*                                                                         *)
(* A definition named X_m_... is X with a plausible slip; no specification *)
(* uses it, it stands in for X when a property is tested against it.       *)
(***************************************************************************)
EXTENDS Naturals, Sequences

CONSTANTS
  MaxScans, MaxRocs, MaxConnects, MaxDowns,  (* bounds: how often each is asked *)
  MaxAsked,  (* bound: how often in all; and the interface is brought up at
                most MaxDowns + 1 times, as that may fail                   *)
  NULL

ASSUME BoundAssumption ==
  /\ MaxScans \in Nat /\ MaxRocs \in Nat /\ MaxConnects \in Nat /\ MaxDowns \in Nat
  /\ MaxAsked \in Nat
ASSUME NullAssumption == NULL \notin Nat \cup {"user", "roc"}

VARIABLES
  scan_request, (* wil->scan_request: NULL or the number of a request       *)
  asking,       (* cfg80211: the scan it waits for, NULL if none            *)
  stray,        (* the scans that were answered while cfg80211 was not waiting
                   for them; NULL: a request that was gone                  *)
  excused,      (* history: the scans that could not be started, and those that
                   __wil_down answered while the event worker did           *)
  dontscan,     (* the bit of wil->status                                   *)
  kept,         (* history: since it was last cleared a command failed that was
                   sent after it was set, or the event of a connection that is
                   over stopped the timer                                   *)
  mutex,        (* wil->mutex: NULL, "user" or "roc"                        *)
  cookie,       (* wil->roc.cookie                                          *)
  mgmt,         (* wil->roc.mgmt_tx_cookie is not 0                         *)
  work,         (* wil->roc.work: "idle", "delayed", "due", "stop", "expire"*)
  told,         (* per cookie, what cfg80211 was told: "none", "ready", "expired" *)
  sme,          (* wdev->sme_state: "idle", "connecting", "connected"       *)
  mute,         (* history: the attempt was accepted without a command      *)
  notes,        (* results reported to cfg80211 that it has not yet looked at *)
  timer,        (* wil->connect_timer is pending                            *)
  discq,        (* wil->disconnect_worker is queued                         *)
  discw,        (* where it is: "idle" or "clear"                           *)
  user,         (* where the user's thread is, and its request or result    *)
  up,           (* the interface is up                                      *)
  evq,          (* events of the firmware that are not handled yet          *)
  evt,          (* where the event worker is                                *)
  fwconn,       (* firmware: "none", "trying", "up"                         *)
  fwscan,       (* firmware: a scan is under way                            *)
  count         (* counters for the bounds                                  *)

scanVars == <<scan_request, asking, stray, excused>>
permVars == <<dontscan, kept>>
rocVars  == <<mutex, cookie, mgmt, work, told>>
connVars == <<sme, mute, notes, timer, discq, discw>>
fwVars   == <<evq, evt, fwconn, fwscan>>
vars == <<scanVars, permVars, rocVars, connVars, user, up, fwVars, count>>

Idle == [at |-> "idle", id |-> NULL, ok |-> TRUE]

Init ==
  /\ scan_request = NULL /\ asking = NULL /\ stray = {} /\ excused = {}
  /\ dontscan = FALSE /\ kept = FALSE
  /\ mutex = NULL /\ cookie = 0 /\ mgmt = FALSE /\ work = "idle"
  /\ told = [c \in 1..MaxRocs |-> "none"]
  /\ sme = "idle" /\ mute = FALSE /\ notes = <<>> /\ timer = FALSE /\ discq = FALSE /\ discw = "idle"
  /\ user = Idle /\ up = TRUE
  /\ evq = <<>> /\ evt = [at |-> "idle", id |-> NULL]
  /\ fwconn = "none" /\ fwscan = FALSE
  /\ count = [scan |-> 0, roc |-> 0, conn |-> 0, down |-> 0, up |-> 0]

At(s) == user.at = s
Go(s) == user' = [user EXCEPT !.at = s]
Return == user' = Idle

\* The counters, against the bound.
Asks(what) ==
  /\ count.scan + count.roc + count.conn + count.down < MaxAsked
  /\ count' = [count EXCEPT ![what] = @ + 1]

-----------------------------------------------------------------------------
(* Scan. *)

\* cfg80211_scan_done(r), or the error that a scan request is refused with: cfg80211
\* must be waiting for r.
Answer(r) ==
  IF r # NULL /\ asking = r THEN asking' = NULL /\ UNCHANGED stray
                            ELSE stray' = stray \cup {r} /\ UNCHANGED asking

\* wmi_p2p_cfg, up to the sending of the command.
P2pCfgRefused == scan_request # NULL

\* wil_cfg80211_scan: cfg80211 asks for one scan at a time.
ScanBegin ==
  /\ At("idle") /\ up /\ asking = NULL
  /\ IF scan_request # NULL \/ dontscan
     THEN UNCHANGED <<asking, scan_request, user, count>>   \* -EAGAIN, -EBUSY
     ELSE LET r == count.scan + 1
          IN  /\ r \in 1..MaxScans /\ Asks("scan")
              /\ asking' = r
              /\ \/ /\ scan_request' = r                    \* an ordinary scan
                    /\ user' = [Idle EXCEPT !.at = "scan_send", !.id = r]
                 \/ /\ user' = [Idle EXCEPT !.at = "p2p_cfg", !.id = r]
                    /\ UNCHANGED scan_request
  /\ UNCHANGED <<stray, excused, permVars, rocVars, connVars, up, fwVars>>

\* The command is sent; when that fails the request is refused, and
\* wil->scan_request still refers to it.
ScanSend ==
  /\ At("scan_send")
  /\ \E ok \in BOOLEAN :
       IF ok THEN fwscan' = TRUE /\ UNCHANGED <<asking, stray, excused>>
             ELSE Answer(user.id) /\ excused' = excused \cup {user.id} /\ UNCHANGED fwscan
  /\ Return
  /\ UNCHANGED <<scan_request, permVars, rocVars, connVars, up, evq, evt, fwconn, count>>

\* wil_p2p_scan.  A search that cannot be configured is not stopped.
P2pCfg ==
  /\ At("p2p_cfg")
  /\ IF P2pCfgRefused
     THEN /\ user' = [user EXCEPT !.at = "p2p_done", !.ok = FALSE]
          /\ UNCHANGED permVars
     ELSE /\ dontscan' = TRUE
          /\ \E ok \in BOOLEAN :
               /\ user' = [user EXCEPT !.at = IF ok THEN "p2p_set" ELSE "p2p_done", !.ok = ok]
               /\ kept' = (kept \/ ~ok)
  /\ UNCHANGED <<scanVars, rocVars, connVars, up, fwVars, count>>

\* SSID, IEs, the start of the search and the sleep of 200 ms.
P2pSet ==
  /\ At("p2p_set")
  /\ \E ok \in BOOLEAN : user' = [user EXCEPT !.at = "p2p_stop", !.ok = ok]
  /\ UNCHANGED <<scanVars, permVars, rocVars, connVars, up, fwVars, count>>

wmi_stop_discovery_m_keeps_dontscan == UNCHANGED permVars

wmi_stop_discovery == dontscan' = FALSE /\ kept' = FALSE

P2pStop ==
  /\ At("p2p_stop")
  /\ wmi_stop_discovery
  /\ Go("p2p_done")
  /\ UNCHANGED <<scanVars, rocVars, connVars, up, fwVars, count>>

\* The request is done; an error that is returned after that answers it again.
P2pDone ==
  /\ At("p2p_done")
  /\ asking' = NULL
  /\ stray' = IF asking = user.id /\ user.ok THEN stray ELSE stray \cup {user.id}
  /\ excused' = IF user.ok THEN excused ELSE excused \cup {user.id}
  /\ Return
  /\ UNCHANGED <<scan_request, permVars, rocVars, connVars, up, fwVars, count>>

-----------------------------------------------------------------------------
(* Remain on channel, for its own sake or to transmit a management frame. *)

RocBegin ==
  /\ At("idle") /\ up /\ mutex = NULL
  /\ IF cookie # 0
     THEN UNCHANGED <<rocVars, user, count>>   \* -EBUSY
     ELSE /\ count.roc < MaxRocs /\ Asks("roc")
          /\ mutex' = "user"
          /\ cookie' = count.roc + 1
          /\ mgmt' \in BOOLEAN
          /\ user' = [Idle EXCEPT !.at = "roc_cfg"]
          /\ UNCHANGED <<work, told>>
  /\ UNCHANGED <<scanVars, permVars, connVars, up, fwVars>>

RocCfg ==
  /\ At("roc_cfg")
  /\ IF P2pCfgRefused
     THEN user' = [user EXCEPT !.at = "roc_end", !.ok = FALSE] /\ UNCHANGED permVars
     ELSE /\ dontscan' = TRUE
          /\ \E ok \in BOOLEAN :
               /\ user' = [user EXCEPT !.at = IF ok THEN "roc_listen" ELSE "roc_end", !.ok = ok]
               /\ kept' = (kept \/ ~ok)
  /\ UNCHANGED <<scanVars, rocVars, connVars, up, fwVars, count>>

\* SSID and the start of listening; then the work that ends it is queued.
RocListen ==
  /\ At("roc_listen")
  /\ \E ok \in BOOLEAN :
       /\ user' = [user EXCEPT !.at = IF ok THEN "roc_end" ELSE "roc_stop", !.ok = ok]
       /\ work' = IF ok THEN "delayed" ELSE work
  /\ UNCHANGED <<scanVars, permVars, mutex, cookie, mgmt, told, connVars, up, fwVars, count>>

RocStop ==
  /\ At("roc_stop")
  /\ wmi_stop_discovery
  /\ Go("roc_end")
  /\ UNCHANGED <<scanVars, rocVars, connVars, up, fwVars, count>>

Tell(c, what) == told' = [told EXCEPT ![c] = what]

RocEnd ==
  /\ At("roc_end")
  /\ IF user.ok
     THEN /\ IF mgmt THEN UNCHANGED told ELSE Tell(cookie, "ready")
          /\ UNCHANGED <<cookie, mgmt>>
     ELSE cookie' = 0 /\ mgmt' = FALSE /\ UNCHANGED told
  /\ mutex' = NULL
  /\ Return
  /\ UNCHANGED <<scanVars, permVars, work, connVars, up, fwVars, count>>

\* The time is over, or wil_cancel_roc flushes the work, whatever ROC its caller
\* meant, and waits for it.
RocDue ==
  /\ work = "delayed"
  /\ work' = "due"
  /\ UNCHANGED <<scanVars, permVars, mutex, cookie, mgmt, told, connVars, user, up, fwVars, count>>

CancelBegin ==
  /\ At("idle") /\ up /\ work # "idle"
  /\ work' = IF work = "delayed" THEN "due" ELSE work
  /\ user' = [Idle EXCEPT !.at = "cancel"]
  /\ UNCHANGED <<scanVars, permVars, mutex, cookie, mgmt, told, connVars, up, fwVars, count>>

CancelEnd ==
  /\ At("cancel") /\ work = "idle"
  /\ Return
  /\ UNCHANGED <<scanVars, permVars, rocVars, connVars, up, fwVars, count>>

\* wil_roc_cancel_work
WorkMayBegin_m_no_mutex == work = "due"

WorkMayBegin == work = "due" /\ mutex = NULL

WorkBegin ==
  /\ WorkMayBegin
  /\ mutex' = "roc" /\ work' = "stop"
  /\ UNCHANGED <<scanVars, permVars, cookie, mgmt, told, connVars, user, up, fwVars, count>>

WorkStop ==
  /\ work = "stop"
  /\ wmi_stop_discovery
  /\ work' = "expire"
  /\ UNCHANGED <<scanVars, mutex, cookie, mgmt, told, connVars, user, up, fwVars, count>>

WorkExpire ==
  /\ work = "expire"
  /\ IF mgmt THEN UNCHANGED told ELSE Tell(cookie, "expired")
  /\ cookie' = 0 /\ mgmt' = FALSE
  /\ mutex' = NULL /\ work' = "idle"
  /\ UNCHANGED <<scanVars, permVars, connVars, user, up, fwVars, count>>

-----------------------------------------------------------------------------
(* Connect and disconnect. *)

\* wil_cfg80211_connect: a failure before the command is sent leaves no trace; a BSS
\* of a type that is not supported is no failure, and no command is sent.
ConnectBegin ==
  /\ At("idle") /\ up /\ sme = "idle"
  /\ count.conn < MaxConnects /\ Asks("conn")
  /\ \/ UNCHANGED <<sme, mute, user>>
     \/ /\ sme' = "connecting" /\ mute' \in BOOLEAN
        /\ user' = IF mute' THEN user ELSE [Idle EXCEPT !.at = "conn_mark"]
  /\ UNCHANGED <<scanVars, permVars, rocVars, notes, timer, discq, discw, up, fwVars>>

ConnectMark ==
  /\ At("conn_mark")
  /\ dontscan' = TRUE
  /\ Go("conn_send")
  /\ UNCHANGED <<scanVars, kept, rocVars, connVars, up, fwVars, count>>

\* When the command cannot be sent, cfg80211 learns it from the result.
ConnectSend ==
  /\ At("conn_send")
  /\ \E ok \in BOOLEAN :
       IF ok THEN fwconn' = "trying" /\ Go("conn_arm") /\ UNCHANGED <<sme, kept>>
             ELSE sme' = "idle" /\ kept' = TRUE /\ Return /\ UNCHANGED fwconn
  /\ UNCHANGED <<scanVars, dontscan, rocVars, mute, notes, timer, discq, discw, up, evq, evt, fwscan, count>>

ConnectArm_m_no_timer ==
  /\ At("conn_arm")
  /\ Return
  /\ UNCHANGED <<scanVars, permVars, rocVars, connVars, up, fwVars, count>>

\* mod_timer, after the command: its answer may have come already.
ConnectArm ==
  /\ At("conn_arm")
  /\ timer' = TRUE
  /\ Return
  /\ UNCHANGED <<scanVars, permVars, rocVars, sme, mute, notes, discq, discw, up, fwVars, count>>

\* wil_cfg80211_disconnect sends the command; cfg80211 is idle as soon as it returns
\* 0.  The firmware ends the connection, which it reports, or the attempt, which it
\* may or may not report.
Disconnect ==
  /\ At("idle") /\ up /\ sme # "idle"
  /\ \/ UNCHANGED <<sme, fwconn, evq>>
     \/ /\ sme' = "idle" /\ fwconn' = "none"
        /\ evq' \in {Append(evq, "disconnect") : x \in {fwconn} \ {"none"}}
                    \cup {evq : x \in {fwconn} \ {"up"}}
  /\ UNCHANGED <<scanVars, permVars, rocVars, mute, notes, timer, discq, discw, user, up, evt, fwscan, count>>

\* _wil6210_disconnect on a client interface, which has two steps: what it reports
\* depends on the state in which cfg80211 is at that moment; then it permits scans.
Report ==
  notes' = CASE sme = "connected"  -> Append(notes, "disconnected")
             [] sme = "connecting" -> Append(notes, "failed")
             [] OTHER              -> notes
PermitScan == dontscan' = FALSE /\ kept' = FALSE

\* cfg80211 looks at a result once it holds RTNL.
Cfg80211Event ==
  /\ At("idle") /\ notes # <<>>
  /\ notes' = Tail(notes)
  /\ sme' = CASE Head(notes) = "ok" /\ sme = "connecting"          -> "connected"
              [] Head(notes) = "failed" /\ sme = "connecting"      -> "idle"
              [] Head(notes) = "disconnected" /\ sme = "connected" -> "idle"
              [] OTHER                                             -> sme
  /\ UNCHANGED <<scanVars, permVars, rocVars, mute, timer, discq, discw, user, up, fwVars, count>>

\* wil_connect_timer_fn
TimerFires ==
  /\ timer
  /\ timer' = FALSE
  /\ discq' = TRUE
  /\ UNCHANGED <<scanVars, permVars, rocVars, sme, mute, notes, discw, user, up, fwVars, count>>

\* wil_disconnect_worker
DiscReport ==
  /\ discq /\ discw = "idle"
  /\ Report
  /\ discq' = FALSE /\ discw' = "clear"
  /\ UNCHANGED <<scanVars, permVars, rocVars, sme, mute, timer, user, up, fwVars, count>>

DiscClear ==
  /\ discw = "clear"
  /\ PermitScan
  /\ discw' = "idle"
  /\ UNCHANGED <<scanVars, rocVars, sme, mute, notes, timer, discq, user, up, fwVars, count>>

-----------------------------------------------------------------------------
(* The event worker. *)

EvtIdle == [at |-> "idle", id |-> NULL]

\* wmi_evt_scan_complete looks at wil->scan_request, and then answers it.
EvtScanComplete ==
  /\ evt.at = "idle" /\ evq # <<>> /\ Head(evq) = "scan_complete"
  /\ evq' = Tail(evq)
  /\ evt' = IF scan_request = NULL THEN EvtIdle ELSE [at |-> "scan_done", id |-> scan_request]
  /\ UNCHANGED <<scanVars, permVars, rocVars, connVars, user, up, fwconn, fwscan, count>>

ClearRequest_m_not == UNCHANGED scan_request

ClearRequest == scan_request' = NULL

\* Both the event worker and __wil_down are about to answer.
ExcuseBoth ==
  excused' = IF evt.at = "scan_done" /\ At("down_done")
             THEN excused \cup {evt.id, user.id, NULL} ELSE excused

\* Nothing makes the compiler read it once: the request that is answered is the one
\* seen before, or the one that is there now.
EvtScanDone ==
  /\ evt.at = "scan_done"
  /\ \E r \in {evt.id, scan_request} : Answer(r)
  /\ ClearRequest
  /\ ExcuseBoth
  /\ evt' = EvtIdle
  /\ UNCHANGED <<permVars, rocVars, connVars, user, up, evq, fwconn, fwscan, count>>

\* wmi_evt_connect
EvtConnect ==
  /\ evt.at = "idle" /\ evq # <<>> /\ Head(evq) = "connect"
  /\ evq' = Tail(evq)
  /\ IF sme = "connecting"
     THEN /\ timer' = FALSE /\ notes' = Append(notes, "ok")
          /\ kept' = (kept \/ (timer /\ fwconn # "up"))
     ELSE UNCHANGED <<timer, notes, kept>>   \* "Not in connecting state"
  /\ UNCHANGED <<scanVars, dontscan, rocVars, sme, mute, discq, discw, user, up, evt, fwconn, fwscan, count>>

\* wmi_evt_disconnect
EvtDisconnect ==
  /\ evt.at = "idle" /\ evq # <<>> /\ Head(evq) = "disconnect"
  /\ evq' = Tail(evq)
  /\ timer' = FALSE
  /\ Report
  /\ evt' = [EvtIdle EXCEPT !.at = "clear"]
  /\ UNCHANGED <<scanVars, permVars, rocVars, sme, mute, discq, discw, user, up, fwconn, fwscan, count>>

EvtClear ==
  /\ evt.at = "clear"
  /\ PermitScan
  /\ evt' = EvtIdle
  /\ UNCHANGED <<scanVars, rocVars, connVars, user, up, evq, fwconn, fwscan, count>>

-----------------------------------------------------------------------------
(* The interface goes down and up.  cfg80211 disconnects it first, which may *)
(* fail.                                                                    *)

DownBegin ==
  /\ At("idle") /\ up /\ mutex = NULL
  /\ count.down < MaxDowns /\ Asks("down")
  /\ mutex' = "user" /\ up' = FALSE
  /\ user' = [Idle EXCEPT !.at = "down_scan"]
  /\ UNCHANGED <<scanVars, permVars, cookie, mgmt, work, told, connVars, fwVars>>

\* __wil_down: a scan that is under way is aborted, in the same two steps.
DownScan ==
  /\ At("down_scan")
  /\ user' = IF scan_request = NULL THEN [user EXCEPT !.at = "down_report"]
             ELSE [user EXCEPT !.at = "down_done", !.id = scan_request]
  /\ UNCHANGED <<scanVars, permVars, rocVars, connVars, up, fwVars, count>>

DownScanDone ==
  /\ At("down_done")
  /\ \E r \in {user.id, scan_request} : Answer(r)
  /\ scan_request' = NULL
  /\ ExcuseBoth
  /\ Go("down_report")
  /\ UNCHANGED <<permVars, rocVars, connVars, up, fwVars, count>>

\* wil6210_disconnect, on the way down and, after cancel_work_sync, in wil_reset
UserReport ==
  /\ At("down_report") \/ (At("up_report") /\ discw = "idle")
  /\ timer' = FALSE
  /\ Report
  /\ Go(IF At("down_report") THEN "down_clear" ELSE "up_clear")
  /\ UNCHANGED <<scanVars, permVars, rocVars, sme, mute, discq, discw, up, fwVars, count>>

DownEnd ==
  /\ At("down_clear")
  /\ PermitScan
  /\ mutex' = NULL
  /\ Return
  /\ UNCHANGED <<scanVars, cookie, mgmt, work, told, connVars, up, fwVars, count>>

\* wil_up, wil_reset.  cancel_work_sync dequeues the worker, or waits for it.
UpBegin ==
  /\ At("idle") /\ ~up /\ mutex = NULL
  /\ count.up <= MaxDowns /\ count' = [count EXCEPT !.up = @ + 1]
  /\ mutex' = "user"
  /\ discq' = FALSE
  /\ user' = [Idle EXCEPT !.at = "up_report"]
  /\ UNCHANGED <<scanVars, permVars, cookie, mgmt, work, told, sme, mute, notes, timer, discw, up, fwVars>>

\* wil->status is cleared and the events are dropped.
UpFlush ==
  /\ At("up_clear")
  /\ PermitScan
  /\ evq' = <<>>
  /\ Go("up_wait")
  /\ UNCHANGED <<scanVars, rocVars, connVars, up, evt, fwconn, fwscan, count>>

\* The work queues are flushed and the firmware starts anew.
UpEnd ==
  /\ At("up_wait") /\ evt.at = "idle" /\ evq = <<>>
  /\ fwconn' = "none" /\ fwscan' = FALSE
  /\ up' \in BOOLEAN
  /\ mutex' = NULL
  /\ Return
  /\ UNCHANGED <<scanVars, permVars, cookie, mgmt, work, told, connVars, evq, evt, count>>

-----------------------------------------------------------------------------
(* The firmware. *)

Emit(e) == evq' = Append(evq, e)

FwScanned ==
  /\ fwscan
  /\ fwscan' = FALSE /\ Emit("scan_complete")
  /\ UNCHANGED <<scanVars, permVars, rocVars, connVars, user, up, evt, fwconn, count>>

FwConnects ==
  /\ fwconn = "trying"
  /\ fwconn' = "up" /\ Emit("connect")
  /\ UNCHANGED <<scanVars, permVars, rocVars, connVars, user, up, evt, fwscan, count>>

\* An attempt fails, or the peer leaves.
FwDisconnects ==
  /\ fwconn # "none"
  /\ fwconn' = "none" /\ Emit("disconnect")
  /\ UNCHANGED <<scanVars, permVars, rocVars, connVars, user, up, evt, fwscan, count>>

-----------------------------------------------------------------------------
ScanStep == ScanSend \/ P2pCfg \/ P2pSet \/ P2pStop \/ P2pDone
RocStep  == RocCfg \/ RocListen \/ RocStop \/ RocEnd \/ CancelEnd
ConnStep == ConnectMark \/ ConnectSend \/ ConnectArm
IfStep   == DownScan \/ DownScanDone \/ UserReport \/ DownEnd \/ UpFlush \/ UpEnd
UserStep == ScanStep \/ RocStep \/ ConnStep \/ IfStep
UserAsks == ScanBegin \/ RocBegin \/ CancelBegin \/ ConnectBegin \/ Disconnect
                      \/ DownBegin \/ UpBegin
RocWork  == WorkBegin \/ WorkStop \/ WorkExpire
DiscWork == DiscReport \/ DiscClear
EvtWork  == EvtScanComplete \/ EvtScanDone \/ EvtConnect \/ EvtDisconnect \/ EvtClear

Next ==
  \/ UserAsks \/ UserStep
  \/ RocDue \/ RocWork
  \/ TimerFires \/ DiscWork
  \/ EvtWork \/ Cfg80211Event
  \/ FwScanned \/ FwConnects \/ FwDisconnects

Spec == Init /\ [][Next]_vars

\* A thread that can go on does so, timers expire, and the firmware finishes its
\* scans.  The mutex goes to those who wait for it, in turn.  Nothing is assumed of the
\* user, or of connection attempts.
Fairness ==
  /\ WF_vars(UserStep) /\ WF_vars(RocDue) /\ SF_vars(RocWork)
  /\ WF_vars(TimerFires) /\ WF_vars(DiscWork)
  /\ WF_vars(EvtWork) /\ WF_vars(Cfg80211Event) /\ WF_vars(FwScanned)
FairSpec == Spec /\ Fairness

-----------------------------------------------------------------------------
(* Properties. *)

Locked == {"roc_cfg", "roc_listen", "roc_stop", "roc_end", "down_scan", "down_done",
           "down_report",
           "down_clear", "up_report", "up_clear", "up_wait"}

\* Type correctness of what cfg80211.c, offchannel.c and cfg80211 keep; wil->mutex is
\* held by the one who is between its mutex_lock and mutex_unlock, and by nobody else.
TypeOK ==
  /\ scan_request \in {NULL} \cup 1..MaxScans /\ asking \in {NULL} \cup 1..MaxScans
  /\ stray \subseteq {NULL} \cup 1..MaxScans /\ excused \subseteq {NULL} \cup 1..MaxScans
  /\ dontscan \in BOOLEAN /\ kept \in BOOLEAN /\ mute \in BOOLEAN
  /\ mutex \in {NULL, "user", "roc"}
  /\ cookie \in 0..MaxRocs /\ mgmt \in BOOLEAN
  /\ work \in {"idle", "delayed", "due", "stop", "expire"}
  /\ told \in [1..MaxRocs -> {"none", "ready", "expired"}]
  /\ sme \in {"idle", "connecting", "connected"}
  /\ notes \in Seq({"ok", "failed", "disconnected"})
  /\ timer \in BOOLEAN /\ discq \in BOOLEAN /\ discw \in {"idle", "clear"} /\ up \in BOOLEAN
  /\ evq \in Seq({"scan_complete", "connect", "disconnect"})
  /\ evt \in [at : {"idle", "scan_done", "clear"}, id : {NULL} \cup 1..MaxScans]
  /\ fwconn \in {"none", "trying", "up"} /\ fwscan \in BOOLEAN
  /\ mutex = "user" <=> user.at \in Locked
  /\ mutex = "roc" <=> work \in {"stop", "expire"}

\* A scan that cfg80211 hands over is answered once: with an error, or with
\* cfg80211_scan_done from SCAN_COMPLETE, from wil_p2p_scan or from __wil_down.  It
\* may be answered twice only if it could not be started, as wil->scan_request then
\* still refers to it (cfg80211.c:394) or wil_p2p_scan does both (cfg80211.c:335), or
\* if __wil_down answers it while wmi_evt_scan_complete does (main.c:493, wmi.c:386).
OneAnswer == stray \subseteq excused

Quiet ==
  /\ user = Idle /\ work = "idle" /\ ~timer /\ ~discq /\ discw = "idle"
  /\ evq = <<>> /\ evt = EvtIdle /\ notes = <<>>

\* When nothing is under way and the firmware is not connected, scans are permitted:
\* whatever set "dontscan" (connect, P2P search, ROC) has been followed by something
\* that clears it.  It stays set only if a command failed that was sent right after it
\* was set (cfg80211.c:506, wmi.c:974), or if the connect timer, which would have led
\* to its end, was stopped by the event of a connection that is over (wmi.c:454).
ScanPossibleAgain == Quiet /\ fwconn # "up" => ~dontscan \/ kept

\* cfg80211 hears of a cookie that the channel is ready, then that it has expired,
\* and neither twice nor the other way round: cfg80211_ready_on_channel in
\* wil_prepare_roc and cfg80211_remain_on_channel_expired in wil_roc_cancel_work.
ReadyThenExpired ==
  [][\A c \in 1..MaxRocs : told'[c] # told[c] =>
       <<told[c], told'[c]>> \in {<<"none", "ready">>, <<"ready", "expired">>}]_vars

\* A scan gets its answer, an attempt to connect its result, unless it was accepted
\* without a command (cfg80211.c:474), and a ROC that became ready expires.
AllAnswered ==
  /\ asking # NULL ~> asking = NULL
  /\ sme = "connecting" ~> sme # "connecting" \/ mute
  /\ \A c \in 1..MaxRocs : told[c] = "ready" ~> told[c] = "expired"

\* Without the exceptions of the three: no request is answered when cfg80211 does not
\* wait for it, ...
NoStrayAnswer == stray = {}

\* ... whatever set "dontscan" is followed by what clears it, ...
DontscanCleared == Quiet /\ fwconn # "up" => ~dontscan

\* ... and an attempt to connect has a result.
AttemptAnswered == sme = "connecting" ~> sme # "connecting"

\* "FW don't support scan after connection attempt" (cfg80211.c:366, 501): no scan is
\* accepted while cfg80211 connects or is connected.
NoScanAfterConnect ==
  [][asking = NULL /\ asking' # NULL => sme = "idle" \/ notes # <<>>]_vars

\* When nothing is under way, cfg80211 is connected only if the firmware is.
DisconnectSeen == Quiet /\ sme = "connected" => fwconn = "up"

\* The worker that the connect timer starts ends attempts, not connections: "Connect
\* timeout" (main.c:156).
TimerSparesConnections ==
  [][discw = "idle" /\ discw' = "clear" => sme # "connected"]_vars

\* When nothing is under way and the interface is up, the firmware is connected only
\* if cfg80211 is.
ConnectionKept == Quiet /\ up /\ fwconn = "up" => sme = "connected"
=============================================================================
