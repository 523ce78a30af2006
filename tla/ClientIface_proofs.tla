------------------------- MODULE ClientIface_proofs -------------------------
(***************************************************************************)
(* Proofs about ClientIface, for any number of scans, channels, attempts   *)
(* to connect and downs.                                                   *)
(*                                                                         *)
(* Each of the three properties speaks of the moment in which a request is *)
(* answered, a cookie reported or everything at rest; the invariants say   *)
(* who, in between, still owes the answer (Asked), the report (Cookies) or *)
(* the end of "dontscan" (Clearing).                                       *)
(***************************************************************************)
EXTENDS ClientIface, TLAPS

Roc == {"roc_cfg", "roc_listen", "roc_stop", "roc_end"}
P2p == {"p2p_cfg", "p2p_set", "p2p_stop", "p2p_done"}

UserType ==
  user \in [at : {"idle", "scan_send", "cancel", "conn_mark", "conn_send", "conn_arm"}
                   \cup P2p \cup Locked,
            id : {NULL} \cup 1..MaxScans, ok : BOOLEAN]

CountType ==
  count \in [scan : 0..MaxScans, roc : 0..MaxRocs, conn : Nat, down : Nat, up : Nat]

\* A ROC in the midst of being prepared has been announced to nobody; later it is
\* ready until its work has run, unless it is for a management frame.
Cookies ==
  /\ cookie \in {0, count.roc}
  /\ \A c \in 1..MaxRocs : c > count.roc => told[c] = "none"
  /\ user.at \in Roc => cookie # 0 /\ told[cookie] = "none"
  /\ user.at \notin Roc /\ cookie # 0 /\ ~mgmt => told[cookie] = "ready"

\* The type, part by part.
BoolType ==
  /\ dontscan \in BOOLEAN /\ kept \in BOOLEAN /\ mute \in BOOLEAN /\ mgmt \in BOOLEAN
  /\ timer \in BOOLEAN /\ discq \in BOOLEAN /\ up \in BOOLEAN /\ fwscan \in BOOLEAN
ScanType ==
  /\ scan_request \in {NULL} \cup 1..MaxScans /\ asking \in {NULL} \cup 1..MaxScans
  /\ stray \subseteq {NULL} \cup 1..MaxScans /\ excused \subseteq {NULL} \cup 1..MaxScans
RocType == cookie \in 0..MaxRocs /\ told \in [1..MaxRocs -> {"none", "ready", "expired"}]
ConnType ==
  /\ sme \in {"idle", "connecting", "connected"}
  /\ notes \in Seq({"ok", "failed", "disconnected"})
  /\ discw \in {"idle", "clear"}
FwType ==
  /\ evq \in Seq({"scan_complete", "connect", "disconnect"})
  /\ evt \in [at : {"idle", "scan_done", "clear"}, id : {NULL} \cup 1..MaxScans]
  /\ fwconn \in {"none", "trying", "up"}
MutexType ==
  /\ mutex \in {NULL, "user", "roc"}
  /\ work \in {"idle", "delayed", "due", "stop", "expire"}
  /\ mutex = "user" <=> user.at \in Locked
  /\ mutex = "roc" <=> work \in {"stop", "expire"}

TypeParts == BoolType /\ ScanType /\ RocType /\ ConnType /\ FwType /\ MutexType

IInv == TypeParts /\ UserType /\ CountType /\ Cookies

\* What cfg80211 waits for is the request of scan_request, or the search that the
\* user's thread makes; the event worker and __wil_down answer the request that
\* scan_request refers to, unless both do.
Asked ==
  /\ stray \subseteq excused
  /\ scan_request # NULL => asking = scan_request \/ scan_request \in excused
  /\ user.at \in P2p => scan_request = NULL /\ (asking = user.id \/ user.id \in excused)
  /\ evt.at = "scan_done" =>
       evt.id # NULL /\ (evt.id = scan_request \/ {evt.id, NULL} \subseteq excused)
  /\ user.at = "down_done" =>
       user.id # NULL /\ (user.id = scan_request \/ {user.id, NULL} \subseteq excused)

\* Something is under way, or will come from the firmware, that clears "dontscan".
EndComes == \E i \in 1..Len(evq) : evq[i] = "disconnect"
Clearing ==
  \/ user.at \in {"p2p_set", "p2p_stop", "roc_listen", "roc_stop", "conn_send", "conn_arm",
                  "down_report", "down_clear", "up_report", "up_clear"}
  \/ work \in {"delayed", "due", "stop"}
  \/ timer \/ discq \/ discw = "clear"
  \/ evt.at = "clear" \/ EndComes \/ fwconn = "up"

Permits ==
  /\ dontscan => Clearing \/ kept
  /\ user.at = "up_wait" => ~dontscan
-----------------------------------------------------------------------------
\* A step that leaves the ROC alone keeps what is known of its cookies.
LEMMA CookiesKept ==
  ASSUME Cookies, UNCHANGED <<cookie, mgmt, told>>, count'.roc = count.roc,
         user'.at \in Roc <=> user.at \in Roc
  PROVE  Cookies'
BY DEF Cookies

\* And who holds the mutex.
LEMMA MutexKept ==
  ASSUME MutexType, UNCHANGED <<mutex, work>>, user'.at \in Locked <=> user.at \in Locked
  PROVE  MutexType'
BY DEF MutexType

\* An answer is about one request.
LEMMA AnswerType ==
  ASSUME ScanType, NEW r \in {NULL} \cup 1..MaxScans, Answer(r)
  PROVE  /\ asking' \in {NULL} \cup 1..MaxScans
         /\ stray' \subseteq {NULL} \cup 1..MaxScans
<1>1. CASE r # NULL /\ asking = r
  BY <1>1 DEF Answer, ScanType
<1>2. CASE ~(r # NULL /\ asking = r)
  BY <1>2 DEF Answer, ScanType
<1>3. QED
  BY <1>1, <1>2

LEMMA ExcuseType ==
  ASSUME ScanType, UserType, FwType, ExcuseBoth
  PROVE  excused' \subseteq {NULL} \cup 1..MaxScans
<1>1. evt.id \in {NULL} \cup 1..MaxScans /\ user.id \in {NULL} \cup 1..MaxScans
  BY DEF FwType, UserType
<1>2. excused' \in {excused, excused \cup {evt.id, user.id, NULL}}
  BY DEF ExcuseBoth
<1>3. QED
  BY <1>1, <1>2 DEF ScanType

LEMMA BoolStep ==
  ASSUME BoolType, Next
  PROVE  BoolType'
<1> USE DEF BoolType, scanVars, permVars, rocVars, connVars, fwVars
<1>1. CASE ScanBegin \/ ScanStep
  BY <1>1 DEF ScanBegin, ScanStep, ScanSend, P2pCfg, P2pSet, P2pStop, P2pDone, Answer,
              wmi_stop_discovery
<1>2. CASE RocBegin \/ RocStep \/ CancelBegin \/ RocDue \/ RocWork
  <2>1. CASE RocBegin \/ RocStep
    BY <2>1 DEF RocBegin, RocStep, RocCfg, RocListen, RocStop, RocEnd, CancelEnd, wmi_stop_discovery
  <2>2. CASE CancelBegin \/ RocDue
    BY <2>2 DEF CancelBegin, RocDue
  <2>3. CASE RocWork
    BY <2>3 DEF RocWork, WorkBegin, WorkStop, WorkExpire, wmi_stop_discovery
  <2>4. QED
    BY <1>2, <2>1, <2>2, <2>3
<1>3. CASE ConnectBegin \/ ConnStep \/ Disconnect
  BY <1>3 DEF ConnectBegin, ConnStep, ConnectMark, ConnectSend, ConnectArm, Disconnect
<1>4. CASE DownBegin \/ UpBegin \/ IfStep
  BY <1>4 DEF DownBegin, UpBegin, IfStep, DownScan, DownScanDone, UserReport, DownEnd, UpFlush, UpEnd,
              Answer, PermitScan
<1>5. CASE TimerFires \/ DiscWork \/ EvtWork \/ Cfg80211Event
  BY <1>5 DEF TimerFires, DiscWork, DiscReport, DiscClear, EvtWork, EvtScanComplete,
              EvtScanDone, EvtConnect, EvtDisconnect, EvtClear, Cfg80211Event, Answer, PermitScan
<1>6. CASE FwScanned \/ FwConnects \/ FwDisconnects
  BY <1>6 DEF FwScanned, FwConnects, FwDisconnects
<1>7. QED
  BY <1>1, <1>2, <1>3, <1>4, <1>5, <1>6 DEF Next, UserAsks, UserStep

LEMMA CountStep ==
  ASSUME CountType, Next
  PROVE  CountType'
<1> USE DEF CountType
<1>1. CASE ScanBegin
  BY <1>1, BoundAssumption DEF ScanBegin, Asks
<1>2. CASE RocBegin
  BY <1>2, BoundAssumption DEF RocBegin, Asks
<1>3. CASE ConnectBegin
  BY <1>3 DEF ConnectBegin, Asks
<1>4. CASE DownBegin \/ UpBegin
  BY <1>4 DEF DownBegin, UpBegin, Asks
<1>5. CASE ~(ScanBegin \/ RocBegin \/ ConnectBegin \/ DownBegin \/ UpBegin)
  BY <1>5 DEF Next, UserAsks, UserStep, ScanStep, ScanSend, P2pCfg, P2pSet, P2pStop, P2pDone,
              RocStep, RocCfg, RocListen, RocStop, RocEnd, CancelBegin, CancelEnd,
              RocDue, RocWork, WorkBegin, WorkStop, WorkExpire,
              ConnStep, ConnectMark, ConnectSend, ConnectArm, Disconnect,
              IfStep, DownScan, DownScanDone, UserReport, DownEnd, UpFlush, UpEnd,
              TimerFires, DiscWork, DiscReport, DiscClear, EvtWork, EvtScanComplete,
              EvtScanDone, EvtConnect, EvtDisconnect, EvtClear, Cfg80211Event,
              FwScanned, FwConnects, FwDisconnects
<1>6. QED
  BY <1>1, <1>2, <1>3, <1>4, <1>5

LEMMA UserTypeStep ==
  ASSUME UserType, ScanType, Next
  PROVE  UserType'
<1> USE DEF UserType
<1>1. CASE ScanBegin
  BY <1>1 DEF ScanBegin, Idle, P2p
<1>2. CASE P2pCfg \/ P2pSet \/ P2pStop
  BY <1>2 DEF P2pCfg, P2pSet, P2pStop, Go, P2p
<1>3. CASE RocBegin \/ RocCfg \/ RocListen \/ RocStop
  <2>1. CASE RocBegin
    BY <2>1 DEF RocBegin, Idle, Locked
  <2>2. CASE RocCfg
    BY <2>2 DEF RocCfg, Locked
  <2>3. CASE RocListen
    BY <2>3 DEF RocListen, Locked
  <2>4. CASE RocStop
    BY <2>4 DEF RocStop, Go, Locked
  <2>5. QED
    BY <1>3, <2>1, <2>2, <2>3, <2>4
<1>4. CASE ConnectBegin \/ ConnectMark \/ ConnectSend \/ Disconnect
  <2>1. CASE ConnectBegin \/ Disconnect
    BY <2>1 DEF ConnectBegin, Disconnect, Idle
  <2>2. CASE ConnectMark
    BY <2>2 DEF ConnectMark, Go
  <2>3. CASE ConnectSend
    <3>1. Return \/ Go("conn_arm")
      BY <2>3, Zenon DEF ConnectSend
    <3>2. CASE Return
      BY <3>2 DEF Return, Idle
    <3>3. CASE Go("conn_arm")
      BY <3>3 DEF Go
    <3>4. QED
      BY <3>1, <3>2, <3>3
  <2>4. QED
    BY <1>4, <2>1, <2>2, <2>3
<1>5. CASE DownBegin \/ UpBegin \/ DownScan \/ DownScanDone \/ UserReport \/ UpFlush
  <2>1. CASE DownBegin \/ UpBegin
    BY <2>1 DEF DownBegin, UpBegin, Idle, Locked
  <2>2. CASE DownScan
    BY <2>2 DEF DownScan, ScanType, Locked
  <2>3. CASE DownScanDone \/ UserReport \/ UpFlush
    BY <2>3 DEF DownScanDone, UserReport, UpFlush, Go, Locked
  <2>4. QED
    BY <1>5, <2>1, <2>2, <2>3
<1>6. CASE ScanSend \/ P2pDone \/ RocEnd \/ CancelEnd \/ ConnectArm \/ DownEnd \/ UpEnd
  <2>1. Return
    BY <1>6 DEF ScanSend, P2pDone, RocEnd, CancelEnd, ConnectArm, DownEnd, UpEnd
  <2>2. QED
    BY <2>1 DEF Return, Idle
<1>7. CASE CancelBegin
  BY <1>7 DEF CancelBegin, Idle
<1>8. CASE RocDue \/ RocWork \/ TimerFires \/ DiscWork \/ EvtWork \/ Cfg80211Event
           \/ FwScanned \/ FwConnects \/ FwDisconnects
  BY <1>8 DEF RocDue, RocWork, WorkBegin, WorkStop, WorkExpire,
              TimerFires, DiscWork, DiscReport, DiscClear, EvtWork, EvtScanComplete,
              EvtScanDone, EvtConnect, EvtDisconnect, EvtClear, Cfg80211Event,
              FwScanned, FwConnects, FwDisconnects
<1>9. QED
  BY <1>1, <1>2, <1>3, <1>4, <1>5, <1>6, <1>7, <1>8
  DEF Next, UserAsks, UserStep, ScanStep, RocStep, ConnStep, IfStep

LEMMA InitInv == Init => IInv
<1> SUFFICES ASSUME Init PROVE IInv
  OBVIOUS
<1>0. BoolType
  BY DEF Init, BoolType
<1>1. ScanType /\ RocType
  BY BoundAssumption DEF Init, ScanType, RocType
<1>2. ConnType /\ FwType
  BY DEF Init, ConnType, FwType
<1>3. MutexType
  BY NullAssumption DEF Init, MutexType, Idle, Locked
<1>4. UserType /\ CountType
  BY BoundAssumption DEF Init, UserType, CountType, Idle
<1>5. Cookies
  BY DEF Init, Cookies, Idle, Roc
<1>6. QED
  BY <1>0, <1>1, <1>2, <1>3, <1>4, <1>5 DEF IInv, TypeParts

\* Scans, the P2P search included.
LEMMA ScanInv ==
  ASSUME IInv, BoolType', UserType', CountType', ScanBegin \/ ScanStep
  PROVE  IInv'
<1> USE DEF IInv, TypeParts
<1>1. UNCHANGED <<rocVars, connVars, up, evq, evt, fwconn>> /\ count'.roc = count.roc
  BY DEF ScanBegin, ScanStep, ScanSend, P2pCfg, P2pSet, P2pStop, P2pDone, fwVars, CountType, Asks
<1>3. user.at \notin Roc \cup Locked /\ user'.at \notin Roc \cup Locked
  <2>1. CASE ScanBegin
    BY <2>1 DEF ScanBegin, Idle, At, Roc, Locked
  <2>2. CASE ScanSend \/ P2pDone
    BY <2>2 DEF ScanSend, P2pDone, Return, Idle, At, Roc, Locked
  <2>3. CASE P2pCfg \/ P2pSet \/ P2pStop
    <3>1. user.at \in P2p
      BY <2>3 DEF P2pCfg, P2pSet, P2pStop, At, P2p
    <3>2. user'.at \in P2p
      BY <2>3 DEF P2pCfg, P2pSet, P2pStop, Go, UserType, P2p
    <3>3. QED
      BY <3>1, <3>2 DEF P2p, Roc, Locked
  <2>4. QED
    BY <2>1, <2>2, <2>3 DEF ScanStep
<1>4. ScanType'
  <2>1. CASE ScanBegin
    BY <2>1 DEF ScanBegin, ScanType
  <2>2. CASE ScanSend
    <3>1. user.id \in {NULL} \cup 1..MaxScans /\ scan_request' = scan_request
      BY <2>2 DEF ScanSend, UserType
    <3>2. CASE UNCHANGED <<asking, stray, excused>>
      BY <3>1, <3>2 DEF ScanType
    <3>3. CASE Answer(user.id) /\ excused' = excused \cup {user.id}
      <4>1. excused' \subseteq {NULL} \cup 1..MaxScans
        BY <3>1, <3>3 DEF ScanType
      <4>2. QED
        BY <3>1, <3>3, <4>1, AnswerType DEF ScanType
    <3>4. QED
      BY <2>2, <3>2, <3>3 DEF ScanSend
  <2>5. CASE P2pDone
    <3>1. user.id \in {NULL} \cup 1..MaxScans /\ scan_request' = scan_request /\ asking' = NULL
      BY <2>5 DEF P2pDone, UserType
    <3>2. stray' \in {stray, stray \cup {user.id}} /\ excused' \in {excused, excused \cup {user.id}}
      BY <2>5 DEF P2pDone
    <3>3. QED
      BY <3>1, <3>2 DEF ScanType
  <2>3. CASE P2pCfg \/ P2pSet \/ P2pStop
    BY <2>3 DEF P2pCfg, P2pSet, P2pStop, wmi_stop_discovery, ScanType, scanVars
  <2>4. QED
    BY <2>1, <2>2, <2>3, <2>5 DEF ScanStep
<1>5. RocType' /\ ConnType'
  BY <1>1 DEF RocType, ConnType, rocVars, connVars
<1>6. FwType'
  BY <1>1 DEF FwType, ScanBegin, ScanStep, ScanSend, P2pCfg, P2pSet, P2pStop, P2pDone, fwVars
<1>7. MutexType' /\ Cookies'
  BY <1>1, <1>3, MutexKept, CookiesKept DEF rocVars
<1>8. QED
  BY <1>4, <1>5, <1>6, <1>7

\* The ROC, in the user's thread.
LEMMA RocInv ==
  ASSUME IInv, BoolType', UserType', CountType', RocBegin \/ RocStep \/ CancelBegin
  PROVE  IInv'
<1> USE DEF IInv, TypeParts
<1>1. UNCHANGED <<scanVars, connVars, up, fwVars>>
  BY DEF RocBegin, RocStep, RocCfg, RocListen, RocStop, RocEnd, CancelBegin, CancelEnd
<1>3. ScanType'
  BY <1>1 DEF ScanType, scanVars, RocBegin, RocStep, RocCfg, RocListen, RocStop, RocEnd,
     CancelBegin, CancelEnd, wmi_stop_discovery
<1>4. ConnType' /\ FwType'
  BY <1>1 DEF ConnType, FwType, connVars, fwVars
<1>5. CASE RocBegin
  <2>1. CASE UNCHANGED <<rocVars, user, count>>
    BY <1>3, <1>4, <2>1, MutexKept, CookiesKept DEF rocVars, RocType
  <2>2. CASE ~UNCHANGED <<rocVars, user, count>>
    <3>1. /\ cookie = 0 /\ count.roc < MaxRocs /\ mutex = NULL
          /\ mutex' = "user" /\ cookie' = count.roc + 1
          /\ count' = [count EXCEPT !.roc = @ + 1]
          /\ user'.at = "roc_cfg" /\ UNCHANGED <<work, told>>
      BY <1>5, <2>2 DEF RocBegin, Idle, Asks
    <3>2. MutexType'
      BY <3>1, NullAssumption DEF MutexType, Locked
    <3>3. count'.roc = count.roc + 1 /\ count.roc \in 0..MaxRocs
      BY <3>1, BoundAssumption DEF CountType
    <3>6. RocType'
      BY <3>1, <3>3, BoundAssumption DEF RocType
    <3>4. Cookies'
      BY <3>1, <3>3, BoundAssumption DEF Cookies, UserType, Roc
    <3>5. QED
      BY <1>3, <1>4, <3>2, <3>4, <3>6
  <2>3. QED
    BY <2>1, <2>2
<1>6. CASE RocCfg \/ RocListen \/ RocStop
  <2>1. user.at \in Roc \cap Locked /\ user'.at \in Roc \cap Locked
    BY <1>6 DEF RocCfg, RocListen, RocStop, Go, At, UserType, Roc, Locked
  <2>2. UNCHANGED <<cookie, mgmt, told, count, mutex>>
    BY <1>6 DEF RocCfg, RocListen, RocStop, rocVars
  <2>3. RocType' /\ Cookies'
    BY <2>1, <2>2, CookiesKept DEF RocType
  <2>4. work' = work \/ work' = "delayed"
    BY <1>6 DEF RocCfg, RocListen, RocStop, rocVars
  <2>5. MutexType'
    BY <2>1, <2>2, <2>4 DEF MutexType
  <2>6. QED
    BY <1>3, <1>4, <2>3, <2>5
<1>7. CASE RocEnd
  <2>1. cookie \in 1..MaxRocs /\ cookie = count.roc /\ told[cookie] = "none"
    BY <1>7 DEF RocEnd, At, Roc, Cookies, RocType
  <2>2. user'.at = "idle" /\ count' = count /\ mutex' = NULL /\ work' = work
    BY <1>7 DEF RocEnd, Return, Idle
  <2>3. RocType'
    BY <1>7, BoundAssumption DEF RocEnd, Tell, RocType
  <2>4. user.at \in Locked
    BY <1>7 DEF RocEnd, At, Locked
  <2>5. MutexType'
    BY <2>2, <2>4, NullAssumption DEF MutexType, Locked
  <2>6. Cookies'
    <3>1. CASE user.ok
      <4>1. /\ cookie' = cookie /\ mgmt' = mgmt
            /\ told' = IF mgmt THEN told ELSE [told EXCEPT ![cookie] = "ready"]
        BY <1>7, <3>1 DEF RocEnd, Tell
      <4>2. \A c \in 1..MaxRocs : c > count.roc => told'[c] = told[c]
        BY <2>1, <4>1, BoundAssumption DEF RocType, CountType
      <4>3. ~mgmt' => told'[cookie] = "ready"
        BY <2>1, <4>1 DEF RocType
      <4>4. QED
        BY <2>1, <2>2, <4>1, <4>2, <4>3 DEF Cookies, Roc
    <3>2. CASE ~user.ok
      BY <1>7, <2>1, <2>2, <3>2 DEF RocEnd, Cookies, Roc
    <3>3. QED
      BY <3>1, <3>2
  <2>7. QED
    BY <1>3, <1>4, <2>3, <2>5, <2>6
<1>8. CASE CancelBegin \/ CancelEnd
  <2>1. user.at \notin Roc \cup Locked /\ user'.at \notin Roc \cup Locked
    BY <1>8 DEF CancelBegin, CancelEnd, Return, Idle, At, Roc, Locked
  <2>2. UNCHANGED <<cookie, mgmt, told, count, mutex>>
    BY <1>8 DEF CancelBegin, CancelEnd, rocVars
  <2>3. work' = work \/ (work = "delayed" /\ work' = "due")
    BY <1>8 DEF CancelBegin, CancelEnd, rocVars
  <2>4. RocType' /\ Cookies'
    BY <2>1, <2>2, CookiesKept DEF RocType
  <2>5. MutexType'
    BY <2>1, <2>2, <2>3 DEF MutexType
  <2>6. QED
    BY <1>3, <1>4, <2>4, <2>5
<1>9. QED
  BY <1>5, <1>6, <1>7, <1>8 DEF RocStep

\* The ROC's timer and its worker.
LEMMA WorkInv ==
  ASSUME IInv, BoolType', UserType', CountType', RocDue \/ RocWork
  PROVE  IInv'
<1> USE DEF IInv, TypeParts
<1>1. UNCHANGED <<scanVars, connVars, up, fwVars, user, count>>
  BY DEF RocDue, RocWork, WorkBegin, WorkStop, WorkExpire
<1>2. ConnType' /\ FwType'
  BY <1>1 DEF ConnType, FwType, connVars, fwVars
<1>3. ScanType'
  BY <1>1 DEF ScanType, scanVars, RocDue, RocWork, WorkBegin, WorkStop, WorkExpire,
     wmi_stop_discovery
<1>4. MutexType'
  BY <1>1, NullAssumption
  DEF RocDue, RocWork, WorkBegin, WorkMayBegin, WorkStop, WorkExpire, MutexType
<1>5. RocType' /\ Cookies'
  <2>1. CASE RocDue \/ WorkBegin \/ WorkStop
    <3>1. UNCHANGED <<cookie, mgmt, told>>
      BY <2>1 DEF RocDue, WorkBegin, WorkStop
    <3>2. QED
      BY <1>1, <3>1, CookiesKept DEF RocType
  <2>2. CASE WorkExpire
    <3>1. user.at \notin Roc
      BY <2>2, NullAssumption DEF WorkExpire, MutexType, Locked, Roc
    <3>2. RocType'
      BY <2>2, BoundAssumption DEF WorkExpire, Tell, RocType
    <3>3. \A c \in 1..MaxRocs : c > count.roc => told'[c] = "none"
      <4>1. \A c \in 1..MaxRocs : c > count.roc => c # cookie
        BY BoundAssumption DEF Cookies, UserType
      <4>2. QED
        <5>1. told' = told \/ told' = [told EXCEPT ![cookie] = "expired"]
          BY <2>2 DEF WorkExpire, Tell
        <5>2. \A c \in 1..MaxRocs : c # cookie => told'[c] = told[c]
          BY <5>1 DEF RocType
        <5>3. QED
          BY <4>1, <5>2 DEF Cookies
    <3>4. Cookies'
      BY <1>1, <2>2, <3>1, <3>3 DEF WorkExpire, Cookies
    <3>5. QED
      BY <3>2, <3>4
  <2>3. QED
    BY <2>1, <2>2 DEF RocWork
<1>6. QED
  BY <1>2, <1>3, <1>4, <1>5

\* The user connects and disconnects.
LEMMA ConnInv ==
  ASSUME IInv, BoolType', UserType', CountType', ConnectBegin \/ ConnStep \/ Disconnect
  PROVE  IInv'
<1> USE DEF IInv, TypeParts
<1>1. UNCHANGED <<scanVars, rocVars, up, evt, fwscan>> /\ count'.roc = count.roc
  BY DEF ConnectBegin, ConnStep, ConnectMark, ConnectSend, ConnectArm, Disconnect, fwVars, CountType, Asks
<1>3. user.at \notin Roc \cup Locked /\ user'.at \notin Roc \cup Locked
  BY DEF ConnectBegin, ConnStep, ConnectMark, ConnectSend, ConnectArm, Disconnect, Return, Go,
         UserType, Idle, At, Roc, Locked
<1>4. ScanType'
  BY <1>1 DEF ScanType, scanVars,
     ConnectBegin, ConnStep, ConnectMark, ConnectSend, ConnectArm, Disconnect
<1>5. ConnType'
  BY <1>1 DEF ConnType, connVars,
     ConnectBegin, ConnStep, ConnectMark, ConnectSend, ConnectArm, Disconnect
<1>6. FwType'
  BY <1>1 DEF FwType, fwVars,
     ConnectBegin, ConnStep, ConnectMark, ConnectSend, ConnectArm, Disconnect
<1>7. RocType' /\ MutexType' /\ Cookies'
  BY <1>1, <1>3, MutexKept, CookiesKept DEF rocVars, RocType
<1>8. QED
  BY <1>4, <1>5, <1>6, <1>7

\* The interface goes down and up.
LEMMA IfInv ==
  ASSUME IInv, BoolType', UserType', CountType', DownBegin \/ UpBegin \/ IfStep
  PROVE  IInv'
<1> USE DEF IInv, TypeParts
<1>1. UNCHANGED <<cookie, mgmt, told, work, evt>> /\ count'.roc = count.roc
  BY DEF DownBegin, UpBegin, IfStep, DownScan, DownScanDone, UserReport, DownEnd, UpFlush, UpEnd,
         rocVars, fwVars, CountType, Asks
<1>3. user.at \notin Roc /\ user'.at \notin Roc
  <2>1. CASE DownBegin \/ UpBegin \/ DownEnd \/ UpEnd
    BY <2>1 DEF DownBegin, UpBegin, DownEnd, UpEnd, Return, Idle, At, Roc
  <2>2. CASE DownScan \/ DownScanDone
    BY <2>2 DEF DownScan, DownScanDone, Go, UserType, At, Roc
  <2>3. CASE UserReport \/ UpFlush
    BY <2>3 DEF UserReport, UpFlush, Go, UserType, At, Roc
  <2>4. QED
    BY <2>1, <2>2, <2>3 DEF IfStep
<1>4. ScanType'
  <2>1. CASE DownScanDone
    <3>1. PICK r \in {user.id, scan_request} : Answer(r)
      BY <2>1 DEF DownScanDone
    <3>2. r \in {NULL} \cup 1..MaxScans
      BY <3>1 DEF UserType, ScanType
    <3>3. excused' \subseteq {NULL} \cup 1..MaxScans
      BY <2>1, ExcuseType DEF DownScanDone
    <3>4. scan_request' = NULL
      BY <2>1 DEF DownScanDone
    <3>5. QED
      BY <3>1, <3>2, <3>3, <3>4, AnswerType DEF ScanType
  <2>2. CASE ~DownScanDone
    <3>1. UNCHANGED scanVars
      BY <2>2 DEF DownBegin, UpBegin, IfStep, DownScan, UserReport, DownEnd, UpFlush, UpEnd
    <3>2. QED
      BY <3>1 DEF ScanType, scanVars
  <2>3. QED
    BY <2>1, <2>2
<1>5. ConnType'
  <2>1. CASE UserReport
    BY <2>1 DEF UserReport, Report, ConnType
  <2>2. CASE ~UserReport
    BY <2>2 DEF ConnType, connVars,
       DownBegin, UpBegin, IfStep, DownScan, DownScanDone, DownEnd, UpFlush, UpEnd
  <2>3. QED
    BY <2>1, <2>2
<1>6. FwType'
  <2>1. (evq' = evq \/ evq' = <<>>) /\ (fwconn' = fwconn \/ fwconn' = "none")
    BY DEF fwVars, DownBegin, UpBegin, IfStep, DownScan, DownScanDone, UserReport, DownEnd, UpFlush, UpEnd
  <2>2. evq' \in Seq({"scan_complete", "connect", "disconnect"})
    <3>1. CASE evq' = evq
      BY <3>1 DEF FwType
    <3>2. CASE evq' = <<>>
      BY <3>2
    <3>3. QED
      BY <2>1, <3>1, <3>2
  <2>3. QED
    BY <1>1, <2>1, <2>2 DEF FwType
<1>7. MutexType'
  <2>1. CASE DownBegin \/ UpBegin
    BY <1>1, <2>1, NullAssumption DEF DownBegin, UpBegin, MutexType, Idle, At, Locked
  <2>2. CASE DownEnd \/ UpEnd
    BY <1>1, <2>2, NullAssumption
    DEF DownEnd, UpEnd, MutexType, Return, Idle, At, Locked
  <2>3. CASE DownScan \/ DownScanDone \/ UserReport \/ UpFlush
    BY <1>1, <2>3, MutexKept
    DEF DownScan, DownScanDone, UserReport, UpFlush, rocVars, Go, UserType, At, Locked
  <2>4. QED
    BY <2>1, <2>2, <2>3 DEF IfStep
<1>8. RocType' /\ Cookies'
  BY <1>1, <1>3, CookiesKept DEF RocType
<1>9. QED
  BY <1>4, <1>5, <1>6, <1>7, <1>8

\* The timer, the other workers, cfg80211 and the firmware.
LEMMA OtherInv ==
  ASSUME IInv, BoolType', UserType', CountType',
         TimerFires \/ DiscWork \/ EvtWork \/ Cfg80211Event \/ FwScanned \/ FwConnects \/ FwDisconnects
  PROVE  IInv'
<1> USE DEF IInv, TypeParts
<1>1. UNCHANGED <<rocVars, user, up, count>>
  BY DEF TimerFires, DiscWork, DiscReport, DiscClear, EvtWork, EvtScanComplete, EvtScanDone,
         EvtConnect, EvtDisconnect, EvtClear, Cfg80211Event, FwScanned, FwConnects, FwDisconnects
<1>2. RocType' /\ MutexType' /\ Cookies'
  BY <1>1, MutexKept, CookiesKept DEF RocType, rocVars
<1>3. ScanType'
  <2>1. CASE EvtScanDone
    <3>1. PICK r \in {evt.id, scan_request} : Answer(r)
      BY <2>1 DEF EvtScanDone
    <3>2. r \in {NULL} \cup 1..MaxScans
      BY <3>1 DEF FwType, ScanType
    <3>3. excused' \subseteq {NULL} \cup 1..MaxScans
      BY <2>1, ExcuseType DEF EvtScanDone
    <3>4. scan_request' = NULL
      BY <2>1 DEF EvtScanDone, ClearRequest
    <3>5. QED
      BY <3>1, <3>2, <3>3, <3>4, AnswerType DEF ScanType
  <2>2. CASE ~EvtScanDone
    BY <2>2
    DEF ScanType, scanVars, PermitScan, TimerFires, DiscWork, DiscReport, DiscClear, EvtWork,
        EvtScanComplete, EvtConnect, EvtDisconnect, EvtClear, Cfg80211Event,
        FwScanned, FwConnects, FwDisconnects
  <2>3. QED
    BY <2>1, <2>2
<1>4. ConnType'
  <2>1. CASE DiscReport \/ EvtDisconnect
    BY <1>1, <2>1 DEF DiscReport, EvtDisconnect, Report, ConnType
  <2>2. CASE Cfg80211Event
    BY <1>1, <2>2 DEF Cfg80211Event, ConnType
  <2>3. CASE EvtConnect
    <3>1. notes' = notes \/ notes' = Append(notes, "ok")
      BY <2>3 DEF EvtConnect
    <3>2. notes' \in Seq({"ok", "failed", "disconnected"})
      BY <3>1 DEF ConnType
    <3>3. UNCHANGED <<sme, discw>>
      BY <2>3 DEF EvtConnect
    <3>4. QED
      BY <3>2, <3>3 DEF ConnType
  <2>4. CASE ~(DiscReport \/ EvtDisconnect \/ Cfg80211Event \/ EvtConnect)
    BY <1>1, <2>4
    DEF ConnType, connVars, TimerFires, DiscWork, DiscClear, EvtWork,
        EvtScanComplete, EvtScanDone, EvtClear, FwScanned, FwConnects, FwDisconnects
  <2>5. QED
    BY <2>1, <2>2, <2>3, <2>4
<1>5. FwType'
  <2>1. CASE EvtScanComplete \/ EvtConnect \/ EvtDisconnect
    <3>1. evq # <<>> /\ evq' = Tail(evq) /\ UNCHANGED fwconn
      BY <2>1 DEF EvtScanComplete, EvtConnect, EvtDisconnect
    <3>2. evt' \in {evt, EvtIdle, [EvtIdle EXCEPT !.at = "clear"]}
                  \cup [at : {"scan_done"}, id : {scan_request}]
      BY <2>1 DEF EvtScanComplete, EvtConnect, EvtDisconnect
    <3>3. QED
      BY <3>1, <3>2 DEF EvtIdle, FwType, ScanType
  <2>2. CASE EvtScanDone \/ EvtClear
    BY <2>2 DEF EvtScanDone, EvtClear, EvtIdle, FwType
  <2>3. CASE FwScanned \/ FwConnects \/ FwDisconnects
    BY <2>3 DEF FwScanned, FwConnects, FwDisconnects, Emit, FwType
  <2>4. CASE TimerFires \/ DiscWork \/ Cfg80211Event
    BY <2>4
    DEF TimerFires, DiscWork, DiscReport, DiscClear, Cfg80211Event, FwType, fwVars
  <2>5. QED
    BY <2>1, <2>2, <2>3, <2>4 DEF EvtWork
<1>6. QED
  BY <1>2, <1>3, <1>4, <1>5

LEMMA InvStep == IInv /\ [Next]_vars => IInv'
<1> SUFFICES ASSUME IInv, [Next]_vars PROVE IInv'
  OBVIOUS
<1>1. CASE UNCHANGED vars
  BY <1>1
  DEF IInv, TypeParts, vars, scanVars, permVars, rocVars, connVars, fwVars, UserType, Cookies,
      CountType, BoolType, ScanType, RocType, ConnType, FwType, MutexType
<1>2. QED
  <2>1. Next => BoolType' /\ UserType' /\ CountType'
    BY BoolStep, UserTypeStep, CountStep DEF IInv, TypeParts
  <2>2. QED
    BY <1>1, <2>1, ScanInv, RocInv, WorkInv, ConnInv, IfInv, OtherInv
    DEF Next, UserAsks, UserStep

\* The types, cookies and the mutex are what they are said to be in every state.
THEOREM Inductive == Spec => []IInv
<1>1. QED
  BY InitInv, InvStep, PTL DEF Spec

\* For any number of requests: the types, and that wil->mutex is held exactly between
\* mutex_lock and mutex_unlock (main.c:480, 507; offchannel.c:11, 97).
THEOREM TypeCorrect == Spec => []TypeOK
<1>1. IInv => TypeOK
  BY DEF IInv, TypeParts, TypeOK, BoolType, ScanType, RocType, ConnType, FwType, MutexType
<1>2. QED
  BY <1>1, Inductive, PTL

\* Whatever fails, and whoever cancels what: cfg80211 hears of each cookie that it is
\* ready and then that it expired (offchannel.c:132, 17).
THEOREM ToldInOrder == Spec => ReadyThenExpired
<1>1. IInv /\ [Next]_vars =>
        [\A c \in 1..MaxRocs : told'[c] # told[c] =>
           <<told[c], told'[c]>> \in {<<"none", "ready">>, <<"ready", "expired">>}]_vars
  <2> SUFFICES ASSUME IInv, Next, NEW c \in 1..MaxRocs, told'[c] # told[c]
               PROVE  <<told[c], told'[c]>> \in {<<"none", "ready">>, <<"ready", "expired">>}
    OBVIOUS
  <2>1. RocEnd \/ WorkExpire
    BY DEF Next, UserAsks, UserStep, ScanBegin, ScanStep, ScanSend, P2pCfg, P2pSet, P2pStop, P2pDone,
           RocBegin, RocStep, RocCfg, RocListen, RocStop, CancelBegin, CancelEnd,
           RocDue, RocWork, WorkBegin, WorkStop,
           ConnectBegin, ConnStep, ConnectMark, ConnectSend, ConnectArm, Disconnect,
           DownBegin, UpBegin, IfStep, DownScan, DownScanDone, UserReport, DownEnd, UpFlush, UpEnd,
           TimerFires, DiscWork, DiscReport, DiscClear, EvtWork, EvtScanComplete, EvtScanDone,
           EvtConnect, EvtDisconnect, EvtClear, Cfg80211Event, FwScanned, FwConnects, FwDisconnects,
           rocVars
  <2>2. c = cookie /\ told \in [1..MaxRocs -> {"none", "ready", "expired"}]
    BY <2>1 DEF RocEnd, WorkExpire, Tell, IInv, TypeParts, RocType
  <2>3. CASE RocEnd
    BY <2>2, <2>3 DEF RocEnd, Tell, At, IInv, Cookies, Roc
  <2>4. CASE WorkExpire
    <3>1. user.at \notin Roc
      BY <2>4, NullAssumption DEF WorkExpire, IInv, TypeParts, MutexType, Locked, Roc
    <3>2. ~mgmt /\ told' = [told EXCEPT ![cookie] = "expired"]
      BY <2>4 DEF WorkExpire, Tell
    <3>3. told[cookie] = "ready"
      BY <2>2, <3>1, <3>2 DEF IInv, Cookies
    <3>4. QED
      BY <2>2, <3>2, <3>3
  <2>5. QED
    BY <2>1, <2>3, <2>4
<1>2. QED
  BY <1>1, Inductive, PTL DEF Spec, ReadyThenExpired
-----------------------------------------------------------------------------
(* Every scan is answered once. *)

LEMMA AskedKept ==
  ASSUME Asked, UNCHANGED scanVars,
         user'.at \in P2p \cup {"down_done"} => user' = user,
         evt'.at = "scan_done" => evt' = evt
  PROVE  Asked'
BY DEF Asked, scanVars

\* The event worker, or __wil_down, answers the request it has seen before, or the one
\* that is there now.
LEMMA AskedAnswer ==
  ASSUME ScanType, Asked, NEW seen, NEW r \in {seen, scan_request}, Answer(r), ExcuseBoth,
         seen # NULL, seen = scan_request \/ {seen, NULL} \subseteq excused
  PROVE  /\ stray' \subseteq excused' /\ excused \subseteq excused'
         /\ \A x : asking = x \/ x \in excused =>
              asking' = x \/ x \in excused' \/ (x = scan_request /\ x # NULL)
<1>1. excused \subseteq excused'
  BY DEF ExcuseBoth
<1>2. r \in excused \/ (r # NULL /\ r = asking)
  BY DEF Asked
<1>3. stray' \subseteq excused'
  BY <1>1, <1>2 DEF Answer, Asked
<1>4. ASSUME NEW x, asking = x \/ x \in excused
      PROVE  asking' = x \/ x \in excused' \/ (x = scan_request /\ x # NULL)
  <2>1. CASE x \in excused
    BY <1>1, <2>1
  <2>2. CASE asking = x /\ asking' = asking
    BY <2>2
  <2>3. CASE asking = x /\ asking' # asking
    <3>1. r = x /\ r # NULL
      BY <2>3 DEF Answer
    <3>2. CASE r = scan_request
      BY <3>1, <3>2
    <3>3. CASE r # scan_request
      BY <1>1, <3>1, <3>3
    <3>4. QED
      BY <3>2, <3>3
  <2>4. QED
    BY <1>4, <2>1, <2>2, <2>3
<1>5. QED
  BY <1>1, <1>3, <1>4

LEMMA AskedStep ==
  ASSUME IInv, IInv', Asked, Next
  PROVE  Asked'
<1> USE DEF IInv, TypeParts
<1>1. CASE ScanBegin
  <2>1. CASE UNCHANGED <<asking, scan_request, user>>
    BY <1>1, <2>1, AskedKept DEF ScanBegin, scanVars, fwVars
  <2>2. CASE ~UNCHANGED <<asking, scan_request, user>>
    <3>1. /\ scan_request = NULL /\ UNCHANGED <<stray, excused, evt>>
          /\ user'.id = asking'
          /\ \/ scan_request' = asking' /\ user'.at = "scan_send"
             \/ scan_request' = NULL /\ user'.at = "p2p_cfg"
      BY <1>1, <2>2 DEF ScanBegin, Idle, fwVars
    <3>2. evt'.at = "scan_done" => evt'.id # NULL /\ {evt'.id, NULL} \subseteq excused'
      BY <3>1 DEF Asked
    <3>3. user'.at # "down_done"
      BY <3>1
    <3>4. user'.at \in P2p => scan_request' = NULL /\ asking' = user'.id
      BY <3>1 DEF P2p
    <3>5. stray' \subseteq excused' /\ (scan_request' # NULL => asking' = scan_request')
      BY <3>1 DEF Asked
    <3>6. QED
      BY <3>2, <3>3, <3>4, <3>5 DEF Asked
  <2>3. QED
    BY <2>1, <2>2
<1>2. CASE ScanSend
  <2>1. UNCHANGED <<scan_request, evt>>
    BY <1>2 DEF ScanSend
  <2>2. user'.at = "idle"
    BY <1>2 DEF ScanSend, Return, Idle
  <2>3. CASE UNCHANGED <<asking, stray, excused>>
    BY <2>1, <2>2, <2>3, AskedKept DEF scanVars, P2p
  <2>4. CASE Answer(user.id) /\ excused' = excused \cup {user.id}
    <3>1. stray' \subseteq excused'
      BY <2>4 DEF Answer, Asked
    <3>2. scan_request # NULL => asking' = scan_request \/ scan_request \in excused'
      BY <2>4 DEF Answer, Asked
    <3>3. QED
      BY <2>1, <2>2, <2>4, <3>1, <3>2 DEF Asked, P2p
  <2>5. QED
    BY <1>2, <2>3, <2>4 DEF ScanSend
<1>3. CASE P2pCfg \/ P2pSet \/ P2pStop
  <2>1. UNCHANGED scanVars /\ evt' = evt
    BY <1>3 DEF P2pCfg, P2pSet, P2pStop, fwVars
  <2>2. user.at \in P2p
    BY <1>3 DEF P2pCfg, P2pSet, P2pStop, At, P2p
  <2>3. user'.id = user.id /\ user'.at # "down_done"
    BY <1>3 DEF P2pCfg, P2pSet, P2pStop, Go, UserType
  <2>4. QED
    BY <2>1, <2>2, <2>3 DEF Asked, scanVars
<1>4. CASE P2pDone
  <2>1. scan_request = NULL /\ (asking = user.id \/ user.id \in excused)
    BY <1>4 DEF P2pDone, At, Asked, P2p
  <2>2. stray' \subseteq excused' /\ excused \subseteq excused'
    BY <1>4, <2>1 DEF P2pDone, Asked
  <2>3. scan_request' = NULL /\ evt' = evt /\ user'.at = "idle"
    BY <1>4, <2>1 DEF P2pDone, Return, Idle, fwVars
  <2>4. QED
    BY <2>1, <2>2, <2>3 DEF Asked, P2p
<1>5. CASE DownScan
  <2>1. UNCHANGED <<scanVars, evt>>
    BY <1>5 DEF DownScan, fwVars
  <2>2. \/ user'.at = "down_report"
        \/ user'.at = "down_done" /\ user'.id = scan_request /\ scan_request # NULL
    BY <1>5 DEF DownScan, UserType
  <2>3. QED
    BY <2>1, <2>2 DEF Asked, scanVars, P2p
<1>6. CASE DownScanDone
  <2>1. PICK r \in {user.id, scan_request} : Answer(r)
    BY <1>6 DEF DownScanDone
  <2>2. user.at = "down_done" /\ ExcuseBoth
    BY <1>6 DEF DownScanDone, At
  <2>3. user.id # NULL /\ (user.id = scan_request \/ {user.id, NULL} \subseteq excused)
    BY <2>2 DEF Asked
  <2>4. stray' \subseteq excused'
    BY <2>1, <2>2, <2>3, AskedAnswer
  <2>5. scan_request' = NULL /\ evt' = evt /\ user'.at = "down_report"
    BY <1>6 DEF DownScanDone, Go, UserType, fwVars
  <2>6. evt.at = "scan_done" => {evt.id, NULL} \subseteq excused'
    BY <2>2 DEF ExcuseBoth, At
  <2>7. QED
    BY <2>4, <2>5, <2>6 DEF Asked, P2p
<1>7. CASE EvtScanComplete
  <2>1. UNCHANGED <<scanVars, user>>
    BY <1>7 DEF EvtScanComplete
  <2>2. evt'.at = "scan_done" => evt'.id = scan_request /\ scan_request # NULL
    BY <1>7 DEF EvtScanComplete, EvtIdle
  <2>3. QED
    BY <2>1, <2>2 DEF Asked, scanVars
<1>8. CASE EvtScanDone
  <2>1. PICK r \in {evt.id, scan_request} : Answer(r)
    BY <1>8 DEF EvtScanDone
  <2>2. evt.at = "scan_done" /\ ExcuseBoth
    BY <1>8 DEF EvtScanDone
  <2>3. evt.id # NULL /\ (evt.id = scan_request \/ {evt.id, NULL} \subseteq excused)
    BY <2>2 DEF Asked
  <2>4. stray' \subseteq excused' /\ excused \subseteq excused'
    BY <2>1, <2>2, <2>3, AskedAnswer
  <2>5. scan_request' = NULL /\ user' = user /\ evt'.at = "idle"
    BY <1>8 DEF EvtScanDone, ClearRequest, EvtIdle
  <2>6. user.at \in P2p => asking' = user.id \/ user.id \in excused'
    <3>1. SUFFICES ASSUME user.at \in P2p PROVE asking' = user.id \/ user.id \in excused'
      OBVIOUS
    <3>2. scan_request = NULL /\ (asking = user.id \/ user.id \in excused)
      BY <3>1 DEF Asked
    <3>3. QED
      BY <2>1, <2>2, <2>3, <3>2, AskedAnswer
  <2>7. user.at = "down_done" => {user.id, NULL} \subseteq excused'
    BY <2>2 DEF ExcuseBoth, At
  <2>8. QED
    BY <2>4, <2>5, <2>6, <2>7 DEF Asked
<1>9. CASE EvtConnect \/ EvtDisconnect \/ EvtClear
  BY <1>9, AskedKept DEF EvtConnect, EvtDisconnect, EvtClear, EvtIdle
<1>10. CASE RocBegin \/ RocStep \/ CancelBegin \/ ConnectBegin \/ ConnStep
            \/ Disconnect \/ DownBegin \/ UpBegin \/ (IfStep /\ ~DownScan /\ ~DownScanDone)
  <2>1. UNCHANGED scanVars /\ evt' = evt
    BY <1>10 DEF RocBegin, RocStep, RocCfg, RocListen, RocStop, RocEnd, CancelBegin, CancelEnd,
                ConnectBegin, ConnStep, ConnectMark, ConnectSend, ConnectArm, Disconnect,
                DownBegin, UpBegin, IfStep, UserReport, DownEnd, UpFlush, UpEnd, fwVars
  <2>2. user' = user \/ user'.at \notin P2p \cup {"down_done"}
    <3>1. CASE RocBegin \/ RocStep \/ CancelBegin
      <4>1. CASE RocBegin \/ CancelBegin \/ RocEnd \/ CancelEnd
        BY <4>1 DEF RocBegin, RocEnd, CancelBegin, CancelEnd, Return, Idle, P2p
      <4>2. CASE RocCfg \/ RocListen \/ RocStop
        <5>1. user'.at \in {"roc_end", "roc_listen", "roc_stop"}
          BY <4>2 DEF RocCfg, RocListen, RocStop, Go, UserType
        <5>2. QED
          BY <5>1 DEF P2p
      <4>3. QED
        BY <3>1, <4>1, <4>2 DEF RocStep
    <3>2. CASE ConnectBegin \/ ConnStep \/ Disconnect
      BY <3>2 DEF ConnectBegin, ConnStep, ConnectMark, ConnectSend, ConnectArm, Disconnect,
                  Return, Go, Idle, UserType, P2p
    <3>3. CASE DownBegin \/ UpBegin \/ (IfStep /\ ~DownScan /\ ~DownScanDone)
      BY <3>3 DEF DownBegin, UpBegin, IfStep, UserReport, DownEnd, UpFlush, UpEnd,
                  Return, Go, Idle, UserType, P2p
    <3>4. QED
      BY <1>10, <3>1, <3>2, <3>3
  <2>3. QED
    BY <2>1, <2>2, AskedKept
<1>11. CASE RocDue \/ RocWork \/ TimerFires \/ DiscWork \/ Cfg80211Event
            \/ FwScanned \/ FwConnects \/ FwDisconnects
  <2>1. UNCHANGED <<scanVars, user, evt>>
    BY <1>11 DEF RocDue, RocWork, WorkBegin, WorkStop, WorkExpire, TimerFires, DiscWork,
                 DiscReport, DiscClear, Cfg80211Event, FwScanned, FwConnects, FwDisconnects, fwVars
  <2>2. QED
    BY <2>1, AskedKept
<1>12. QED
  BY <1>1, <1>2, <1>3, <1>4, <1>5, <1>6, <1>7, <1>8, <1>9, <1>10, <1>11
  DEF Next, UserAsks, UserStep, ScanStep, EvtWork

\* Whatever fails, and whenever the interface goes down: every scan is answered once, by
\* an error, SCAN_COMPLETE, wil_p2p_scan or __wil_down (wmi.c:386, cfg80211.c:335,
\* main.c:493), but for those that could not be started or that __wil_down answered
\* while the event worker did.
THEOREM AnsweredOnce == Spec => []OneAnswer
<1>1. Init => Asked
  BY DEF Init, Asked, Idle, P2p
<1>2. IInv /\ IInv' /\ Asked /\ [Next]_vars => Asked'
  <2>1. ASSUME Asked, UNCHANGED vars PROVE Asked'
    BY <2>1, AskedKept DEF vars, fwVars
  <2>2. QED
    BY <2>1, AskedStep
<1>3. Asked => OneAnswer
  BY DEF Asked, OneAnswer
<1>4. QED
  BY <1>1, <1>2, <1>3, Inductive, PTL DEF Spec
-----------------------------------------------------------------------------
(* Scans are permitted again. *)

\* What the firmware reports: nothing new, ...
LEMMA EventsKept ==
  ASSUME evq' = evq, EndComes
  PROVE  EndComes'
BY DEF EndComes

\* ... one more event, ...
LEMMA EventsGrow ==
  ASSUME FwType, NEW e, evq' = Append(evq, e), EndComes \/ e = "disconnect"
  PROVE  EndComes'
<1>1. /\ Len(evq) \in Nat /\ Len(evq') = Len(evq) + 1
      /\ evq'[Len(evq) + 1] = e
      /\ \A i \in 1..Len(evq) : evq'[i] = evq[i]
  BY DEF FwType
<1>2. QED
  BY <1>1 DEF EndComes

\* ... or one less.
LEMMA EventsShrink ==
  ASSUME FwType, evq # <<>>, evq' = Tail(evq), Head(evq) # "disconnect", EndComes
  PROVE  EndComes'
<1>1. /\ Len(evq) \in Nat \ {0} /\ Len(evq') = Len(evq) - 1
      /\ \A i \in 1..Len(evq') : evq'[i] = evq[i + 1]
      /\ Head(evq) = evq[1]
  BY DEF FwType
<1>2. PICK j \in 1..Len(evq) : evq[j] = "disconnect"
  BY DEF EndComes
<1>3. j \in 2..Len(evq)
  BY <1>1, <1>2
<1>4. j - 1 \in 1..Len(evq') /\ (j - 1) + 1 = j
  BY <1>1, <1>3
<1>5. evq'[j - 1] = "disconnect"
  BY <1>1, <1>2, <1>4
<1>6. QED
  BY <1>4, <1>5 DEF EndComes

LEMMA PermitsKept ==
  ASSUME Permits, Clearing => Clearing' \/ kept', kept => kept', dontscan' = dontscan,
         user'.at = "up_wait" => user.at = "up_wait"
  PROVE  Permits'
BY DEF Permits

\* Steps that clear "dontscan".
LEMMA PermitsCleared ==
  ASSUME P2pStop \/ RocStop \/ WorkStop \/ DiscClear \/ EvtClear \/ DownEnd \/ UpFlush
  PROVE  Permits'
<1>1. dontscan' = FALSE
  BY DEF P2pStop, RocStop, WorkStop, DiscClear, EvtClear, DownEnd, UpFlush,
         wmi_stop_discovery, PermitScan
<1>2. QED
  BY <1>1 DEF Permits

\* Steps of the user's thread that may set it, or rely on another to clear it.
LEMMA PermitsOwed ==
  ASSUME IInv, Permits,
         P2pCfg \/ P2pSet \/ RocCfg \/ RocListen \/ ConnectMark \/ ConnectSend \/ ConnectArm
                \/ UserReport \/ UpBegin
  PROVE  Permits'
<1> USE DEF IInv, TypeParts
<1>2. user'.at # "up_wait"
  <2>1. CASE P2pCfg \/ P2pSet
    BY <2>1 DEF P2pCfg, P2pSet, UserType
  <2>2. CASE RocCfg \/ RocListen
    BY <2>2 DEF RocCfg, RocListen, UserType
  <2>3. CASE ConnectMark \/ ConnectSend \/ ConnectArm
    BY <2>3 DEF ConnectMark, ConnectSend, ConnectArm, Go, Return, Idle, UserType
  <2>4. CASE UserReport \/ UpBegin
    BY <2>4 DEF UserReport, UpBegin, Go, Idle, UserType
  <2>5. QED
    BY <2>1, <2>2, <2>3, <2>4
<1>3. dontscan' => Clearing' \/ kept'
  <2>1. CASE (P2pCfg \/ RocCfg) /\ P2pCfgRefused
    <3>1. UNCHANGED <<permVars, work, timer, discq, discw, evt, evq, fwconn>>
      BY <2>1 DEF P2pCfg, RocCfg, rocVars, connVars, fwVars
    <3>2. user.at \in {"p2p_cfg", "roc_cfg"}
      BY <2>1 DEF P2pCfg, RocCfg, At
    <3>3. QED
      BY <3>1, <3>2 DEF Permits, Clearing, EndComes, permVars
  <2>2. CASE (P2pCfg \/ RocCfg) /\ ~P2pCfgRefused
    <3>1. user'.at \in {"p2p_set", "roc_listen"} \/ kept'
      BY <2>2 DEF P2pCfg, RocCfg, UserType
    <3>2. QED
      BY <3>1 DEF Clearing
  <2>3. CASE P2pSet
    <3>1. user'.at = "p2p_stop"
      BY <2>3 DEF P2pSet, UserType
    <3>2. QED
      BY <3>1 DEF Clearing
  <2>4. CASE RocListen
    <3>1. work' = "delayed" \/ user'.at = "roc_stop"
      BY <2>4 DEF RocListen, UserType
    <3>2. QED
      BY <3>1 DEF Clearing
  <2>5. CASE ConnectMark
    <3>1. user'.at = "conn_send"
      BY <2>5 DEF ConnectMark, Go, UserType
    <3>2. QED
      BY <3>1 DEF Clearing
  <2>6. CASE ConnectSend
    <3>1. kept' \/ Go("conn_arm")
      BY <2>6, Zenon DEF ConnectSend
    <3>2. kept' \/ user'.at = "conn_arm"
      BY <3>1 DEF Go, UserType
    <3>3. QED
      BY <3>2 DEF Clearing
  <2>7. CASE ConnectArm
    <3>1. timer'
      BY <2>7 DEF ConnectArm
    <3>2. QED
      BY <3>1 DEF Clearing
  <2>8. CASE UserReport \/ UpBegin
    <3>1. user'.at \in {"down_clear", "up_clear", "up_report"}
      BY <2>8 DEF UserReport, UpBegin, Go, Idle, UserType
    <3>2. QED
      BY <3>1 DEF Clearing
  <2>9. QED
    BY <2>1, <2>2, <2>3, <2>4, <2>5, <2>6, <2>7, <2>8
<1>4. QED
  BY <1>2, <1>3 DEF Permits

\* Steps of the user's thread that have nothing to do with it.
LEMMA PermitsUser ==
  ASSUME IInv, Permits,
         ScanBegin \/ ScanSend \/ P2pDone \/ RocBegin \/ RocEnd \/ CancelBegin \/ CancelEnd
           \/ ConnectBegin \/ DownBegin \/ DownScan \/ DownScanDone \/ UpEnd
  PROVE  Permits'
<1> USE DEF IInv, TypeParts
<1>1. CASE UpEnd
  <2>1. ~dontscan /\ dontscan' = dontscan
    BY <1>1 DEF UpEnd, At, Permits, permVars
  <2>2. QED
    BY <2>1 DEF Permits
<1>2. CASE CancelBegin
  <2>1. UNCHANGED <<permVars, timer, discq, discw, evt, evq, fwconn>> /\ user'.at = "cancel"
    BY <1>2 DEF CancelBegin, connVars, fwVars, Idle
  <2>2. user.at = "idle" /\ (work' = work \/ work' = "due")
    BY <1>2 DEF CancelBegin, At
  <2>3. EndComes => EndComes'
    BY <2>1, EventsKept
  <2>4. Clearing => Clearing'
    BY <2>1, <2>2, <2>3 DEF Clearing
  <2>5. QED
    BY <2>1, <2>4, PermitsKept DEF permVars
<1>3. CASE ~(UpEnd \/ CancelBegin)
  <2>1. UNCHANGED <<permVars, timer, discq, discw, evt, evq, fwconn, work>>
    BY <1>3 DEF ScanBegin, ScanSend, P2pDone, RocBegin, RocEnd, CancelEnd, ConnectBegin, DownBegin,
                DownScan, DownScanDone, rocVars, connVars, fwVars
  <2>2. user.at \in {"idle", "scan_send", "p2p_done", "roc_end", "cancel", "down_scan", "down_done"}
    BY <1>3 DEF ScanBegin, ScanSend, P2pDone, RocBegin, RocEnd, CancelEnd, ConnectBegin, DownBegin,
                DownScan, DownScanDone, At
  <2>3. user'.at # "up_wait"
    <3>1. CASE ScanBegin \/ RocBegin \/ ConnectBegin \/ DownBegin
      BY <2>2, <3>1 DEF ScanBegin, RocBegin, ConnectBegin, DownBegin, Idle
    <3>2. CASE ScanSend \/ P2pDone \/ RocEnd \/ CancelEnd
      BY <3>2 DEF ScanSend, P2pDone, RocEnd, CancelEnd, Return, Idle
    <3>3. CASE DownScan \/ DownScanDone
      BY <3>3 DEF DownScan, DownScanDone, Go, UserType
    <3>4. QED
      BY <1>3, <3>1, <3>2, <3>3
  <2>4. EndComes => EndComes'
    BY <2>1, EventsKept
  <2>5. Clearing => Clearing'
    BY <2>1, <2>2, <2>4 DEF Clearing
  <2>6. QED
    BY <2>1, <2>3, <2>5, PermitsKept DEF permVars
<1>4. QED
  BY <1>1, <1>2, <1>3

\* The workers, the timers and cfg80211.
LEMMA PermitsWork ==
  ASSUME IInv, Permits,
         RocDue \/ WorkBegin \/ WorkExpire \/ TimerFires \/ DiscReport \/ EvtScanDone \/ Cfg80211Event
  PROVE  Permits'
<1> USE DEF IInv, TypeParts
<1>1. UNCHANGED <<permVars, user, evq, fwconn>>
  BY DEF RocDue, WorkBegin, WorkExpire, TimerFires, DiscReport, EvtScanDone, Cfg80211Event, fwVars
<1>2. EndComes => EndComes'
  BY <1>1, EventsKept
<1>3. Clearing => Clearing'
  <2>1. CASE RocDue \/ WorkBegin \/ WorkExpire
    <3>1. UNCHANGED <<timer, discq, discw, evt>>
      BY <2>1 DEF RocDue, WorkBegin, WorkExpire, connVars, fwVars
    <3>2. work \in {"delayed", "due", "stop"} => work' \in {"delayed", "due", "stop"}
      BY <2>1 DEF RocDue, WorkBegin, WorkExpire
    <3>3. QED
      BY <1>1, <1>2, <3>1, <3>2 DEF Clearing
  <2>2. CASE TimerFires
    BY <2>2 DEF TimerFires, Clearing
  <2>3. CASE DiscReport
    BY <2>3 DEF DiscReport, Clearing
  <2>4. CASE EvtScanDone \/ Cfg80211Event
    <3>1. UNCHANGED <<timer, discq, discw, work>>
      BY <2>4 DEF EvtScanDone, Cfg80211Event, connVars, rocVars
    <3>2. evt.at = "clear" => evt' = evt
      BY <2>4 DEF EvtScanDone, Cfg80211Event, fwVars
    <3>3. QED
      BY <1>1, <1>2, <3>1, <3>2 DEF Clearing
  <2>5. QED
    BY <2>1, <2>2, <2>3, <2>4
<1>4. QED
  BY <1>1, <1>3, PermitsKept DEF permVars

\* The events of the firmware, and what makes it report them.
LEMMA PermitsEvents ==
  ASSUME IInv, Permits,
         EvtScanComplete \/ EvtConnect \/ EvtDisconnect
           \/ Disconnect \/ FwScanned \/ FwConnects \/ FwDisconnects
  PROVE  Permits'
<1> USE DEF IInv, TypeParts
<1>1. UNCHANGED <<dontscan, user, work, discq, discw>> /\ (kept => kept')
  <2>1. CASE EvtConnect
    <3>1. UNCHANGED <<dontscan, user, work, discq, discw>>
      BY <2>1 DEF EvtConnect, rocVars
    <3>2. kept => kept'
      BY <2>1 DEF EvtConnect
    <3>3. QED
      BY <3>1, <3>2
  <2>2. CASE Disconnect
    BY <2>2, Zenon DEF Disconnect, permVars, rocVars
  <2>3. CASE ~(EvtConnect \/ Disconnect)
    BY <2>3 DEF EvtScanComplete, EvtDisconnect, FwScanned, FwConnects, FwDisconnects,
                permVars, rocVars, connVars
  <2>4. QED
    BY <2>1, <2>2, <2>3
<1>2. CASE EvtScanComplete \/ EvtConnect
  <2>1. evq # <<>> /\ evq' = Tail(evq) /\ fwconn' = fwconn /\ Head(evq) # "disconnect" /\ evt.at = "idle"
    BY <1>2 DEF EvtScanComplete, EvtConnect
  <2>2. EndComes => EndComes'
    BY <2>1, EventsShrink
  <2>3. timer => timer' \/ kept' \/ fwconn' = "up"
    <3>1. CASE EvtScanComplete
      BY <3>1 DEF EvtScanComplete, connVars
    <3>2. CASE EvtConnect
      BY <3>2 DEF EvtConnect
    <3>3. QED
      BY <1>2, <3>1, <3>2
  <2>4. Clearing => Clearing' \/ kept'
    BY <1>1, <2>1, <2>2, <2>3 DEF Clearing
  <2>5. QED
    BY <1>1, <2>4, PermitsKept
<1>3. CASE EvtDisconnect
  <2>1. evt'.at = "clear"
    BY <1>3 DEF EvtDisconnect, EvtIdle
  <2>2. Clearing'
    BY <2>1 DEF Clearing
  <2>3. QED
    BY <1>1, <2>2, PermitsKept
<1>4. CASE UNCHANGED evq /\ Disconnect
  <2>1. UNCHANGED <<timer, evt>> /\ (fwconn = "up" => fwconn' = "up")
    <3>1. UNCHANGED <<timer, evt>>
      BY <1>4 DEF Disconnect
    <3>2. Append(evq, "disconnect") # evq
      BY DEF FwType
    <3>3. fwconn = "up" => fwconn' = "up"
      BY <1>4, <3>2 DEF Disconnect
    <3>4. QED
      BY <3>1, <3>3
  <2>2. EndComes => EndComes'
    BY <1>4, EventsKept
  <2>3. Clearing => Clearing'
    BY <1>1, <2>1, <2>2 DEF Clearing
  <2>4. QED
    BY <1>1, <2>3, PermitsKept
<1>5. CASE \/ FwScanned \/ FwConnects \/ FwDisconnects
           \/ Disconnect /\ ~UNCHANGED evq
  <2>1. UNCHANGED <<timer, evt>>
    BY <1>5 DEF Disconnect, FwScanned, FwConnects, FwDisconnects, connVars
  <2>2. PICK e : evq' = Append(evq, e) /\ (e = "disconnect" \/ fwconn' = fwconn \/ fwconn' = "up")
    <3>1. CASE FwScanned
      BY <3>1 DEF FwScanned, Emit
    <3>2. CASE FwConnects
      BY <3>2 DEF FwConnects, Emit
    <3>3. CASE FwDisconnects
      BY <3>3 DEF FwDisconnects, Emit
    <3>4. CASE Disconnect /\ ~UNCHANGED evq
      BY <3>4 DEF Disconnect
    <3>5. QED
      BY <1>5, <3>1, <3>2, <3>3, <3>4
  <2>3. EndComes \/ e = "disconnect" => EndComes'
    BY <2>2, EventsGrow
  <2>4. fwconn = "up" => fwconn' = "up" \/ EndComes'
    BY <2>2, <2>3
  <2>5. Clearing => Clearing'
    BY <1>1, <2>1, <2>3, <2>4 DEF Clearing
  <2>6. QED
    BY <1>1, <2>5, PermitsKept
<1>6. QED
  BY <1>2, <1>3, <1>4, <1>5

\* Whatever sets "dontscan" is followed by what clears it (cfg80211.c:504, wmi.c:972,
\* 1019, main.c:132), whatever the firmware reports; if it stays set at rest, a command
\* failed after it was set, or the event of a connection that was over stopped the timer.
THEOREM ScansPermitted == Spec => []ScanPossibleAgain
<1>1. Init => Permits
  BY DEF Init, Permits, Idle
<1>2. IInv /\ Permits /\ [Next]_vars => Permits'
  <2>1. ASSUME Permits, UNCHANGED vars PROVE Permits'
    <3>1. UNCHANGED <<permVars, user, work, timer, discq, discw, evt, evq, fwconn>>
      BY <2>1 DEF vars, rocVars, connVars, fwVars
    <3>2. QED
      BY <2>1, <3>1 DEF Permits, Clearing, EndComes, permVars
  <2>2. QED
    BY <2>1, PermitsCleared, PermitsOwed, PermitsUser, PermitsWork, PermitsEvents
    DEF Next, UserAsks, UserStep, ScanStep, RocStep, ConnStep, IfStep, RocWork, DiscWork, EvtWork
<1>3. Permits => ScanPossibleAgain
  BY DEF Permits, Clearing, EndComes, ScanPossibleAgain, Quiet, Idle, EvtIdle
<1>4. QED
  BY <1>1, <1>2, <1>3, Inductive, PTL DEF Spec
=============================================================================
