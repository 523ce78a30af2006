-------------------------- MODULE StaRings_proofs --------------------------
(***************************************************************************)
(* Proofs about StaRings, for any number of stations and rings.            *)
(*                                                                         *)
(* LookupFindsRing is not inductive: the step that makes a station         *)
(* connected is taken by the connect worker, long after it took the ring,  *)
(* and says nothing of rings.  IInv carries the fact through the worker's  *)
(* sleep, and states it without the choice of a first ring.                *)
(*                                                                         *)
(* PendingAwaited needs one fact more, WorkerMixed: a station that was     *)
(* announced while the worker configures another is in mixed.              *)
(***************************************************************************)
EXTENDS StaRings, TLAPS, FiniteSetTheorems

\* The first ring of station c is allocated if any ring of c is.
Served(c) ==
  (\E i \in Ring : va[i] /\ vring2cid[i] = c) =>
    \E i \in Ring : /\ va[i] /\ vring2cid[i] = c
                  /\ \A j \in Ring : vring2cid[j] = c => i <= j

ConnectedServed == \A c \in Cid : status[c] = "connected" => Served(c)

\* While the connect worker sleeps, its ring is marked with its station, and
\* that station is served whatever its status.
WorkerServed ==
  worker # NULL => vring2cid[worker.ring] = worker.cid /\ Served(worker.cid)

IInv == TypeOK /\ ConnectedServed /\ WorkerServed

-----------------------------------------------------------------------------
\* A set of natural numbers that is not empty has a first element, so that
\* First names it: of the intervals 0..x for x in S one is minimal.
LEMMA FirstIsLeast ==
  ASSUME NEW S \in SUBSET Nat, S # {}
  PROVE  First(S) \in S /\ \A y \in S : First(S) <= y
<1> DEFINE T == {0..x : x \in S}
<1>1. T \subseteq FiniteSubsetsOf(Nat) /\ T # {}
  <2>1. ASSUME NEW x \in S PROVE 0..x \in FiniteSubsetsOf(Nat)
    <3>1. IsFiniteSet(0..x)
      BY FS_Interval
    <3>2. 0..x \in SUBSET Nat
      OBVIOUS
    <3>3. QED
      BY <3>1, <3>2 DEF FiniteSubsetsOf
  <2>2. T # {}
    OBVIOUS
  <2>3. QED
    BY <2>1, <2>2
<1>2. PICK m \in T : \A k \in T : <<k, m>> \notin StrictSubsetOrdering(Nat)
  <2> HIDE DEF T
  <2>1. QED
    BY <1>1, FS_StrictSubsetOrderingWellFounded, WFMin
<1>3. PICK x \in S : m = 0..x
  OBVIOUS
<1>4. \A y \in S : x <= y
  <2>1. SUFFICES ASSUME NEW y \in S, y < x PROVE FALSE
    OBVIOUS
  <2>2. 0..y \subseteq 0..x /\ 0..y # 0..x
    BY <2>1
  <2>3. <<0..y, 0..x>> \in StrictSubsetOrdering(Nat)
    BY <2>2 DEF StrictSubsetOrdering
  <2>4. QED
    BY <2>3, <1>2, <1>3
<1>5. QED
  BY <1>4 DEF First

-----------------------------------------------------------------------------
\* The first ring of a station that has any is one of its rings, and the
\* lookup succeeds exactly when that ring is allocated.
LEMMA FirstRing ==
  ASSUME TypeOK, NEW c \in Cid, RingsOf(c) # {}
  PROVE  /\ First(RingsOf(c)) \in Ring
         /\ vring2cid[First(RingsOf(c))] = c
         /\ \A i \in Ring : vring2cid[i] = c => First(RingsOf(c)) <= i
         /\ (wil_find_tx_vring(c) # NULL) <=> va[First(RingsOf(c))]
<1>1. RingsOf(c) \in SUBSET Nat /\ RingsOf(c) \subseteq Ring
  BY MaxRingsAssumption DEF RingsOf, Ring
<1>2. First(RingsOf(c)) \in RingsOf(c) /\ \A y \in RingsOf(c) : First(RingsOf(c)) <= y
  BY <1>1, FirstIsLeast
<1>3. /\ First(RingsOf(c)) \in Ring
      /\ vring2cid[First(RingsOf(c))] = c
      /\ \A i \in Ring : vring2cid[i] = c => First(RingsOf(c)) <= i
  BY <1>2 DEF RingsOf
<1>4. First(RingsOf(c)) # NULL
  BY <1>3, NullAssumption DEF Ring
<1>5. QED
  BY <1>3, <1>4 DEF wil_find_tx_vring

\* The invariant says what the lookup promises.
LEMMA ServedLookup == IInv => LookupFindsRing
<1> SUFFICES ASSUME IInv,
                    NEW c \in Cid, status[c] = "connected",
                    NEW i \in Ring, va[i], vring2cid[i] = c
             PROVE  wil_find_tx_vring(c) # NULL
  BY DEF LookupFindsRing
<1> DEFINE f == First(RingsOf(c))
<1>1. RingsOf(c) # {}
  BY DEF RingsOf
<1>2. /\ f \in Ring /\ vring2cid[f] = c
      /\ \A j \in Ring : vring2cid[j] = c => f <= j
      /\ (wil_find_tx_vring(c) # NULL) <=> va[f]
  BY <1>1, FirstRing DEF IInv
<1> HIDE DEF f
<1>3. PICK k \in Ring : /\ va[k] /\ vring2cid[k] = c
                       /\ \A j \in Ring : vring2cid[j] = c => k <= j
  BY DEF IInv, ConnectedServed, Served
<1>4. f <= k /\ k <= f
  BY <1>2, <1>3
<1>5. f = k
  BY <1>2, <1>3, <1>4, MaxRingsAssumption DEF Ring
<1>6. QED
  BY <1>2, <1>3, <1>5

-----------------------------------------------------------------------------
\* The stations a disconnect is about to go through are stations.
LEMMA DiscBeginType ==
  ASSUME TypeOK, NEW p \in Thread, NEW bssid, DiscBegin(p, bssid)
  PROVE  disc' \in [Thread -> [todo : SUBSET Cid, sent : BOOLEAN] \cup {NULL}]
<1>1. Matching(bssid) \in SUBSET Nat /\ Matching(bssid) \subseteq Cid
  BY MaxCidAssumption DEF Matching, Cid
<1>2. Matching(bssid) # {} => First(Matching(bssid)) \in Cid
  BY <1>1, FirstIsLeast
<1>3. QED
  BY <1>2 DEF DiscBegin, TypeOK

\* The state keeps its type.
LEMMA TypeStep == TypeOK /\ [Next]_vars => TypeOK'
<1> SUFFICES ASSUME TypeOK, [Next]_vars PROVE TypeOK'
  OBVIOUS
<1> USE DEF TypeOK, staVars, ringVars, connVars
<1>1. ASSUME NEW c \in Cid, NEW a \in Addr, FwConnect(c, a) PROVE TypeOK'
  BY <1>1 DEF FwConnect, Event
<1>2. ASSUME NEW c \in Cid, FwDisconnect(c) PROVE TypeOK'
  BY <1>2, AddrAssumption DEF FwDisconnect, Event
<1>3. ASSUME NEW p \in Thread, DiscSend(p) PROVE TypeOK'
  <2> DEFINE a == addr[First(disc[p].todo)]
             linked == {c \in Cid : fw[c] # NULL /\ fw[c] = a}
             event == [ev |-> "disconnect", cid |-> First(linked), mac |-> a]
  <2>1. disc' \in [Thread -> [todo : SUBSET Cid, sent : BOOLEAN] \cup {NULL}]
    BY <1>3 DEF DiscSend
  <2>2. CASE FwObeys(a)
    <3>1. fw' \in [Cid -> Addr \cup {NULL}]
      BY <2>2 DEF FwObeys
    <3>2. linked \in SUBSET Nat /\ (linked # {} => a \in Addr)
      BY MaxCidAssumption DEF Cid
    <3>3. linked # {} => First(linked) \in Cid
      BY <3>2, FirstIsLeast
    <3>4. linked # {} => event \in Event
      BY <3>2, <3>3 DEF Event
    <3>5. evq' = IF linked = {} \/ resetting THEN evq ELSE Append(evq, event)
      BY <2>2 DEF FwObeys
    <3>6. evq' \in Seq(Event)
      <4> HIDE DEF linked, event
      <4>1. QED
        BY <3>4, <3>5
    <3>7. QED
      BY <1>3, <2>1, <3>1, <3>6 DEF DiscSend
  <2>3. CASE UNCHANGED <<fw, evq>>
    BY <1>3, <2>1, <2>3 DEF DiscSend
  <2>4. QED
    BY <1>3, <2>2, <2>3 DEF DiscSend
<1>4. ASSUME NEW p \in Thread, DiscFree(p) PROVE TypeOK'
  BY <1>4 DEF DiscFree
<1>5. ASSUME NEW p \in Thread, DiscEnd(p) PROVE TypeOK'
  BY <1>5 DEF DiscEnd
<1>6. CASE wmi_evt_connect
  <2>1. Head(evq) \in Event /\ Tail(evq) \in Seq(Event)
    BY <1>6 DEF wmi_evt_connect, NextEvent
  <2>2. Head(evq).cid \in Cid /\ Head(evq).mac \in Addr
    BY <2>1 DEF Event
  <2>3. mixed' \subseteq Cid
    <3>1. Unsettled \subseteq Cid
      BY DEF Unsettled
    <3>2. QED
      BY <1>6, <2>2, <3>1 DEF wmi_evt_connect
  <2>4. evq' \in Seq(Event)
    BY <1>6, <2>1 DEF wmi_evt_connect, NextEvent
  <2>5. QED
    BY <1>6, <2>2, <2>3, <2>4 DEF wmi_evt_connect
<1>7. CASE wmi_evt_disconnect
  <2>1. evq' \in Seq(Event)
    BY <1>7 DEF wmi_evt_disconnect, NextEvent
  <2>2. QED
    BY <1>7, <2>1, DiscBeginType DEF wmi_evt_disconnect, Thread
<1>8. CASE ConnectBegin
  <2>1. PICK i \in Ring :
          /\ va' = [va EXCEPT ![i] = TRUE]
          /\ vring2cid' = [vring2cid EXCEPT ![i] = pending]
          /\ hwtail' = [hwtail EXCEPT ![i] = FALSE]
          /\ worker' = [cid |-> pending, ring |-> i]
    BY <1>8 DEF ConnectBegin
  <2>2. pending \in Cid
    BY <1>8 DEF ConnectBegin
  <2>3. /\ va' \in [Ring -> BOOLEAN] /\ vring2cid' \in [Ring -> Cid]
        /\ hwtail' \in [Ring -> BOOLEAN] /\ worker' \in [cid : Cid, ring : Ring]
    BY <2>1, <2>2
  <2>4. QED
    BY <1>8, <2>3 DEF ConnectBegin
<1>9. CASE ConnectNoRing
  BY <1>9 DEF ConnectNoRing
<1>10. CASE ConnectNone
  BY <1>10 DEF ConnectNone
<1>11. CASE ConnectDone
  BY <1>11 DEF ConnectDone
<1>12. CASE ConnectFail
  BY <1>12 DEF ConnectFail
<1>13. ASSUME NEW a \in Addr \cup {OwnAddr, NULL}, wil_cfg80211_del_station(a)
       PROVE  TypeOK'
  BY <1>13, DiscBeginType DEF wil_cfg80211_del_station, Thread
<1>14. CASE ResetBegin
  BY <1>14 DEF ResetBegin
<1>15. CASE ResetEnd
  <2>1. fw' \in [Cid -> Addr \cup {NULL}] /\ evq' \in Seq(Event)
    BY <1>15 DEF ResetEnd
  <2>2. QED
    BY <1>15, <2>1 DEF ResetEnd
<1>16. CASE UNCHANGED vars
  BY <1>16 DEF vars
<1>17. QED
  BY <1>1, <1>2, <1>3, <1>4, <1>5, <1>6, <1>7, <1>8, <1>9, <1>10, <1>11, <1>12,
     <1>13, <1>14, <1>15, <1>16 DEF Next

-----------------------------------------------------------------------------
\* A new ring for station c is the first free one, so every ring before it is
\* allocated: c is served, and no other station loses an allocated ring.
LEMMA FirstFreeServes ==
  ASSUME TypeOK, NEW c \in Cid, NEW i \in Ring, IsFirstFree(i),
         va' = [va EXCEPT ![i] = TRUE],
         vring2cid' = [vring2cid EXCEPT ![i] = c]
  PROVE  /\ Served(c)'
         /\ \A d \in Cid : d # c /\ Served(d) => Served(d)'
<1> USE DEF TypeOK
<1>1. Ring \in SUBSET Int
  BY MaxRingsAssumption DEF Ring
<1>2. /\ va'[i] /\ vring2cid'[i] = c
      /\ \A j \in Ring : j # i => va'[j] = va[j] /\ vring2cid'[j] = vring2cid[j]
  OBVIOUS
<1>3. \A j \in Ring : j < i => va'[j]
  BY <1>1, <1>2 DEF IsFirstFree
<1>4. Served(c)'
  <2> DEFINE S == {j \in Ring : vring2cid'[j] = c /\ j <= i}
  <2>1. S \in SUBSET Nat /\ S # {}
    <3>1. i \in S
      BY <1>1, <1>2
    <3>2. Ring \in SUBSET Nat
      BY MaxRingsAssumption DEF Ring
    <3>3. QED
      BY <3>1, <3>2
  <2>2. First(S) \in S /\ \A y \in S : First(S) <= y
    BY <2>1, FirstIsLeast
  <2>3. PICK f \in S : \A y \in S : f <= y
    BY <2>2
  <2>4. va'[f]
    BY <1>1, <1>2, <1>3, <2>3
  <2>5. \A j \in Ring : vring2cid'[j] = c => f <= j
    BY <1>1, <2>3
  <2>6. QED
    BY <2>3, <2>4, <2>5 DEF Served
<1>5. ASSUME NEW d \in Cid, d # c, Served(d) PROVE Served(d)'
  <2>1. SUFFICES ASSUME NEW j \in Ring, va'[j], vring2cid'[j] = d
                 PROVE  \E k \in Ring : /\ va'[k] /\ vring2cid'[k] = d
                                       /\ \A m \in Ring : vring2cid'[m] = d => k <= m
    BY DEF Served
  <2>2. j # i /\ va[j] /\ vring2cid[j] = d
    BY <1>2, <1>5, <2>1
  <2>3. PICK k \in Ring : /\ va[k] /\ vring2cid[k] = d
                         /\ \A m \in Ring : vring2cid[m] = d => k <= m
    BY <1>5, <2>2 DEF Served
  <2>4. k # i
    BY <2>3 DEF IsFirstFree
  <2>5. \A m \in Ring : vring2cid'[m] = d => k <= m
    BY <1>2, <1>5, <2>3
  <2>6. QED
    BY <1>2, <2>3, <2>4, <2>5
<1>6. QED
  BY <1>4, <1>5

\* Freeing every ring of station c leaves c nothing to look up and every other
\* station what it had.
LEMMA FreeAllServes ==
  ASSUME TypeOK, NEW c, NEW d \in Cid, Served(d),
         va' = [i \in Ring |-> va[i] /\ vring2cid[i] # c], vring2cid' = vring2cid
  PROVE  Served(d)'
<1>1. CASE d = c
  BY <1>1 DEF Served
<1>2. CASE d # c
  BY <1>2 DEF Served
<1>3. QED
  BY <1>1, <1>2

\* Freeing one ring of station c leaves every other station what it had.
LEMMA FreeOneServes ==
  ASSUME TypeOK, NEW i \in Ring, NEW d \in Cid, vring2cid[i] # d, Served(d),
         va' = [va EXCEPT ![i] = FALSE], vring2cid' = vring2cid
  PROVE  Served(d)'
BY DEF Served, TypeOK

\* The step of the two conjuncts of IInv that are not the type.
LEMMA ServedStep == IInv /\ [Next]_vars => (ConnectedServed /\ WorkerServed)'
<1> SUFFICES ASSUME IInv, [Next]_vars PROVE (ConnectedServed /\ WorkerServed)'
  OBVIOUS
<1> USE DEF IInv
<1>1. TypeOK'
  BY TypeStep
\* Steps that touch neither rings nor the worker, and connect no station.
<1>2. ASSUME UNCHANGED <<ringVars, worker>>,
             \A c \in Cid : status'[c] = "connected" => status[c] = "connected"
      PROVE  (ConnectedServed /\ WorkerServed)'
  BY <1>2 DEF ringVars, ConnectedServed, WorkerServed, Served
<1>3. ASSUME NEW p \in Thread, DiscFree(p) PROVE (ConnectedServed /\ WorkerServed)'
  <2>1. PICK c : /\ va' = [i \in Ring |-> va[i] /\ vring2cid[i] # c]
                 /\ status' = [status EXCEPT ![c] = "unused"]
                 /\ vring2cid' = vring2cid /\ worker' = worker
    BY <1>3 DEF DiscFree, connVars
  <2>2. \A d \in Cid : Served(d) => Served(d)'
    BY <2>1, FreeAllServes
  <2>3. \A d \in Cid : status'[d] = "connected" => status[d] = "connected"
    BY <2>1 DEF TypeOK
  <2>4. worker # NULL => worker.cid \in Cid /\ worker.ring \in Ring
    BY DEF TypeOK
  <2>5. QED
    BY <2>1, <2>2, <2>3, <2>4 DEF ConnectedServed, WorkerServed
<1>4. CASE ConnectBegin
  <2>1. PICK c \in Cid, i \in Ring :
          /\ IsFirstFree(i)
          /\ va' = [va EXCEPT ![i] = TRUE]
          /\ vring2cid' = [vring2cid EXCEPT ![i] = c]
          /\ worker' = [cid |-> c, ring |-> i]
    BY <1>4 DEF ConnectBegin
  <2>2. status' = status
    BY <1>4 DEF ConnectBegin, staVars
  <2>3. Served(c)' /\ \A d \in Cid : d # c /\ Served(d) => Served(d)'
    BY <2>1, FirstFreeServes
  <2>4. ConnectedServed'
    BY <2>2, <2>3 DEF ConnectedServed
  <2>5. vring2cid'[i] = c
    BY <2>1 DEF TypeOK
  <2>6. worker'.cid = c /\ worker'.ring = i
    BY <2>1
  <2>7. WorkerServed'
    BY <2>3, <2>5, <2>6 DEF WorkerServed, Served
  <2>8. QED
    BY <2>4, <2>7
<1>5. CASE ConnectDone
  <2>1. worker' = NULL /\ va' = va /\ vring2cid' = vring2cid
    BY <1>5 DEF ConnectDone
  <2>2. \A d \in Cid : Served(d) <=> Served(d)'
    BY <2>1 DEF Served
  <2>3. \A d \in Cid : status'[d] = "connected" => status[d] = "connected" \/ d = worker.cid
    BY <1>5 DEF ConnectDone, TypeOK
  <2>4. Served(worker.cid)
    BY <1>5 DEF ConnectDone, WorkerServed
  <2>5. ConnectedServed'
    BY <2>2, <2>3, <2>4 DEF ConnectedServed
  <2>6. QED
    BY <2>1, <2>5 DEF WorkerServed
<1>6. CASE ConnectFail
  <2>1. /\ worker # NULL /\ worker' = NULL
        /\ va' = [va EXCEPT ![worker.ring] = FALSE] /\ vring2cid' = vring2cid
        /\ status' = [status EXCEPT ![worker.cid] = "unused"]
    BY <1>6 DEF ConnectFail
  <2>2. worker.ring \in Ring /\ worker.cid \in Cid /\ vring2cid[worker.ring] = worker.cid
    BY <2>1 DEF WorkerServed, TypeOK
  <2>3. \A d \in Cid : d # worker.cid /\ Served(d) => Served(d)'
    BY <2>1, <2>2, FreeOneServes
  <2>4. \A d \in Cid : status'[d] = "connected" => status[d] = "connected" /\ d # worker.cid
    BY <2>1, <2>2 DEF TypeOK
  <2>5. QED
    BY <2>1, <2>3, <2>4 DEF ConnectedServed, WorkerServed
<1>7. CASE wmi_evt_connect
  <2>1. UNCHANGED <<ringVars, worker>>
    BY <1>7 DEF wmi_evt_connect
  <2>2. \A c \in Cid : status'[c] = "connected" => status[c] = "connected"
    BY <1>7 DEF wmi_evt_connect, TypeOK
  <2>3. QED
    BY <1>2, <2>1, <2>2
<1>8. CASE ConnectNoRing
  <2>1. UNCHANGED <<ringVars, worker>>
    BY <1>8 DEF ConnectNoRing
  <2>2. \A c \in Cid : status'[c] = "connected" => status[c] = "connected"
    BY <1>8 DEF ConnectNoRing, TypeOK
  <2>3. QED
    BY <1>2, <2>1, <2>2
<1>9. CASE UNCHANGED <<status, ringVars, worker>>
  BY <1>2, <1>9
<1>10. QED
  <2> USE DEF staVars, connVars
  <2>1. ASSUME NEW c \in Cid, NEW a \in Addr, FwConnect(c, a)
        PROVE  UNCHANGED <<status, ringVars, worker>>
    BY <2>1 DEF FwConnect
  <2>2. ASSUME NEW c \in Cid, FwDisconnect(c)
        PROVE  UNCHANGED <<status, ringVars, worker>>
    BY <2>2 DEF FwDisconnect
  <2>3. ASSUME NEW p \in Thread, DiscSend(p) \/ DiscEnd(p)
        PROVE  UNCHANGED <<status, ringVars, worker>>
    BY <2>3 DEF DiscSend, DiscEnd
  <2>4. CASE wmi_evt_disconnect
    BY <1>9, <2>4 DEF wmi_evt_disconnect
  <2>5. CASE ConnectNone
    BY <1>9, <2>5 DEF ConnectNone
  <2>6. ASSUME NEW a, wil_cfg80211_del_station(a)
        PROVE  UNCHANGED <<status, ringVars, worker>>
    BY <2>6 DEF wil_cfg80211_del_station
  <2>7. CASE ResetBegin \/ ResetEnd
    BY <1>9, <2>7 DEF ResetBegin, ResetEnd
  <2>8. CASE UNCHANGED vars
    BY <1>9, <2>8 DEF vars, ringVars
  <2>9. QED
    BY <1>3, <1>4, <1>5, <1>6, <1>7, <1>8, <1>9, <2>1, <2>2, <2>3, <2>4, <2>5,
       <2>6, <2>7, <2>8 DEF Next

-----------------------------------------------------------------------------
\* The zeroed structures satisfy the invariant.
LEMMA InitIInv == Init => IInv
<1> SUFFICES ASSUME Init PROVE IInv
  OBVIOUS
<1>1. TypeOK
  <2>1. evq \in Seq(Event) /\ mixed \subseteq Cid
    BY DEF Init
  <2>2. vring2cid \in [Ring -> Cid]
    BY MaxCidAssumption DEF Init, Cid
  <2>3. QED
    BY <2>1, <2>2 DEF Init, TypeOK
<1>2. ConnectedServed /\ WorkerServed
  BY DEF Init, ConnectedServed, WorkerServed
<1>3. QED
  BY <1>1, <1>2 DEF IInv

\* IInv holds in every reachable state.
THEOREM Inductive == Spec => []IInv
<1>1. Init => IInv
  BY InitIInv
<1>2. IInv /\ [Next]_vars => IInv'
  BY TypeStep, ServedStep DEF IInv
<1>3. QED
  BY <1>1, <1>2, PTL DEF Spec

\* The state has its type for any number of stations, rings and addresses: no
\* index that main.c and wmi.c compute falls outside sta[] and vring_tx[].
THEOREM TypeCorrect == Spec => []TypeOK
<1>1. IInv => TypeOK
  BY DEF IInv
<1>2. QED
  BY <1>1, Inductive, PTL

\* wil_find_tx_vring, which looks only at the first ring ever given to a
\* station, finds a ring whenever the connected station has one.
THEOREM LookupCorrect == Spec => []LookupFindsRing
BY ServedLookup, Inductive, PTL

-----------------------------------------------------------------------------
\* A station announced while the worker configures another is mixed up with it.
WorkerMixed ==
  worker # NULL /\ pending \in Cid /\ pending # worker.cid => pending \in mixed

\* Half connected stations are awaited: by one step.
LEMMA AwaitedStep ==
  TypeOK /\ PendingAwaited /\ WorkerMixed /\ [Next]_vars => (PendingAwaited /\ WorkerMixed)'
<1> SUFFICES ASSUME TypeOK, PendingAwaited, WorkerMixed, [Next]_vars
             PROVE  PendingAwaited' /\ WorkerMixed'
  OBVIOUS
<1> USE DEF TypeOK
<1>1. CASE UNCHANGED <<status, connVars>>
  BY <1>1 DEF connVars, PendingAwaited, WorkerMixed
<1>2. CASE \E p \in Thread : DiscFree(p)
  <2>1. PICK p \in Thread : DiscFree(p)
    BY <1>2
  <2>2. UNCHANGED connVars /\ \A d \in Cid : status'[d] = "conn_pending" => status[d] = "conn_pending"
    BY <2>1 DEF DiscFree
  <2>3. QED
    BY <2>2 DEF connVars, PendingAwaited, WorkerMixed
<1>3. CASE wmi_evt_connect
  <2>1. PICK c \in Cid :
          /\ pending' = c /\ queued' = TRUE /\ worker' = worker
          /\ status' = [status EXCEPT ![c] = "conn_pending"]
          /\ mixed' = IF Unsettled \subseteq {c} THEN mixed \ {c} ELSE mixed \cup Unsettled \cup {c}
    <3>1. Head(evq).cid \in Cid
      <4>1. evq \in Seq(Event) /\ evq # <<>>
        BY <1>3 DEF wmi_evt_connect, NextEvent
      <4>2. Head(evq) \in Event
        BY ONLY <4>1
      <4>3. QED
        BY ONLY <4>2 DEF Event
    <3>2. QED
      BY <1>3, <3>1 DEF wmi_evt_connect
  <2>2. ASSUME NEW d \in Cid, d # c, status'[d] = "conn_pending"
        PROVE  (worker' # NULL /\ worker'.cid = d) \/ d \in mixed'
    <3>1. status[d] = "conn_pending"
      BY <2>1, <2>2
    <3>2. CASE worker # NULL /\ worker.cid = d
      BY <2>1, <3>2
    <3>3. CASE pending = d
      BY <2>1, <2>2, <3>3 DEF Unsettled
    <3>4. CASE d \in mixed
      BY <2>1, <2>2, <3>4
    <3>5. QED
      BY <3>1, <3>2, <3>3, <3>4 DEF PendingAwaited
  <2>3. worker' # NULL /\ pending' # worker'.cid => pending' \in mixed'
    BY <2>1 DEF Unsettled
  <2>4. QED
    BY <2>1, <2>2, <2>3 DEF PendingAwaited, WorkerMixed
<1>4. CASE ConnectBegin
  <2>1. /\ pending \in Cid /\ pending' = pending /\ status' = status /\ mixed' = mixed
        /\ worker' # NULL /\ worker'.cid = pending /\ worker = NULL
    <3>1. pending \in Cid /\ pending' = pending /\ status' = status /\ mixed' = mixed /\ worker = NULL
      BY <1>4 DEF ConnectBegin, staVars
    <3>2. PICK i \in Ring : worker' = [cid |-> pending, ring |-> i]
      BY <1>4 DEF ConnectBegin
    <3>3. worker' \in [cid : Cid, ring : Ring]
      BY <3>1, <3>2
    <3>4. QED
      BY <3>1, <3>2, <3>3, NullWorker DEF Cid, Ring
  <2>2. QED
    BY <2>1 DEF PendingAwaited, WorkerMixed
<1>5. CASE ConnectNoRing
  <2>1. /\ worker = NULL /\ worker' = NULL /\ mixed' = mixed
        /\ \A d \in Cid : status'[d] = "conn_pending" => status[d] = "conn_pending" /\ d # pending
    BY <1>5 DEF ConnectNoRing
  <2>2. QED
    BY <2>1 DEF PendingAwaited, WorkerMixed
<1>6. CASE ConnectNone
  <2>1. worker = NULL /\ worker' = NULL /\ mixed' = mixed /\ status' = status /\ pending \notin Cid
    BY <1>6 DEF ConnectNone, staVars, Cid
  <2>2. QED
    BY <2>1 DEF PendingAwaited, WorkerMixed
<1>7. CASE ConnectDone \/ ConnectFail
  <2>1. /\ worker # NULL /\ worker' = NULL /\ mixed' = mixed
        /\ \A d \in Cid : status'[d] = "conn_pending" => status[d] = "conn_pending" /\ d # worker.cid
    BY <1>7 DEF ConnectDone, ConnectFail
  <2>2. QED
    BY <2>1 DEF PendingAwaited, WorkerMixed
<1>8. CASE ResetEnd
  <2>1. ~queued /\ worker = NULL /\ UNCHANGED <<status, worker, mixed>>
    BY <1>8 DEF ResetEnd, staVars
  <2>2. QED
    BY <2>1 DEF PendingAwaited, WorkerMixed
<1>9. QED
  <2> USE DEF staVars
  <2>1. ASSUME NEW c \in Cid, NEW a \in Addr, FwConnect(c, a) PROVE UNCHANGED <<status, connVars>>
    BY <2>1 DEF FwConnect
  <2>2. ASSUME NEW c \in Cid, FwDisconnect(c) PROVE UNCHANGED <<status, connVars>>
    BY <2>2 DEF FwDisconnect
  <2>3. ASSUME NEW p \in Thread, DiscSend(p) \/ DiscEnd(p) PROVE UNCHANGED <<status, connVars>>
    BY <2>3 DEF DiscSend, DiscEnd
  <2>4. wmi_evt_disconnect => UNCHANGED <<status, connVars>>
    BY DEF wmi_evt_disconnect
  <2>5. ASSUME NEW a, wil_cfg80211_del_station(a) PROVE UNCHANGED <<status, connVars>>
    BY <2>5 DEF wil_cfg80211_del_station
  <2>6. ResetBegin => UNCHANGED <<status, connVars>>
    BY DEF ResetBegin
  <2>7. UNCHANGED vars => UNCHANGED <<status, connVars>>
    BY DEF vars, connVars
  <2>8. QED
    BY <1>1, <1>2, <1>3, <1>4, <1>5, <1>6, <1>7, <1>8, <2>1, <2>2, <2>3, <2>4, <2>5, <2>6, <2>7
    DEF Next

\* For any number of stations: pending_connect_cid is lost to a station only if the
\* connections of two were under way at once (main.c:191, wmi.c:481).
THEOREM ConnectionAwaited == Spec => []PendingAwaited
<1>1. Init => PendingAwaited /\ WorkerMixed
  BY DEF Init, PendingAwaited, WorkerMixed
<1>2. IInv => TypeOK
  BY DEF IInv
<1>3. TypeOK /\ PendingAwaited /\ WorkerMixed /\ [Next]_vars => (PendingAwaited /\ WorkerMixed)'
  BY AwaitedStep
<1>4. QED
  BY <1>1, <1>2, <1>3, Inductive, PTL DEF Spec
=============================================================================
