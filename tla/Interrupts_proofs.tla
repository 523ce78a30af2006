-------------------------- MODULE Interrupts_proofs --------------------------
(***************************************************************************)
(* Proofs about Interrupts, for any budget, any bounds on the work and any *)
(* number of MSIs and of resets, whether NAPI is enabled during a reset or *)
(* not.  Then proofs about ProbeRemove, which requests the lines and gives *)
(* them back, for any number of MSIs and of events, whatever is refused.   *)
(***************************************************************************)
EXTENDS Interrupts, ProbeRemove, TLAPS

\* NAPI is disabled until __wil_up is through.
NapiOff ==
  stage \in {"down", "boot"} \/ (stage = "off" /\ ~live) =>
    \A v \in Napi : napi[v] = "disabled"

\* A handler is to wake the thread.
Waking == \E l \in Line : hard[l] # NULL /\ hard[l].wake

\* A handler runs on its own line.  What it has still to look at is not being
\* served, unless a reset has enabled interrupts under that service.
Serving ==
  \A l \in Line : hard[l] # NULL =>
    /\ LineUsed(l)
    /\ hard[l].at = "enter" => hard[l].todo = {} /\ ~hard[l].wake
    /\ \A v \in hard[l].todo : (n_msi = 3 => v = l) /\ (Served(v) => v \in caught)
    /\ hard[l].wake => l \in {"irq", "misc"}

\* There is one service of a vector at a time, with the same exception.
SoleService ==
  /\ \A v \in Napi :
       /\ napi[v] \in {"scheduled", "polled"} /\ ending[v] > 0 => v \in caught
       /\ ending[v] > 1 => v \in caught
  /\ runthread /\ thread = "served" => "misc" \in caught
  /\ Waking /\ (runthread \/ thread = "served") => "misc" \in caught

\* Who will unmask.  The misc vector is masked as long as wil->isr_misc holds
\* causes for the thread.
Owned ==
  /\ isr_misc # {} => ThreadUnderWay
  /\ stage # "off" =>
       /\ \A v \in Napi : masked[v] => PollUnderWay(v) \/ v \in stray
       /\ masked["misc"] => isr_misc # {}
       /\ pseudo => /\ n_msi # 3
                    /\ \/ thread # "idle" \/ runthread
                       \/ hard["irq"] # NULL /\ hard["irq"].at = "serve"

IInv == TypeOK /\ NapiOff /\ Serving /\ SoleService /\ MaskedWhileServed /\ Owned

-----------------------------------------------------------------------------
\* What a handler is like, by its line.
LEMMA HardType ==
  ASSUME TypeOK, NEW l \in Line, hard[l] # NULL
  PROVE  /\ hard[l] \in Progress /\ hard[l].at \in {"enter", "serve"}
         /\ hard[l].todo \subseteq Vector /\ hard[l].wake \in BOOLEAN
BY DEF TypeOK, Progress, Vector, Napi

\* What the thread owes, in one word.
LEMMA ThreadWord == ThreadUnderWay <=> runthread \/ thread = "served" \/ Waking
BY DEF ThreadUnderWay, Waking

\* The vectors.
LEMMA Vectors ==
  /\ Napi \subseteq Vector /\ Vector \subseteq Line /\ "misc" \in Vector /\ "misc" \notin Napi
  /\ "irq" \in Line /\ "irq" \notin Vector
  /\ \A v \in Vector : v \in Napi \/ v = "misc"
BY DEF Vector, Napi, Line

\* A handler that is to wake the thread is the only one.
LEMMA OneWaking ==
  ASSUME IInv, NEW k \in Line, NEW l \in Line, hard[k] # NULL, hard[l] # NULL,
         hard[k].wake, hard[l].wake
  PROVE  k = l
BY DEF IInv, Serving, LineUsed, Vector, Napi

\* A poll gets done what there is to do, or its budget.
LEMMA DoneBound == ASSUME TypeOK, NEW v \in Napi PROVE Done(v) \in 0..work[v]
<1>1. work[v] \in Nat /\ Budget \in Nat
  BY WorkAssumption DEF TypeOK, Vector
<1>2. Min({work[v], Budget}) \in {work[v], Budget} /\ Min({work[v], Budget}) <= work[v]
  <2>1. \E x \in {work[v], Budget} : \A y \in {work[v], Budget} : x <= y
    BY <1>1
  <2>2. QED
    BY <1>1, <2>1 DEF Min
<1>3. QED
  BY <1>1, <1>2 DEF Done

\* The device has been probed, or the interface is up, and nothing runs.
LEMMA InitInv == Init => IInv
<1> SUFFICES ASSUME Init PROVE IInv
  OBVIOUS
<1>1. load \in [Vector -> Nat] /\ \A l \in Line : hard[l] = NULL
  BY LoadAssumption DEF Init
<1>2. TypeOK
  <2>1. /\ hard \in [Line -> Progress \cup {NULL}] /\ work \in [Vector -> Nat]
        /\ \A v \in Vector : work[v] <= load[v]
        /\ resets \in 0..MaxResets /\ ending \in [Napi -> Nat]
    BY <1>1, WorkAssumption DEF Init
  <2>2. /\ icr \in [Vector -> SUBSET {"DONE", "DONE_N", "MBOX_EVT", "FW_READY"}]
        /\ masked \in [Vector -> BOOLEAN]
        /\ napi \in [Napi -> {"disabled", "idle", "scheduled", "polled"}]
    BY DEF Init
  <2>3. QED
    BY <2>1, <2>2 DEF Init, TypeOK
<1>3. ~Waking /\ ~ThreadUnderWay /\ \A v \in Napi : ~PollUnderWay(v)
  BY <1>1 DEF Init, Waking, ThreadUnderWay, PollUnderWay
<1>4. NapiOff /\ Serving
  BY <1>1 DEF Init, NapiOff, Serving
<1>5. SoleService
  BY <1>3 DEF Init, SoleService
<1>6. MaskedWhileServed
  BY <1>3, Vectors DEF MaskedWhileServed, Served
<1>7. Owned
  BY Vectors DEF Init, Owned
<1>8. QED
  BY <1>2, <1>4, <1>5, <1>6, <1>7 DEF IInv

\* A handler begins: the vectors it will look at are not masked, so that they are
\* not being served.
LEMMA HardBeginInv == ASSUME IInv, NEW l \in Line, HardBegin(l) PROVE IInv'
<1>1. /\ UNCHANGED <<n_msi, load, icr, masked, pseudo, irqen, isr_misc, runthread, thread, napi,
                     ending, work, stage, live, resets, caught, stray>>
      /\ LineUsed(l) /\ hard[l] = NULL /\ ~pseudo
  BY DEF HardBegin, irqVars, ifVars, miscVars, histVars, Asserted
<1> DEFINE h == IF n_msi = 3 THEN [at |-> "serve", todo |-> {l}, wake |-> FALSE]
                             ELSE [at |-> "enter", todo |-> {}, wake |-> FALSE]
<1>2. hard' = [hard EXCEPT ![l] = h]
  BY DEF HardBegin
<1>3. n_msi = 3 => l \in Vector /\ ~masked[l]
  BY DEF HardBegin, LineUsed, Asserted
<1>4. h \in Progress
  <2>1. n_msi = 3 => l \in {"rx", "tx", "misc"}
    BY <1>3 DEF Vector, Napi
  <2>2. CASE n_msi = 3
    <3>1. [at |-> "serve", todo |-> {l}, wake |-> FALSE] \in Progress
      BY <2>1, <2>2 DEF Progress
    <3>2. QED
      BY <2>2, <3>1
  <2>3. CASE n_msi # 3
    <3>1. [at |-> "enter", todo |-> {}, wake |-> FALSE] \in Progress
      BY DEF Progress
    <3>2. QED
      BY <2>3, <3>1
  <2>4. QED
    BY <2>2, <2>3
<1>5. /\ h.at = IF n_msi = 3 THEN "serve" ELSE "enter"
      /\ h.todo = IF n_msi = 3 THEN {l} ELSE {}
      /\ h.wake = FALSE
  OBVIOUS
<1> HIDE DEF h
<1>6. hard \in [Line -> Progress \cup {NULL}] /\ hard'[l] = h
      /\ \A k \in Line : k # l => hard'[k] = hard[k]
  BY <1>2 DEF IInv, TypeOK
<1>7. TypeOK'
  BY <1>1, <1>2, <1>4 DEF IInv, TypeOK
<1>8. Waking' <=> Waking
  BY <1>1, <1>5, <1>6 DEF Waking
<1>9. /\ ThreadUnderWay' <=> ThreadUnderWay
      /\ \A v \in Napi : PollUnderWay(v)' <=> PollUnderWay(v)
      /\ \A v \in Vector : Served(v)' <=> Served(v)
  <2>1. ThreadUnderWay' <=> runthread' \/ thread' = "served" \/ Waking'
    BY DEF ThreadUnderWay, Waking
  <2>2. QED
    BY <1>1, <1>8, <2>1, ThreadWord DEF PollUnderWay, Served
<1>10. NapiOff' /\ SoleService' /\ MaskedWhileServed'
  BY <1>1, <1>8, <1>9 DEF IInv, NapiOff, SoleService, MaskedWhileServed
<1>11. Serving'
  <2>1. n_msi = 3 => (Served(l) => l \in caught)
    BY <1>3 DEF IInv, MaskedWhileServed
  <2>2. \A k \in Line : hard[k] # NULL => hard[k].todo \subseteq Vector
    BY HardType DEF IInv
  <2>3. /\ LineUsed(l)' /\ (h.at = "enter" => h.todo = {} /\ ~h.wake) /\ ~h.wake
        /\ \A v \in h.todo : (n_msi = 3 => v = l) /\ (Served(v)' => v \in caught)
    BY <1>1, <1>3, <1>5, <1>9, <2>1 DEF LineUsed
  <2>4. ASSUME NEW k \in Line, k # l, hard[k] # NULL
        PROVE  /\ LineUsed(k)' /\ (hard[k].at = "enter" => hard[k].todo = {} /\ ~hard[k].wake)
               /\ hard[k].wake => k \in {"irq", "misc"}
               /\ \A v \in hard[k].todo : (n_msi = 3 => v = k) /\ (Served(v)' => v \in caught)
    BY <1>1, <1>9, <2>2, <2>4 DEF IInv, Serving, LineUsed
  <2>5. QED
    BY <1>1, <1>6, <2>3, <2>4 DEF Serving
<1>12. Owned'
  <2>1. \/ hard'["irq"] = hard["irq"]
        \/ hard["irq"] = NULL
    BY <1>1, <1>6, Vectors
  <2>2. QED
    BY <1>1, <1>9, <2>1, Vectors DEF IInv, Owned
<1>13. QED
  BY <1>7, <1>10, <1>11, <1>12 DEF IInv

\* wil6210_hardirq masks the pseudo cause register, or there is nothing for it.
LEMMA DiscoverInv == ASSUME IInv, HardDiscover PROVE IInv'
<1> DEFINE causes == {v \in Vector : icr[v] # {} /\ ~masked[v]}
<1>1. /\ UNCHANGED <<n_msi, load, masked, isr_misc, runthread, thread, napi, ending, work, stage,
                     live, resets, caught, stray>>
      /\ hard["irq"] # NULL /\ hard["irq"].at = "enter"
  BY DEF HardDiscover, ifVars, miscVars, histVars
<1>2. /\ "irq" \in Line /\ n_msi # 3 /\ hard["irq"] \in Progress /\ ~hard["irq"].wake
      /\ \A l \in Line : l # "irq" => hard[l] = NULL
  BY <1>1, Vectors, HardType DEF IInv, Serving, LineUsed
<1>3. causes \subseteq Vector
  OBVIOUS
<1>4. PICK h \in Progress \cup {NULL} :
        /\ hard' = [hard EXCEPT !["irq"] = h]
        /\ h # NULL => h.at = "serve" /\ h.todo = causes /\ h.wake = FALSE
        /\ pseudo' \in BOOLEAN /\ irqen' \in BOOLEAN
        /\ h = NULL => pseudo' = pseudo
        /\ icr' \in {icr, [v \in Vector |-> {}]}
  <2>1. CASE causes # {} /\ irqen
    <3> DEFINE h == [hard["irq"] EXCEPT !.at = "serve", !.todo = causes]
    <3>1. hard' = [hard EXCEPT !["irq"] = h] /\ pseudo' = TRUE /\ irqen' = FALSE /\ icr' = icr
      BY <2>1 DEF HardDiscover
    <3>2. causes \in SUBSET {"rx", "tx", "misc"}
      BY DEF Vector, Napi
    <3>3. h \in Progress /\ h.at = "serve" /\ h.todo = causes /\ ~h.wake
      <4> HIDE DEF causes
      <4>1. QED
        BY <1>2, <3>2 DEF Progress
    <3> HIDE DEF h
    <3>4. h.wake = FALSE
      BY <3>3 DEF Progress
    <3>5. h # NULL
      BY <3>3, NullAssumption
    <3> HIDE DEF causes
    <3>6. QED
      BY <3>1, <3>3, <3>4, <3>5
  <2>2. CASE ~ (causes # {} /\ irqen)
    BY <2>2 DEF HardDiscover, IInv, TypeOK
  <2>3. QED
    BY <2>1, <2>2
<1>5. /\ hard'["irq"] = h /\ hard' \in [Line -> Progress \cup {NULL}]
      /\ \A k \in Line : k # "irq" => hard'[k] = NULL
  BY <1>2, <1>4 DEF IInv, TypeOK
<1>6. TypeOK'
  BY <1>1, <1>4, <1>5 DEF IInv, TypeOK
<1>7. ~Waking /\ ~Waking'
  BY <1>2, <1>4, <1>5 DEF Waking
<1>8. /\ ThreadUnderWay' <=> ThreadUnderWay
      /\ \A v \in Napi : PollUnderWay(v)' <=> PollUnderWay(v)
      /\ \A v \in Vector : Served(v)' <=> Served(v)
  <2>1. ThreadUnderWay' <=> runthread' \/ thread' = "served" \/ Waking'
    BY DEF ThreadUnderWay, Waking
  <2>2. QED
    BY <1>1, <1>7, <2>1, ThreadWord DEF PollUnderWay, Served
<1>9. NapiOff' /\ SoleService' /\ MaskedWhileServed'
  BY <1>1, <1>7, <1>8 DEF IInv, NapiOff, SoleService, MaskedWhileServed
<1>10. Serving'
  <2>1. h # NULL =>
          /\ LineUsed("irq")' /\ h.at # "enter" /\ ~h.wake
          /\ \A v \in h.todo : n_msi # 3 /\ (Served(v)' => v \in caught)
    BY <1>1, <1>2, <1>4, <1>8 DEF IInv, MaskedWhileServed, LineUsed
  <2>2. QED
    BY <1>1, <1>5, <2>1 DEF Serving
<1>11. Owned'
  <2>1. pseudo' /\ stage # "off" => \/ thread # "idle" \/ runthread
                                    \/ hard'["irq"] # NULL /\ hard'["irq"].at = "serve"
    BY <1>1, <1>4, <1>5 DEF IInv, Owned
  <2>2. QED
    BY <1>1, <1>2, <1>8, <2>1 DEF IInv, Owned
<1>12. QED
  BY <1>6, <1>9, <1>10, <1>11 DEF IInv

\* A handler looks at the next vector: it takes the causes, masks the vector and
\* starts what serves it, unless it has been taken astray.
LEMMA HardServeInv == ASSUME IInv, NEW l \in Line, HardServe(l) PROVE IInv'
<1>1. /\ UNCHANGED <<n_msi, load, pseudo, irqen, runthread, thread, ending, work, stage, live,
                     resets, caught>>
      /\ hard[l] # NULL /\ hard[l].at = "serve"
  BY DEF HardServe, ifVars
<1>2. PICK v \in hard[l].todo :
        /\ icr' = [icr EXCEPT ![v] = {}]
        /\ IF icr[v] = {} THEN UNCHANGED <<masked, napi, isr_misc, stray>>
           ELSE /\ IF v = "misc" THEN ServeMisc ELSE ServeNapi(v)
                /\ stray' = IF Astray(v) THEN stray \cup {v}
                            ELSE stray \ {w \in {v} : icr[v] # {"FW_READY"}}
        /\ hard' = [hard EXCEPT ![l].todo = @ \ {v},
                                ![l].wake = @ \/ (v = "misc" /\ icr[v] \ {"FW_READY"} # {})]
  BY DEF HardServe
<1>3. /\ hard[l] \in Progress /\ hard[l].todo \subseteq Vector /\ hard[l].wake \in BOOLEAN
  BY <1>1, HardType DEF IInv
<1>4. /\ v \in Vector /\ (n_msi = 3 => v = l) /\ LineUsed(l)
      /\ Served(v) => v \in caught
  BY <1>1, <1>2, <1>3 DEF IInv, Serving
<1> DEFINE w == v = "misc" /\ icr[v] \ {"FW_READY"} # {}
           b == hard[l].wake \/ w
           h == [hard[l] EXCEPT !.todo = @ \ {v}, !.wake = b]
<1>5. hard' = [hard EXCEPT ![l] = h]
  BY <1>2, <1>3 DEF IInv, TypeOK, Progress
<1>6. /\ h \in Progress /\ h # NULL /\ h.at = "serve" /\ h.todo = hard[l].todo \ {v}
      /\ h.wake = b
  <2>1. b \in BOOLEAN
    BY <1>3
  <2> HIDE DEF b
  <2>2. h \in Progress
    BY <1>3, <2>1 DEF Progress
  <2>3. h.at = "serve" /\ h.todo = hard[l].todo \ {v} /\ h.wake = b
    BY <1>1, <1>3, <2>1 DEF Progress
  <2>4. QED
    BY <2>2, <2>3, NullAssumption
<1> HIDE DEF h
<1>7. /\ hard' \in [Line -> Progress \cup {NULL}] /\ hard'[l] = h
      /\ \A k \in Line : k # l => hard'[k] = hard[k]
  BY <1>5, <1>6 DEF IInv, TypeOK
\* What becomes of the masks, of NAPI and of wil->isr_misc.
<1>8. /\ masked' \in [Vector -> BOOLEAN] /\ napi' \in [Napi -> {"disabled", "idle", "scheduled", "polled"}]
      /\ isr_misc' \subseteq {"DONE", "DONE_N", "MBOX_EVT"}
      /\ icr' \in [Vector -> SUBSET {"DONE", "DONE_N", "MBOX_EVT", "FW_READY"}]
      /\ stray' \subseteq Vector
      /\ \A u \in Vector : u # v => masked'[u] = masked[u] /\ (u \in stray => u \in stray')
      /\ \A u \in Napi : u # v => napi'[u] = napi[u]
      /\ v \in Napi => isr_misc' = isr_misc /\ ~w
      /\ icr[v] = {} => UNCHANGED <<masked, napi, isr_misc, stray>> /\ ~w
      /\ icr[v] # {} /\ v = "misc" => /\ isr_misc' # {} <=> w
                                      /\ masked'[v] <=> w
                                      /\ napi' = napi
      /\ icr[v] # {} /\ v \in Napi => /\ masked'[v]
                                      /\ napi[v] = "disabled" => napi'[v] = "disabled"
                                      /\ napi[v] \in {"scheduled", "polled"} => napi'[v] = napi[v]
                                      /\ \/ v \in stray'
                                         \/ napi[v] = "idle" /\ napi'[v] = "scheduled"
                                         \/ napi[v] \in {"scheduled", "polled"} /\ napi'[v] = napi[v]
  <2>1. CASE icr[v] = {}
    <3>1. UNCHANGED <<masked, napi, isr_misc, stray>> /\ ~w
      BY <1>2, <2>1
    <3>2. QED
      BY <1>2, <1>4, <2>1, <3>1 DEF IInv, TypeOK, Napi
  <2>2. CASE icr[v] # {} /\ v = "misc"
    <3>1. isr_misc' = icr[v] \ {"FW_READY"} /\ UNCHANGED napi
      BY <1>2, <2>2 DEF ServeMisc
    <3>2. masked' = [masked EXCEPT ![v] = (isr_misc' # {})]
      BY <1>2, <2>2 DEF ServeMisc, MaskVector
    <3>3. isr_misc' \subseteq {"DONE", "DONE_N", "MBOX_EVT"}
      BY <2>2, <3>1, Vectors DEF IInv, TypeOK
    <3>4. stray' \subseteq Vector /\ \A u \in Vector : u # v /\ u \in stray => u \in stray'
      BY <1>2, <1>4, <2>2 DEF IInv, TypeOK
    <3>5. icr' \in [Vector -> SUBSET {"DONE", "DONE_N", "MBOX_EVT", "FW_READY"}]
      BY <1>2 DEF IInv, TypeOK
    <3>6. masked'[v] <=> w
      BY <1>4, <2>2, <3>1, <3>2 DEF IInv, TypeOK
    <3>7. masked' \in [Vector -> BOOLEAN] /\ \A u \in Vector : u # v => masked'[u] = masked[u]
      <4>1. (isr_misc' # {}) \in BOOLEAN
        OBVIOUS
      <4>2. QED
        BY <1>4, <3>2, <4>1 DEF IInv, TypeOK
    <3>8. isr_misc' # {} <=> w
      BY <2>2, <3>1
    <3>9. v \notin Napi
      BY <2>2, Vectors
    <3>10. napi' \in [Napi -> {"disabled", "idle", "scheduled", "polled"}]
      BY <3>1 DEF IInv, TypeOK
    <3>11. QED
      BY ONLY <2>2, <3>1, <3>3, <3>4, <3>5, <3>6, <3>7, <3>8, <3>9, <3>10
  <2>3. CASE icr[v] # {} /\ v \in Napi
    <3>1. /\ masked' = [masked EXCEPT ![v] = TRUE] /\ UNCHANGED isr_misc /\ v # "misc"
          /\ napi' = IF "DONE" \in icr[v] THEN [napi EXCEPT ![v] = IF @ = "idle" THEN "scheduled" ELSE @]
                     ELSE napi
      BY <1>2, <2>3, Vectors DEF ServeNapi, MaskVector, napi_schedule
    <3>2. /\ napi[v] \in {"disabled", "idle", "scheduled", "polled"}
          /\ Astray(v) => v \in stray'
          /\ ~Astray(v) => napi[v] # "disabled" /\ "DONE" \in icr[v]
          /\ stray' \subseteq Vector /\ \A u \in Vector : u # v /\ u \in stray => u \in stray'
      BY <1>2, <1>4, <2>3 DEF IInv, TypeOK, Astray
    <3>3. /\ napi' \in [Napi -> {"disabled", "idle", "scheduled", "polled"}]
          /\ napi'[v] = IF "DONE" \in icr[v] /\ napi[v] = "idle" THEN "scheduled" ELSE napi[v]
          /\ \A u \in Napi : u # v => napi'[u] = napi[u]
      BY <2>3, <3>1, <3>2 DEF IInv, TypeOK
    <3>4. /\ icr' \in [Vector -> SUBSET {"DONE", "DONE_N", "MBOX_EVT", "FW_READY"}]
          /\ masked' \in [Vector -> BOOLEAN] /\ masked'[v]
          /\ isr_misc' \subseteq {"DONE", "DONE_N", "MBOX_EVT"}
          /\ \A u \in Vector : u # v => masked'[u] = masked[u]
      BY <1>2, <1>4, <3>1 DEF IInv, TypeOK
    <3>5. /\ napi[v] = "disabled" => napi'[v] = "disabled"
          /\ napi[v] \in {"scheduled", "polled"} => napi'[v] = napi[v]
          /\ \/ v \in stray'
             \/ napi[v] = "idle" /\ napi'[v] = "scheduled"
             \/ napi[v] \in {"scheduled", "polled"} /\ napi'[v] = napi[v]
      BY <3>2, <3>3
    <3>6. QED
      BY ONLY <2>3, <3>1, <3>2, <3>3, <3>4, <3>5
  <2>4. QED
    BY <1>4, <2>1, <2>2, <2>3, Vectors
<1>9. TypeOK'
  BY <1>1, <1>7, <1>8 DEF IInv, TypeOK
\* What is under way afterwards.
<1>10. Waking' <=> Waking \/ w
  BY <1>1, <1>6, <1>7 DEF Waking
<1>11. ThreadUnderWay' <=> ThreadUnderWay \/ w
  <2>1. ThreadUnderWay' <=> runthread' \/ thread' = "served" \/ Waking'
    BY DEF ThreadUnderWay, Waking
  <2>2. QED
    BY <1>1, <1>10, <2>1, ThreadWord
<1>12. /\ \A u \in Vector : u # v => (Served(u)' <=> Served(u))
       /\ Served(v) => Served(v)'
       /\ Served(v)' => masked'[v] \/ Served(v)
  <2>1. ASSUME NEW u \in Napi, u # v PROVE Served(u)' <=> Served(u)
    BY <1>1, <1>8, <2>1, Vectors DEF Served, PollUnderWay
  <2>2. CASE v \in Napi
    <3>1. Served("misc")' <=> Served("misc")
      BY <1>8, <1>11, <2>2 DEF Served
    <3>2. (Served(v) => Served(v)') /\ (Served(v)' => masked'[v] \/ Served(v))
      <4>1. CASE icr[v] = {}
        BY <1>1, <1>8, <2>2, <4>1, Vectors DEF Served, PollUnderWay
      <4>2. CASE icr[v] # {}
        <5>1. masked'[v] /\ (napi[v] \in {"scheduled", "polled"} => napi'[v] = napi[v])
          BY <1>8, <2>2, <4>2
        <5>2. QED
          BY <1>1, <2>2, <5>1, Vectors DEF Served, PollUnderWay
      <4>3. QED
        BY <4>1, <4>2
    <3>3. QED
      BY <2>1, <3>1, <3>2, Vectors
  <2>3. CASE v = "misc"
    <3>1. (Served(v) => Served(v)') /\ (Served(v)' => masked'[v] \/ Served(v))
      BY <1>8, <1>11, <2>3 DEF Served
    <3>2. QED
      BY <1>4, <2>1, <2>3, <3>1, Vectors
  <2>4. QED
    BY <1>4, <2>2, <2>3, Vectors
<1>13. MaskedWhileServed'
  BY <1>1, <1>4, <1>8, <1>12 DEF IInv, MaskedWhileServed
<1>14. NapiOff'
  <2>1. \A u \in Napi : napi[u] = "disabled" => napi'[u] = "disabled"
    <3> SUFFICES ASSUME NEW u \in Napi, napi[u] = "disabled" PROVE napi'[u] = "disabled"
      OBVIOUS
    <3>1. CASE u = v
      BY <1>8, <3>1
    <3>2. QED
      BY <1>8, <3>1
  <2>2. QED
    BY <1>1, <2>1 DEF IInv, NapiOff
<1>15. Serving'
  <2>1. LineUsed(l)' /\ h.at # "enter" /\ (h.wake => l \in {"irq", "misc"})
    <3>1. w => l \in {"irq", "misc"}
      BY <1>4 DEF LineUsed
    <3>2. hard[l].wake => l \in {"irq", "misc"}
      BY <1>1 DEF IInv, Serving
    <3>3. QED
      BY <1>1, <1>4, <1>6, <3>1, <3>2 DEF LineUsed
  <2>2. \A u \in h.todo : (n_msi = 3 => u = l) /\ (Served(u)' => u \in caught)
    BY <1>1, <1>3, <1>6, <1>12 DEF IInv, Serving
  <2>3. ASSUME NEW k \in Line, k # l, hard[k] # NULL
        PROVE  /\ LineUsed(k)' /\ (hard[k].at = "enter" => hard[k].todo = {} /\ ~hard[k].wake)
               /\ hard[k].wake => k \in {"irq", "misc"}
               /\ \A u \in hard[k].todo : (n_msi = 3 => u = k) /\ (Served(u)' => u \in caught)
    <3>1. LineUsed(k) /\ n_msi = 3
      BY <1>4, <2>3 DEF IInv, Serving, LineUsed
    <3>2. \A u \in hard[k].todo : u = k /\ u # v /\ u \in Vector
      BY <1>4, <2>3, <3>1, HardType DEF IInv, Serving
    <3>3. QED
      BY <1>1, <1>12, <2>3, <3>1, <3>2 DEF IInv, Serving, LineUsed
  <2>4. QED
    BY <1>1, <1>7, <2>1, <2>2, <2>3 DEF Serving
<1>16. SoleService'
  <2>1. w /\ (Waking \/ runthread \/ thread = "served") => "misc" \in caught
    BY <1>4, ThreadWord DEF Served
  <2>2. ASSUME NEW u \in Napi
        PROVE  /\ napi'[u] \in {"scheduled", "polled"} /\ ending[u] > 0 => u \in caught
               /\ ending[u] > 1 => u \in caught
    <3>1. CASE u = v
      <4>1. ending[v] > 0 => v \in caught
        BY <1>4, <3>1, Vectors DEF Served, PollUnderWay
      <4>2. QED
        BY <3>1, <4>1 DEF IInv, SoleService
    <3>2. CASE u # v
      BY <1>8, <3>2 DEF IInv, SoleService
    <3>3. QED
      BY <3>1, <3>2
  <2>3. QED
    BY <1>1, <1>10, <2>1, <2>2 DEF IInv, SoleService
<1>17. Owned'
  <2>1. isr_misc' # {} => ThreadUnderWay'
    <3>1. CASE icr[v] # {} /\ v = "misc"
      BY <1>8, <1>11, <3>1
    <3>2. CASE ~(icr[v] # {} /\ v = "misc")
      <4>1. isr_misc' = isr_misc
        BY <1>4, <1>8, <3>2, Vectors
      <4>2. QED
        BY <1>11, <4>1 DEF IInv, Owned
    <3>3. QED
      BY <3>1, <3>2
  <2>2. ASSUME stage # "off", NEW u \in Napi, masked'[u] PROVE PollUnderWay(u)' \/ u \in stray'
    <3>1. CASE u # v
      <4>1. masked[u] /\ (u \in stray => u \in stray') /\ napi'[u] = napi[u]
        BY <1>8, <2>2, <3>1, Vectors
      <4>2. QED
        BY <1>1, <2>2, <4>1 DEF IInv, Owned, PollUnderWay
    <3>2. CASE u = v /\ icr[v] # {}
      BY <1>8, <2>2, <3>2 DEF PollUnderWay
    <3>3. CASE u = v /\ icr[v] = {}
      <4>1. masked[u] /\ stray' = stray /\ napi' = napi
        BY <1>8, <2>2, <3>3
      <4>2. QED
        BY <1>1, <2>2, <4>1 DEF IInv, Owned, PollUnderWay
    <3>4. QED
      BY <3>1, <3>2, <3>3
  <2>3. stage # "off" /\ masked'["misc"] => isr_misc' # {}
    <3>1. CASE icr[v] # {} /\ v = "misc"
      BY <1>8, <3>1
    <3>2. CASE ~(icr[v] # {} /\ v = "misc")
      <4>1. isr_misc' = isr_misc /\ masked'["misc"] = masked["misc"]
        BY <1>4, <1>8, <3>2, Vectors
      <4>2. QED
        BY <4>1 DEF IInv, Owned
    <3>3. QED
      BY <3>1, <3>2
  <2>4. hard["irq"] # NULL /\ hard["irq"].at = "serve" => hard'["irq"] # NULL /\ hard'["irq"].at = "serve"
    BY <1>6, <1>7, Vectors
  <2>5. QED
    BY <1>1, <2>1, <2>2, <2>3, <2>4 DEF IInv, Owned
<1>18. QED
  BY <1>9, <1>13, <1>14, <1>15, <1>16, <1>17 DEF IInv

\* A handler ends, and wakes the thread or unmasks the pseudo cause register.
LEMMA HardEndInv == ASSUME IInv, NEW l \in Line, HardEnd(l) PROVE IInv'
<1>1. /\ UNCHANGED <<n_msi, load, icr, masked, isr_misc, thread, napi, ending, work, stage, live,
                     resets, caught, stray>>
      /\ hard[l] # NULL /\ hard[l].at = "serve"
      /\ hard' = [hard EXCEPT ![l] = NULL]
      /\ runthread' = (runthread \/ hard[l].wake)
  BY DEF HardEnd, ifVars, histVars
<1>2. hard[l].wake \in BOOLEAN /\ LineUsed(l)
  BY <1>1, HardType DEF IInv, Serving
<1>3. /\ hard' \in [Line -> Progress \cup {NULL}] /\ hard'[l] = NULL
      /\ \A k \in Line : k # l => hard'[k] = hard[k]
  BY <1>1 DEF IInv, TypeOK
<1>4. pseudo' \in BOOLEAN /\ irqen' \in BOOLEAN /\ runthread' \in BOOLEAN
  <2>1. pseudo' \in BOOLEAN /\ irqen' \in BOOLEAN
    BY DEF HardEnd, IInv, TypeOK
  <2>2. QED
    BY <1>1, <2>1
<1>5. TypeOK'
  BY <1>1, <1>3, <1>4 DEF IInv, TypeOK
<1>6. /\ Waking => Waking' \/ hard[l].wake
      /\ Waking' => Waking /\ ~hard[l].wake
      /\ hard[l].wake => Waking
  <2>1. ASSUME Waking' PROVE Waking /\ ~hard[l].wake
    <3>1. PICK k \in Line : hard'[k] # NULL /\ hard'[k].wake
      BY <2>1 DEF Waking
    <3>2. k # l /\ hard[k] # NULL /\ hard[k].wake
      BY <1>3, <3>1
    <3>3. QED
      BY <1>1, <3>2, OneWaking DEF Waking
  <2>2. Waking => Waking' \/ hard[l].wake
    BY <1>3 DEF Waking
  <2>3. QED
    BY <1>1, <2>1, <2>2 DEF Waking
<1>7. /\ ThreadUnderWay' <=> ThreadUnderWay
      /\ \A v \in Napi : PollUnderWay(v)' <=> PollUnderWay(v)
      /\ \A v \in Vector : Served(v)' <=> Served(v)
  <2>1. ThreadUnderWay' <=> runthread' \/ thread' = "served" \/ Waking'
    BY DEF ThreadUnderWay, Waking
  <2>2. ThreadUnderWay' <=> ThreadUnderWay
    BY <1>1, <1>6, <2>1, ThreadWord
  <2>3. QED
    BY <1>1, <2>2 DEF PollUnderWay, Served
<1>8. NapiOff' /\ MaskedWhileServed'
  BY <1>1, <1>7 DEF IInv, NapiOff, MaskedWhileServed
<1>9. SoleService'
  BY <1>1, <1>6 DEF IInv, SoleService
<1>10. Serving'
  <2>1. ASSUME NEW k \in Line, k # l, hard[k] # NULL
        PROVE  /\ LineUsed(k)' /\ (hard[k].at = "enter" => hard[k].todo = {} /\ ~hard[k].wake)
               /\ hard[k].wake => k \in {"irq", "misc"}
               /\ \A v \in hard[k].todo : (n_msi = 3 => v = k) /\ (Served(v)' => v \in caught)
    <3>1. hard[k].todo \subseteq Vector
      BY <2>1, HardType DEF IInv
    <3>2. QED
      BY <1>1, <1>7, <2>1, <3>1 DEF IInv, Serving, LineUsed
  <2>2. QED
    BY <1>1, <1>3, <2>1 DEF Serving
<1>11. Owned'
  <2>1. ASSUME pseudo', stage # "off"
        PROVE  /\ n_msi # 3
               /\ \/ thread # "idle" \/ runthread'
                  \/ hard'["irq"] # NULL /\ hard'["irq"].at = "serve"
    <3>1. CASE UnmaskAfterHard(l)
      BY <2>1, <3>1 DEF HardEnd
    <3>2. CASE ~UnmaskAfterHard(l)
      <4>1. pseudo
        BY <2>1, <3>2 DEF HardEnd
      <4>2. n_msi # 3 /\ hard[l].wake
        BY <2>1, <3>2, <4>1 DEF IInv, Owned, UnmaskAfterHard
      <4>3. QED
        BY <1>1, <4>2
    <3>3. QED
      BY <3>1, <3>2
  <2>2. QED
    BY <1>1, <1>7, <2>1 DEF IInv, Owned
<1>12. QED
  BY <1>5, <1>8, <1>9, <1>10, <1>11 DEF IInv

-----------------------------------------------------------------------------
\* The rest of the state while no handler moves: Serving needs only that no vector is
\* newly served, and that what a reset caught is forgotten only when it is over.
LEMMA ServingKept ==
  ASSUME IInv, hard' = hard, n_msi' = n_msi,
         \A v \in Vector : Served(v)' => v \in caught' \/ (Served(v) /\ (v \in caught => v \in caught'))
  PROVE  Serving' /\ (Waking' <=> Waking)
<1>1. Waking' <=> Waking
  BY DEF Waking
<1>2. ASSUME NEW l \in Line, hard[l] # NULL
      PROVE  /\ LineUsed(l)' /\ (hard[l].at = "enter" => hard[l].todo = {} /\ ~hard[l].wake)
             /\ hard[l].wake => l \in {"irq", "misc"}
             /\ \A v \in hard[l].todo : (n_msi = 3 => v = l) /\ (Served(v)' => v \in caught')
  <2>1. hard[l].todo \subseteq Vector
    BY <1>2, HardType DEF IInv
  <2>2. QED
    BY <1>2, <2>1 DEF IInv, Serving, LineUsed
<1>3. QED
  BY <1>1, <1>2 DEF Serving

\* The interrupt thread.
LEMMA ThreadInv == ASSUME IInv, ThreadStep PROVE IInv'
<1>1. /\ UNCHANGED <<n_msi, load, icr, hard, napi, ending, stage, live, resets, stray>>
      /\ \A v \in Napi : PollUnderWay(v)' <=> PollUnderWay(v)
  <2>1. UNCHANGED <<n_msi, load, icr, hard, napi, ending, stage, live, resets, stray>>
    BY DEF ThreadStep, ThreadSkip, ThreadServe, ThreadDone, ThreadEnd, irqVars, ifVars, histVars
  <2>2. QED
    BY <2>1 DEF PollUnderWay
<1>2. /\ ThreadUnderWay <=> runthread \/ thread = "served" \/ Waking
      /\ ThreadUnderWay' <=> runthread' \/ thread' = "served" \/ Waking'
      /\ Waking' <=> Waking
      /\ Served("misc") = ThreadUnderWay /\ Served("misc")' = ThreadUnderWay'
      /\ \A v \in Napi : Served(v) = PollUnderWay(v) /\ Served(v)' = PollUnderWay(v)'
  <2>1. ThreadUnderWay <=> runthread \/ thread = "served" \/ Waking
    BY ThreadWord
  <2>2. ThreadUnderWay' <=> runthread' \/ thread' = "served" \/ Waking'
    BY DEF ThreadUnderWay, Waking
  <2>3. Waking' <=> Waking
    BY <1>1 DEF Waking
  <2>4. /\ Served("misc") = ThreadUnderWay /\ Served("misc")' = ThreadUnderWay'
        /\ \A v \in Napi : Served(v) = PollUnderWay(v) /\ Served(v)' = PollUnderWay(v)'
    BY Vectors DEF Served
  <2>5. QED
    BY <2>1, <2>2, <2>3, <2>4
<1>3. CASE ThreadSkip \/ ThreadDone
  <2>1. /\ UNCHANGED <<irqen, work>> /\ pseudo' = pseudo
        /\ caught' = {v \in caught : Served(v)'}
    BY <1>3 DEF ThreadSkip, ThreadDone, irqVars, StillCaught
  <2>2. /\ ThreadSkip => /\ runthread /\ thread = "idle" /\ n_msi # 3 /\ isr_misc = {}
                         /\ runthread' = FALSE /\ thread' = "unmasked"
                         /\ UNCHANGED <<isr_misc, masked>>
        /\ ThreadDone => /\ thread = "served" /\ runthread' = runthread
                         /\ isr_misc' = {} /\ masked' = [masked EXCEPT !["misc"] = FALSE]
                         /\ thread' = IF n_msi = 3 THEN "idle" ELSE "unmasked"
    BY DEF ThreadSkip, ThreadDone, irqVars
  <2>3. masked' \in [Vector -> BOOLEAN] /\ (\A v \in Napi : masked'[v] = masked[v])
        /\ (ThreadDone => ~masked'["misc"]) /\ (ThreadSkip => masked'["misc"] = masked["misc"])
    BY <1>3, <2>2, Vectors DEF IInv, TypeOK
  <2>4. TypeOK'
    <3>1. caught' \subseteq Vector /\ isr_misc' \subseteq {"DONE", "DONE_N", "MBOX_EVT"}
          /\ runthread' \in BOOLEAN /\ thread' \in {"idle", "served", "unmasked"}
      BY <1>3, <2>1, <2>2 DEF IInv, TypeOK
    <3>2. QED
      BY <1>1, <2>1, <2>3, <3>1 DEF IInv, TypeOK
  <2>5. \A v \in Vector : Served(v)' => Served(v) /\ (v \in caught => v \in caught')
    <3>1. ThreadUnderWay' => ThreadUnderWay
      BY <1>2, <1>3, <2>2
    <3>2. QED
      BY <1>1, <1>2, <2>1, <3>1, Vectors
  <2>6. Serving'
    BY <1>1, <2>5, ServingKept
  <2>7. SoleService'
    <3>1. runthread' /\ thread' = "served" => "misc" \in caught'
      BY <1>3, <2>2
    <3>2. Waking' /\ (runthread' \/ thread' = "served") => "misc" \in caught'
      <4>1. SUFFICES ASSUME Waking', runthread' \/ thread' = "served" PROVE "misc" \in caught'
        OBVIOUS
      <4>2. Waking /\ (runthread \/ thread = "served") /\ Served("misc")'
        BY <1>2, <1>3, <2>2, <4>1
      <4>3. QED
        BY <2>1, <4>2 DEF IInv, SoleService
    <3>3. ASSUME NEW v \in Napi
          PROVE  /\ napi'[v] \in {"scheduled", "polled"} /\ ending'[v] > 0 => v \in caught'
                 /\ ending'[v] > 1 => v \in caught'
      <4>1. /\ napi[v] \in {"scheduled", "polled"} /\ ending[v] > 0 => v \in caught
            /\ ending[v] > 1 => v \in caught
        BY DEF IInv, SoleService
      <4>2. ending[v] > 0 => Served(v)'
        BY <1>1, <1>2 DEF PollUnderWay
      <4>3. ending[v] \in Nat
        BY DEF IInv, TypeOK
      <4>4. QED
        BY <1>1, <2>1, <4>1, <4>2, <4>3
    <3>4. QED
      BY <3>1, <3>2, <3>3 DEF SoleService
  <2>8. MaskedWhileServed'
    <3>1. ASSUME NEW v \in Napi, Served(v)' PROVE masked'[v] \/ v \in caught'
      BY <2>1, <2>3, <2>5, <3>1, Vectors DEF IInv, MaskedWhileServed
    <3>2. ASSUME Served("misc")' PROVE masked'["misc"] \/ "misc" \in caught'
      <4>1. CASE ThreadSkip
        BY <2>1, <2>3, <2>5, <3>2, <4>1, Vectors DEF IInv, MaskedWhileServed
      <4>2. CASE ThreadDone
        <5>1. "misc" \in caught
          BY <1>2, <2>2, <3>2, <4>2 DEF IInv, SoleService
        <5>2. QED
          BY <2>1, <3>2, <5>1
      <4>3. QED
        BY <1>3, <4>1, <4>2
    <3>3. QED
      BY <3>1, <3>2, Vectors DEF MaskedWhileServed
  <2>9. NapiOff'
    BY <1>1 DEF IInv, NapiOff
  <2>10. Owned'
    BY <1>1, <1>2, <1>3, <2>1, <2>2, <2>3 DEF IInv, Owned
  <2>11. QED
    BY <2>4, <2>6, <2>7, <2>8, <2>9, <2>10 DEF IInv
<1>4. CASE ThreadServe
  <2>1. /\ UNCHANGED <<masked, pseudo, irqen, isr_misc, caught>>
        /\ runthread /\ thread = "idle" /\ runthread' = FALSE /\ thread' = "served"
        /\ work' = [work EXCEPT !["misc"] = IF "MBOX_EVT" \in isr_misc THEN 0 ELSE @]
    BY <1>4 DEF ThreadServe, irqVars, histVars
  <2>2. TypeOK'
    <3>1. work' \in [Vector -> Nat] /\ \A v \in Vector : work'[v] <= load[v]
      BY <2>1, LoadAssumption, Vectors DEF IInv, TypeOK
    <3>2. QED
      BY <1>1, <2>1, <3>1 DEF IInv, TypeOK
  <2>3. ThreadUnderWay' <=> ThreadUnderWay
    BY <1>2, <2>1
  <2>4. \A v \in Vector : Served(v)' <=> Served(v)
    BY <1>1, <1>2, <2>3, Vectors
  <2>5. Serving'
    BY <1>1, <2>1, <2>4, ServingKept
  <2>6. NapiOff' /\ SoleService' /\ MaskedWhileServed'
    BY <1>1, <1>2, <2>1, <2>4 DEF IInv, NapiOff, SoleService, MaskedWhileServed
  <2>7. Owned'
    BY <1>1, <2>1, <2>3 DEF IInv, Owned
  <2>8. QED
    BY <2>2, <2>5, <2>6, <2>7 DEF IInv
<1>5. CASE ThreadEnd
  <2>1. /\ UNCHANGED <<masked, isr_misc, caught, runthread, work>>
        /\ thread = "unmasked" /\ thread' = "idle" /\ pseudo' = FALSE /\ irqen' = TRUE
    BY <1>5 DEF ThreadEnd, irqVars, histVars
  <2>2. TypeOK'
    BY <1>1, <2>1 DEF IInv, TypeOK
  <2>3. ThreadUnderWay' <=> ThreadUnderWay
    BY <1>2, <2>1
  <2>4. \A v \in Vector : Served(v)' <=> Served(v)
    BY <1>1, <1>2, <2>3, Vectors
  <2>5. Serving'
    BY <1>1, <2>1, <2>4, ServingKept
  <2>6. NapiOff' /\ SoleService' /\ MaskedWhileServed'
    BY <1>1, <1>2, <2>1, <2>4 DEF IInv, NapiOff, SoleService, MaskedWhileServed
  <2>7. Owned'
    BY <1>1, <2>1, <2>3 DEF IInv, Owned
  <2>8. QED
    BY <2>2, <2>5, <2>6, <2>7 DEF IInv
<1>6. QED
  BY <1>3, <1>4, <1>5 DEF ThreadStep

\* The polls.
LEMMA NapiInv == ASSUME IInv, NEW v \in Napi, NapiStep(v) PROVE IInv'
<1>1. /\ UNCHANGED <<n_msi, load, icr, pseudo, irqen, hard, isr_misc, runthread, thread, stage,
                     live, resets, stray>>
      /\ v \in Vector /\ v # "misc"
  BY Vectors DEF NapiStep, Poll, PollComplete, PollUnmask, irqVars, miscVars, ifVars, histVars
<1>2. /\ Waking' <=> Waking
      /\ ThreadUnderWay' <=> ThreadUnderWay
  <2>1. Waking' <=> Waking
    BY <1>1 DEF Waking
  <2>2. ThreadUnderWay' <=> runthread' \/ thread' = "served" \/ Waking'
    BY DEF ThreadUnderWay, Waking
  <2>3. QED
    BY <1>1, <2>1, <2>2, ThreadWord
<1>3. /\ napi' \in [Napi -> {"disabled", "idle", "scheduled", "polled"}]
      /\ ending' \in [Napi -> Nat] /\ masked' \in [Vector -> BOOLEAN]
      /\ work' \in [Vector -> Nat] /\ (\A u \in Vector : work'[u] <= load[u])
      /\ caught' \subseteq Vector
      /\ \A u \in Napi : u # v => napi'[u] = napi[u] /\ ending'[u] = ending[u]
      /\ \A u \in Vector : u # v => masked'[u] = masked[u]
      /\ \/ /\ napi[v] = "scheduled" /\ napi'[v] \in {"scheduled", "polled"}
            /\ ending'[v] = ending[v] /\ masked' = masked /\ caught' = caught
         \/ /\ napi[v] = "polled" /\ napi'[v] = "idle" /\ ending'[v] = ending[v] + 1
            /\ masked' = masked /\ caught' = caught
         \/ /\ ending[v] > 0 /\ ending'[v] = ending[v] - 1 /\ napi'[v] = napi[v]
            /\ ~masked'[v] /\ caught' = {u \in caught : Served(u)'}
  <2>0. /\ napi[v] \in {"disabled", "idle", "scheduled", "polled"} /\ ending[v] \in Nat
        /\ work[v] \in Nat /\ load[v] \in Nat /\ work[v] <= load[v]
    BY <1>1, LoadAssumption DEF IInv, TypeOK
  <2>1. CASE Poll(v)
    <3>1. /\ UNCHANGED <<masked, ending, caught>> /\ napi[v] = "scheduled"
          /\ work' = [work EXCEPT ![v] = @ - Done(v)]
          /\ napi' = [napi EXCEPT ![v] = IF Done(v) <= 1 THEN "polled" ELSE @]
      BY <2>1 DEF Poll, irqVars, histVars
    <3>2. work[v] - Done(v) \in Nat /\ work[v] - Done(v) <= load[v]
      <4>1. Done(v) \in 0..work[v]
        BY DoneBound DEF IInv
      <4>2. QED
        BY <2>0, <4>1
    <3>3. napi'[v] \in {"scheduled", "polled"} /\ \A u \in Napi : u # v => napi'[u] = napi[u]
      BY <3>1 DEF IInv, TypeOK
    <3>4. napi' \in [Napi -> {"disabled", "idle", "scheduled", "polled"}]
      BY <3>1 DEF IInv, TypeOK
    <3>5. work' \in [Vector -> Nat] /\ (\A u \in Vector : work'[u] <= load[u])
      BY <1>1, <3>1, <3>2 DEF IInv, TypeOK
    <3>6. QED
      BY <3>1, <3>3, <3>4, <3>5 DEF IInv, TypeOK
  <2>2. CASE PollComplete(v)
    <3>1. /\ UNCHANGED <<masked, work, caught>> /\ napi[v] = "polled"
          /\ napi' = [napi EXCEPT ![v] = "idle"]
          /\ ending' = [ending EXCEPT ![v] = @ + 1]
      BY <2>2 DEF PollComplete, irqVars, histVars
    <3>2. QED
      BY <2>0, <3>1 DEF IInv, TypeOK
  <2>3. CASE PollUnmask(v)
    <3>1. /\ UNCHANGED <<napi, work>> /\ ending[v] > 0
          /\ ending' = [ending EXCEPT ![v] = @ - 1]
          /\ masked' = [masked EXCEPT ![v] = FALSE]
          /\ caught' = {u \in caught : Served(u)'}
      BY <2>3 DEF PollUnmask, StillCaught
    <3>2. ending[v] - 1 \in Nat
      BY <2>0, <3>1
    <3>3. caught' \subseteq Vector
      BY <3>1 DEF IInv, TypeOK
    <3>4. /\ ending' \in [Napi -> Nat] /\ masked' \in [Vector -> BOOLEAN] /\ ~masked'[v]
          /\ ending'[v] = ending[v] - 1
          /\ \A u \in Napi : u # v => ending'[u] = ending[u]
          /\ \A u \in Vector : u # v => masked'[u] = masked[u]
      BY <1>1, <3>1, <3>2 DEF IInv, TypeOK
    <3>5. QED
      BY <3>1, <3>3, <3>4 DEF IInv, TypeOK
  <2>4. QED
    BY <2>1, <2>2, <2>3 DEF NapiStep
<1>4. ending[v] \in Nat
  BY DEF IInv, TypeOK
\* No service begins; what a reset caught is forgotten only when it is over.
<1>5. \A u \in Vector : Served(u)' => Served(u) /\ (u \in caught => u \in caught')
  <2>1. ASSUME NEW u \in Napi, u # v PROVE Served(u)' <=> Served(u)
    BY <1>3, <2>1, Vectors DEF Served, PollUnderWay
  <2>2. Served(v)' => Served(v)
    BY <1>1, <1>3, <1>4 DEF Served, PollUnderWay
  <2>3. Served("misc")' <=> Served("misc")
    BY <1>2 DEF Served
  <2>4. QED
    BY <1>1, <1>3, <2>1, <2>2, <2>3, Vectors
<1>6. TypeOK'
  BY <1>1, <1>3 DEF IInv, TypeOK
<1>7. NapiOff'
  <2>1. \A u \in Napi : napi[u] = "disabled" => napi'[u] = "disabled"
    BY <1>3
  <2>2. QED
    BY <1>1, <2>1 DEF IInv, NapiOff
<1>8. Serving'
  BY <1>1, <1>5, ServingKept
<1>9. SoleService'
  <2>1. ASSUME NEW u \in Napi
        PROVE  /\ napi'[u] \in {"scheduled", "polled"} /\ ending'[u] > 0 => u \in caught'
               /\ ending'[u] > 1 => u \in caught'
    <3>1. /\ napi[u] \in {"scheduled", "polled"} /\ ending[u] > 0 => u \in caught
          /\ ending[u] > 1 => u \in caught
          /\ ending[u] \in Nat /\ ending'[u] \in Nat
      BY <1>3 DEF IInv, SoleService, TypeOK
    <3>2. ending'[u] > 0 /\ u \in caught => u \in caught'
      <4>1. ending'[u] > 0 => Served(u)'
        BY Vectors DEF Served, PollUnderWay
      <4>2. QED
        BY <1>5, <4>1, Vectors
    <3>3. CASE u # v
      BY <1>3, <3>1, <3>2, <3>3
    <3>4. CASE u = v
      BY <1>3, <3>1, <3>2, <3>4
    <3>5. QED
      BY <3>3, <3>4
  <2>2. "misc" \in caught => "misc" \in caught' \/ ~Served("misc")'
    BY <1>5, Vectors
  <2>3. Served("misc")' <=> runthread \/ thread = "served" \/ Waking
    BY <1>2, ThreadWord DEF Served
  <2>4. /\ runthread /\ thread = "served" => "misc" \in caught'
        /\ Waking /\ (runthread \/ thread = "served") => "misc" \in caught'
    BY <2>2, <2>3 DEF IInv, SoleService
  <2>5. QED
    BY <1>1, <1>2, <2>1, <2>4 DEF SoleService
<1>10. MaskedWhileServed'
  <2>1. ASSUME NEW u \in Vector, Served(u)' PROVE masked'[u] \/ u \in caught'
    <3>1. CASE masked'[u] = masked[u]
      BY <1>5, <2>1, <3>1 DEF IInv, MaskedWhileServed
    <3>2. CASE masked'[u] # masked[u]
      <4>1. u = v /\ ending[v] > 0 /\ ending'[v] = ending[v] - 1 /\ napi'[v] = napi[v]
        BY <1>3, <3>2
      <4>2. napi[v] \in {"scheduled", "polled"} \/ ending[v] > 1
        BY <1>1, <1>4, <2>1, <4>1 DEF Served, PollUnderWay
      <4>3. v \in caught
        BY <4>1, <4>2 DEF IInv, SoleService
      <4>4. QED
        BY <1>5, <2>1, <4>1, <4>3
    <3>3. QED
      BY <3>1, <3>2
  <2>2. QED
    BY <2>1 DEF MaskedWhileServed
<1>11. Owned'
  <2>1. ASSUME stage # "off", NEW u \in Napi, masked'[u] PROVE PollUnderWay(u)' \/ u \in stray
    <3>1. CASE u # v
      <4>1. masked[u] /\ napi'[u] = napi[u] /\ ending'[u] = ending[u]
        BY <1>3, <2>1, <3>1, Vectors
      <4>2. QED
        BY <1>1, <2>1, <4>1 DEF IInv, Owned, PollUnderWay
    <3>2. CASE u = v
      BY <1>3, <1>4, <2>1, <3>2 DEF IInv, Owned, PollUnderWay
    <3>3. QED
      BY <3>1, <3>2
  <2>2. masked'["misc"] = masked["misc"]
    BY <1>1, <1>3, Vectors
  <2>3. QED
    BY <1>1, <1>2, <2>1, <2>2 DEF IInv, Owned
<1>12. QED
  BY <1>6, <1>7, <1>8, <1>9, <1>10, <1>11 DEF IInv

\* The interface: only wil6210_enable_irq of a reset unmasks, and NAPI is enabled
\* and disabled only while no poll is scheduled.
LEMMA StageInv ==
  ASSUME IInv, ResetBegin \/ ResetEnable \/ NapiEnable \/ UpFails \/ NapiDisable
  PROVE  IInv'
<1>1. /\ UNCHANGED <<n_msi, load, hard, isr_misc, runthread, thread, ending>>
      /\ \A v \in Napi : napi[v] \in {"disabled", "idle", "scheduled", "polled"}
  BY DEF ResetBegin, ResetEnable, NapiEnable, UpFails, NapiDisable, irqVars, miscVars, ifVars,
         IInv, TypeOK
<1>2. /\ Waking' <=> Waking
      /\ ThreadUnderWay' <=> ThreadUnderWay
  <2>1. Waking' <=> Waking
    BY <1>1 DEF Waking
  <2>2. ThreadUnderWay' <=> runthread' \/ thread' = "served" \/ Waking'
    BY DEF ThreadUnderWay, Waking
  <2>3. QED
    BY <1>1, <2>1, <2>2, ThreadWord
\* NAPI goes from disabled to idle, or back, in no case into a poll.
<1>3. \A v \in Napi : napi'[v] = napi[v] \/ (napi[v] \in {"disabled", "idle"} /\ napi'[v] \in {"disabled", "idle"})
  BY DEF ResetBegin, ResetEnable, NapiEnable, UpFails, NapiDisable, IInv, NapiOff
<1>4. /\ \A v \in Napi : PollUnderWay(v)' <=> PollUnderWay(v)
      /\ \A v \in Vector : Served(v)' <=> Served(v)
  <2>1. \A v \in Napi : PollUnderWay(v)' <=> PollUnderWay(v)
    BY <1>1, <1>3 DEF PollUnderWay
  <2>2. QED
    BY <1>2, <2>1, Vectors DEF Served
<1>5. TypeOK'
  <2>1. CASE ResetBegin
    <3>1. resets' \in 0..MaxResets /\ live' \in BOOLEAN
      BY <2>1, WorkAssumption DEF ResetBegin, IInv, TypeOK
    <3>2. masked' \in [Vector -> BOOLEAN] /\ pseudo' \in BOOLEAN /\ irqen' \in BOOLEAN
      BY <2>1 DEF ResetBegin
    <3>3. QED
      BY <1>1, <2>1, <3>1, <3>2 DEF ResetBegin, IInv, TypeOK, histVars
  <2>2. CASE ResetEnable
    <3>1. icr' \in [Vector -> SUBSET {"DONE", "DONE_N", "MBOX_EVT", "FW_READY"}]
          /\ masked' \in [Vector -> BOOLEAN] /\ pseudo' \in BOOLEAN /\ irqen' \in BOOLEAN
          /\ caught' \subseteq Vector /\ stray' \subseteq Vector
      BY <2>2 DEF ResetEnable
    <3>2. work' \in [Vector -> Nat] /\ \A v \in Vector : work'[v] <= load[v]
      BY <2>2, LoadAssumption DEF ResetEnable, IInv, TypeOK
    <3>3. QED
      BY <1>1, <2>2, <3>1, <3>2 DEF ResetEnable, IInv, TypeOK
  <2>3. CASE NapiEnable \/ UpFails
    <3>1. napi' \in [Napi -> {"disabled", "idle", "scheduled", "polled"}]
      BY <2>3 DEF NapiEnable, UpFails, IInv, TypeOK
    <3>2. QED
      BY <1>1, <2>3, <3>1 DEF NapiEnable, UpFails, IInv, TypeOK, irqVars, histVars
  <2>4. CASE NapiDisable
    <3>1. work' \in [Vector -> Nat] /\ \A v \in Vector : work'[v] <= load[v]
      <4>1. "rx" \in Vector /\ work' = [work EXCEPT !["rx"] = 0] /\ load \in [Vector -> Nat]
        BY <2>4, LoadAssumption DEF NapiDisable, IInv, TypeOK, Vector, Napi
      <4>2. QED
        BY <4>1 DEF IInv, TypeOK
    <3>2. napi' \in [Napi -> {"disabled", "idle", "scheduled", "polled"}]
      BY <2>4 DEF NapiDisable
    <3>3. QED
      BY <1>1, <2>4, <3>1, <3>2 DEF NapiDisable, IInv, TypeOK, irqVars, histVars
  <2>5. QED
    BY <2>1, <2>2, <2>3, <2>4
<1>6. NapiOff'
  <2>1. CASE ResetBegin
    BY <2>1 DEF ResetBegin, IInv, NapiOff, TypeOK
  <2>2. CASE ResetEnable
    BY <2>2 DEF ResetEnable, IInv, NapiOff
  <2>3. CASE NapiEnable \/ UpFails \/ NapiDisable
    BY <2>3 DEF NapiEnable, UpFails, NapiDisable, IInv, NapiOff
  <2>4. QED
    BY <2>1, <2>2, <2>3
<1>7. CASE ResetEnable
  <2>1. /\ masked' = [v \in Vector |-> FALSE] /\ pseudo' = FALSE
        /\ caught' = {v \in Vector : Served(v)}
    BY <1>7 DEF ResetEnable
  <2>2. Serving'
    BY <1>1, <1>4, <2>1, ServingKept
  <2>3. SoleService' /\ MaskedWhileServed'
    <3>1. \A v \in Napi : ending[v] > 0 => v \in caught'
      BY <2>1, Vectors DEF Served, PollUnderWay
    <3>2. runthread \/ thread = "served" => "misc" \in caught'
      BY <2>1, ThreadWord, Vectors DEF Served
    <3>3. \A v \in Napi : ending[v] > 1 => ending[v] > 0
      BY DEF IInv, TypeOK
    <3>4. QED
      BY <1>1, <1>2, <1>4, <2>1, <3>1, <3>2, <3>3 DEF SoleService, MaskedWhileServed
  <2>4. Owned'
    BY <1>1, <1>2, <2>1, Vectors DEF IInv, Owned
  <2>5. QED
    BY <1>5, <1>6, <2>2, <2>3, <2>4 DEF IInv
<1>8. CASE ResetBegin \/ NapiEnable \/ UpFails \/ NapiDisable
  <2>1. /\ UNCHANGED <<caught, stray>>
        /\ \/ stage' = "off" /\ \A v \in Vector : masked'[v]
           \/ stage # "off" /\ UNCHANGED <<masked, pseudo>>
    BY <1>8 DEF ResetBegin, NapiEnable, UpFails, NapiDisable, irqVars, histVars
  <2>2. Serving'
    BY <1>1, <1>4, <2>1, ServingKept
  <2>3. SoleService'
    <3>1. \A v \in Napi : napi'[v] \in {"scheduled", "polled"} => napi[v] \in {"scheduled", "polled"}
      BY <1>3
    <3>2. QED
      BY <1>1, <1>2, <2>1, <3>1 DEF IInv, SoleService
  <2>4. MaskedWhileServed'
    BY <1>4, <2>1 DEF IInv, MaskedWhileServed
  <2>5. Owned'
    BY <1>1, <1>2, <1>4, <2>1 DEF IInv, Owned
  <2>6. QED
    BY <1>5, <1>6, <2>2, <2>3, <2>4, <2>5 DEF IInv
<1>9. QED
  BY <1>7, <1>8

\* The device latches causes, and touches nothing else.
LEMMA DeviceInv ==
  ASSUME IInv, RingDone \/ FwEvent \/ FwReady \/ \E v \in Napi : Traffic(v)
  PROVE  IInv'
<1>1. /\ UNCHANGED <<n_msi, load, masked, pseudo, irqen, hard, isr_misc, runthread, thread, napi,
                     ending, stage, live, resets, caught, stray>>
  BY DEF RingDone, FwEvent, FwReady, Traffic, Cause, miscVars, ifVars, histVars
<1>2. \E v \in Vector, c \in SUBSET {"DONE", "DONE_N", "MBOX_EVT", "FW_READY"} :
        icr' = [icr EXCEPT ![v] = @ \cup c]
  <2>1. ASSUME NEW v \in Napi, Traffic(v)
        PROVE  icr' = [icr EXCEPT ![v] = @ \cup {"DONE"}]
    BY <2>1 DEF Traffic, Cause
  <2>2. FwEvent => icr' = [icr EXCEPT !["misc"] = @ \cup {"MBOX_EVT"}]
    BY DEF FwEvent, Cause
  <2>3. FwReady => icr' = [icr EXCEPT !["misc"] = @ \cup {"FW_READY"}]
    BY DEF FwReady, Cause
  <2>4. RingDone => icr' = [icr EXCEPT !["tx"] = @ \cup {"DONE_N"}]
    BY DEF RingDone, Cause
  <2>5. {{"DONE"}, {"DONE_N"}, {"MBOX_EVT"}, {"FW_READY"}} \subseteq SUBSET {"DONE", "DONE_N", "MBOX_EVT", "FW_READY"}
    OBVIOUS
  <2>6. "misc" \in Vector /\ "tx" \in Vector /\ Napi \subseteq Vector
    BY DEF Vector, Napi
  <2>7. QED
    BY <2>1, <2>2, <2>3, <2>4, <2>5, <2>6
<1>3. icr' \in [Vector -> SUBSET {"DONE", "DONE_N", "MBOX_EVT", "FW_READY"}]
  BY <1>2 DEF IInv, TypeOK
<1>4. work' \in [Vector -> Nat] /\ \A v \in Vector : work'[v] <= load[v]
  <2>1. ASSUME NEW v \in Vector, work[v] < load[v], work' = [work EXCEPT ![v] = @ + 1]
        PROVE  work' \in [Vector -> Nat] /\ \A u \in Vector : work'[u] <= load[u]
    <3>1. work[v] \in Nat /\ load[v] \in Nat
      BY LoadAssumption DEF IInv, TypeOK
    <3>2. work[v] + 1 \in Nat /\ work[v] + 1 <= load[v]
      BY <2>1, <3>1
    <3>3. QED
      BY <2>1, <3>2 DEF IInv, TypeOK
  <2>2. \/ work' = work
        \/ \E v \in Vector : work[v] < load[v] /\ work' = [work EXCEPT ![v] = @ + 1]
    BY Vectors DEF RingDone, FwEvent, FwReady, Traffic
  <2>3. QED
    BY <2>1, <2>2 DEF IInv, TypeOK
<1>5. TypeOK'
  BY <1>1, <1>3, <1>4 DEF IInv, TypeOK
<1>6. /\ Waking' <=> Waking
      /\ ThreadUnderWay' <=> ThreadUnderWay
      /\ \A v \in Napi : PollUnderWay(v)' <=> PollUnderWay(v)
      /\ \A v \in Vector : Served(v)' <=> Served(v)
  BY <1>1 DEF Waking, ThreadUnderWay, PollUnderWay, Served
<1>7. Serving'
  BY <1>1, <1>6, ServingKept
<1>8. NapiOff' /\ SoleService' /\ MaskedWhileServed' /\ Owned'
  BY <1>1, <1>6 DEF IInv, NapiOff, SoleService, MaskedWhileServed, Owned
<1>9. QED
  BY <1>5, <1>7, <1>8 DEF IInv

-----------------------------------------------------------------------------
\* Every step keeps the invariant.
LEMMA StepInv == IInv /\ [Next]_vars => IInv'
<1> SUFFICES ASSUME IInv, [Next]_vars PROVE IInv'
  OBVIOUS
<1>1. CASE UNCHANGED vars
  <2>1. UNCHANGED <<n_msi, load, icr, masked, pseudo, irqen, hard, isr_misc, runthread, thread,
                    napi, ending, work, stage, live, resets, caught, stray>>
    BY <1>1 DEF vars, irqVars, miscVars, ifVars, histVars
  <2>2. /\ Waking' <=> Waking
        /\ ThreadUnderWay' <=> ThreadUnderWay
        /\ \A v \in Napi : PollUnderWay(v)' <=> PollUnderWay(v)
        /\ \A v \in Vector : Served(v)' <=> Served(v)
    BY <2>1 DEF Waking, ThreadUnderWay, PollUnderWay, Served
  <2>3. Serving'
    BY <2>1, <2>2, ServingKept
  <2>4. TypeOK'
    BY <2>1 DEF IInv, TypeOK
  <2>5. NapiOff' /\ SoleService' /\ MaskedWhileServed' /\ Owned'
    BY <2>1, <2>2 DEF IInv, NapiOff, SoleService, MaskedWhileServed, Owned
  <2>6. QED
    BY <2>3, <2>4, <2>5 DEF IInv
<1>2. ASSUME NEW l \in Line, HardStep(l) PROVE IInv'
  BY <1>2, HardBeginInv, HardServeInv, HardEndInv DEF HardStep
<1>3. CASE HardDiscover
  BY <1>3, DiscoverInv
<1>4. CASE ThreadStep
  BY <1>4, ThreadInv
<1>5. ASSUME NEW v \in Napi, NapiStep(v) PROVE IInv'
  BY <1>5, NapiInv
<1>6. CASE ResetBegin \/ ResetEnable \/ NapiEnable \/ UpFails \/ NapiDisable
  BY <1>6, StageInv
<1>7. CASE RingDone \/ FwEvent \/ FwReady \/ \E v \in Napi : Traffic(v)
  BY <1>7, DeviceInv
<1>8. QED
  BY <1>1, <1>2, <1>3, <1>4, <1>5, <1>6, <1>7 DEF Next

\* The invariant holds in every state that is reached.
THEOREM Inductive == Spec => []IInv
BY StepInv, InitInv, PTL DEF Spec

\* A vector is masked while the poll or the thread that serves it is at work, so
\* that no handler runs against it (interrupt.c:33); wil6210_enable_irq in a reset
\* is the only exception (main.c:344).
THEOREM ServedMasked == Spec => []MaskedWhileServed
<1>1. IInv => MaskedWhileServed
  BY DEF IInv
<1>2. QED
  BY <1>1, Inductive, PTL

\* Whatever is masked has someone who will unmask it (interrupt.c:206), except for
\* the Rx and Tx vectors that were masked astray.
THEOREM MaskOwned == Spec => []MaskHasOwner
<1>1. IInv => MaskHasOwner
  BY DEF IInv, Owned, MaskHasOwner
<1>2. QED
  BY <1>1, Inductive, PTL

-----------------------------------------------------------------------------
(* What probe takes, roll-back and remove give back (module ProbeRemove), for *)
(* any number of events that wait and whatever is refused.                    *)

Irqs == {"irq0", "irq1", "irq2"}

\* What the handlers and the event worker use.
Backing == {"csr", "wiphy", "wmi_wq", "back_wq"}

\* What is done besides giving back.
Deeds == {"disable_irq", "cancel_disc", "disconnect", "flush"}

Name == ToSet(ProbeOrder) \cup Deeds

\* When it is the turn of x.
Turn(x) ==
  CASE x \in Irqs \cup {"debugfs", "master", "disable_irq", "msi"} -> 1
    [] x = "netdev" -> 2
    [] x = "ndev" -> 3
    [] x = "cancel_disc" -> 4
    [] x \in {"disconnect", "flush", "roc_wq", "wmi_wq_conn"} -> 5
    [] x = "wmi_wq" -> 6
    [] x = "back_wq" -> 7
    [] x \in {"registered", "wiphy", "wdev"} -> 8
    [] x = "csr" -> 9
    [] x \in {"region", "device"} -> 10
    [] OTHER -> 0

\* Nothing is listed twice, or out of its turn.
Listed(s) ==
  /\ s \in Seq(Name)
  /\ \A i, j \in 1..Len(s) : i < j => s[i] # s[j] /\ Turn(s[i]) <= Turn(s[j])

\* Who unregisters the interface waits for the disconnect worker, and then frees
\* the private memory.
Closes(S) ==
  /\ "netdev" \in S => "cancel_disc" \in S
  /\ "cancel_disc" \in S => "wiphy" \in S

\* What has been taken when the k-th resource is to be, with n MSIs.
Before(k) == {ProbeOrder[i] : i \in 1..(k - 1)}

NotTaken(n) ==
  {"reset"} \cup (IF n = 0 THEN {"msi"} ELSE {}) \cup (IF n = 3 THEN {} ELSE {"irq1", "irq2"})

\* What is held, by the phase.
Taking ==
  /\ phase # "release" => todo = <<>>
  /\ phase = "unbound" => held = {}
  /\ phase = "dead" => "netdev" \notin held
  /\ phase = "bound" => at = Len(ProbeOrder) + 1
  /\ phase \in {"probe", "bound"} =>
       /\ Before(at) \ NotTaken(got_msi) \subseteq held
       /\ held \subseteq Before(at) \ NotTaken(got_msi)

Releasing ==
  /\ Listed(todo) /\ Closes(ToSet(todo))
  /\ phase = "release" =>
       /\ (ToSet(todo) \cap ToSet(ProbeOrder)) \ {"msi"} \subseteq held
       /\ held \subseteq ToSet(todo) \cup Left(at)

\* What runs has what it uses.
Backed ==
  /\ isr => MiscLine \in held
  /\ held \cap Irqs # {} => Backing \subseteq held
  /\ evt # "idle" => {"wmi_wq", "back_wq"} \subseteq held
  /\ back # "idle" => "back_wq" \in held

\* The timer is armed only while the interface is up, and the disconnect worker
\* runs only while it is registered or the worker is still to be waited for.
Unregistered ==
  /\ up => "netdev" \in held
  /\ timer => up
  /\ disc # "idle" => "netdev" \in held \/ "cancel_disc" \in ToSet(todo)

\* Before a line is requested no handler or worker of events runs.
Early == at <= 13 => held \cap Irqs = {} /\ ~isr /\ evt = "idle" /\ back = "idle"

ProbeIInv == ProbeTypeOK /\ Taking /\ Releasing /\ Backed /\ Unregistered

\* s does what S names, each once and in turn.
Lists(s, S) == Listed(s) /\ ToSet(s) = S

-----------------------------------------------------------------------------
(* The order.                                                              *)

\* The resources of probe, by their place.
LEMMA OrderIs ==
  /\ Len(ProbeOrder) = 19
  /\ ProbeOrder[1] = "device" /\ ProbeOrder[2] = "region" /\ ProbeOrder[3] = "csr"
  /\ ProbeOrder[4] = "wdev" /\ ProbeOrder[5] = "wiphy" /\ ProbeOrder[6] = "registered"
  /\ ProbeOrder[7] = "wmi_wq" /\ ProbeOrder[8] = "wmi_wq_conn" /\ ProbeOrder[9] = "back_wq"
  /\ ProbeOrder[10] = "roc_wq" /\ ProbeOrder[11] = "ndev" /\ ProbeOrder[12] = "master"
  /\ ProbeOrder[13] = "msi" /\ ProbeOrder[14] = "irq0" /\ ProbeOrder[15] = "irq1"
  /\ ProbeOrder[16] = "irq2" /\ ProbeOrder[17] = "reset" /\ ProbeOrder[18] = "netdev"
  /\ ProbeOrder[19] = "debugfs"
BY DEF ProbeOrder

LEMMA OrderSet ==
  ToSet(ProbeOrder) =
    {"device", "region", "csr", "wdev", "wiphy", "registered", "wmi_wq", "wmi_wq_conn",
     "back_wq", "roc_wq", "ndev", "master", "msi", "irq0", "irq1", "irq2", "reset", "netdev",
     "debugfs"}
<1>1. DOMAIN ProbeOrder = 1..19
  BY DEF ProbeOrder
<1> QED
  BY <1>1, OrderIs DEF ToSet

\* The turn of each, and that it is a number.
LEMMA Turns ==
  /\ Turn("irq0") = 1 /\ Turn("irq1") = 1 /\ Turn("irq2") = 1 /\ Turn("debugfs") = 1
  /\ Turn("master") = 1 /\ Turn("disable_irq") = 1 /\ Turn("msi") = 1
  /\ Turn("netdev") = 2 /\ Turn("ndev") = 3 /\ Turn("cancel_disc") = 4
  /\ Turn("disconnect") = 5 /\ Turn("flush") = 5 /\ Turn("roc_wq") = 5
  /\ Turn("wmi_wq_conn") = 5 /\ Turn("wmi_wq") = 6 /\ Turn("back_wq") = 7
  /\ Turn("registered") = 8 /\ Turn("wiphy") = 8 /\ Turn("wdev") = 8
  /\ Turn("csr") = 9 /\ Turn("region") = 10 /\ Turn("device") = 10
BY DEF Turn, Irqs

LEMMA TurnType == \A x : Turn(x) \in 0..10
BY DEF Turn, Irqs

\* The members of a sequence.
LEMMA ToSetIs ==
  ASSUME NEW S, NEW s \in Seq(S)
  PROVE  /\ ToSet(s) = {s[i] : i \in 1..Len(s)}
         /\ ToSet(s) \subseteq S
BY DEF ToSet

\* Two lists in one, when nothing of the second must come before anything of
\* the first: how the functions that give back are put together.
LEMMA Joined ==
  ASSUME NEW s, NEW S, NEW t, NEW T, Lists(s, S), Lists(t, T),
         \A x \in S, y \in T : x # y /\ Turn(x) <= Turn(y)
  PROVE  Lists(s \o t, S \cup T)
<1> DEFINE u == s \o t
<1>1. s \in Seq(Name) /\ t \in Seq(Name)
  BY DEF Lists, Listed
<1>2. /\ u \in Seq(Name) /\ Len(u) = Len(s) + Len(t)
      /\ Len(s) \in Nat /\ Len(t) \in Nat
      /\ \A i \in 1..Len(s) : u[i] = s[i]
      /\ \A i \in (Len(s) + 1)..Len(u) : u[i] = t[i - Len(s)]
  BY <1>1
<1>3. /\ S = {s[i] : i \in 1..Len(s)} /\ T = {t[i] : i \in 1..Len(t)}
      /\ ToSet(u) = {u[i] : i \in 1..Len(u)}
  <2>1. ToSet(s) = {s[i] : i \in 1..Len(s)}
    BY <1>1, ToSetIs
  <2>2. ToSet(t) = {t[i] : i \in 1..Len(t)}
    BY <1>1, ToSetIs
  <2>3. ToSet(u) = {u[i] : i \in 1..Len(u)}
    BY ONLY <1>2, ToSetIs
  <2> QED
    BY <2>1, <2>2, <2>3 DEF Lists
<1>4. ToSet(u) = S \cup T
  <2>1. ASSUME NEW x \in ToSet(u) PROVE x \in S \cup T
    <3>1. PICK i \in 1..Len(u) : x = u[i]
      BY <1>3
    <3>2. CASE i <= Len(s)
      BY <3>1, <3>2, <1>2, <1>3
    <3>3. CASE i > Len(s)
      <4>1. i \in (Len(s) + 1)..Len(u) /\ i - Len(s) \in 1..Len(t)
        BY <3>3, <1>2
      <4> QED
        BY <4>1, <3>1, <1>2, <1>3
    <3> QED
      BY <3>2, <3>3, <1>2
  <2>2. ASSUME NEW x \in S PROVE x \in ToSet(u)
    <3>1. PICK i \in 1..Len(s) : x = s[i]
      BY <1>3
    <3>2. i \in 1..Len(u) /\ u[i] = x
      BY <3>1, <1>2
    <3> QED
      BY <3>2, <1>3
  <2>3. ASSUME NEW x \in T PROVE x \in ToSet(u)
    <3>1. PICK i \in 1..Len(t) : x = t[i]
      BY <1>3
    <3>2. Len(s) + i \in (Len(s) + 1)..Len(u) /\ (Len(s) + i) - Len(s) = i
      BY <1>2
    <3>3. u[Len(s) + i] = x
      BY <3>1, <3>2, <1>2
    <3>4. Len(s) + i \in 1..Len(u)
      BY <1>2
    <3> QED
      BY <3>3, <3>4, <1>3
  <2> QED
    BY <2>1, <2>2, <2>3
<1>5. ASSUME NEW i \in 1..Len(u), NEW j \in 1..Len(u), i < j
      PROVE  u[i] # u[j] /\ Turn(u[i]) <= Turn(u[j])
  <2>1. CASE j <= Len(s)
    <3>1. i \in 1..Len(s) /\ j \in 1..Len(s)
      BY <2>1, <1>5, <1>2
    <3>2. s[i] # s[j] /\ Turn(s[i]) <= Turn(s[j])
      BY <3>1, <1>5 DEF Lists, Listed
    <3> QED
      BY <3>1, <3>2, <1>2
  <2>2. CASE i > Len(s)
    <3> DEFINE k == i - Len(s)
               l == j - Len(s)
    <3>1. /\ k \in 1..Len(t) /\ l \in 1..Len(t) /\ k < l
          /\ i \in (Len(s) + 1)..Len(u) /\ j \in (Len(s) + 1)..Len(u)
      BY <2>2, <1>5, <1>2
    <3>2. t[k] # t[l] /\ Turn(t[k]) <= Turn(t[l])
      BY <3>1 DEF Lists, Listed
    <3> QED
      BY <3>1, <3>2, <1>2
  <2>3. CASE i <= Len(s) /\ j > Len(s)
    <3>1. i \in 1..Len(s) /\ j \in (Len(s) + 1)..Len(u) /\ j - Len(s) \in 1..Len(t)
      BY <2>3, <1>2
    <3>2. u[i] \in S /\ u[j] \in T
      BY <3>1, <1>2, <1>3
    <3> QED
      BY <3>2
  <2> QED
    BY <2>1, <2>2, <2>3, <1>2
<1> QED
  BY <1>2, <1>4, <1>5 DEF Lists, Listed

\* The parts that the roll-backs share.
LEMMA Pieces ==
  /\ Lists(<<>>, {})
  /\ Lists(undo_region, {"region", "device"})
  /\ Lists(wil_wdev_free, {"registered", "wiphy", "wdev"})
  /\ Lists(<<"csr">>, {"csr"})
  /\ Lists(<<"ndev">>, {"ndev"})
  /\ Lists(wil_priv_deinit, {"cancel_disc", "disconnect", "flush", "roc_wq", "wmi_wq_conn", "wmi_wq", "back_wq"})
<1> USE Turns, OrderSet DEF Lists, Listed, ToSet, Name, Deeds
<1>1. Lists(<<>>, {})
  OBVIOUS
<1>2. Lists(undo_region, {"region", "device"})
  BY DEF undo_region
<1>3. Lists(wil_wdev_free, {"registered", "wiphy", "wdev"})
  BY DEF wil_wdev_free
<1>4. Lists(<<"csr">>, {"csr"})
  OBVIOUS
<1>5. Lists(<<"ndev">>, {"ndev"})
  OBVIOUS
<1>6. Lists(wil_priv_deinit, {"cancel_disc", "disconnect", "flush", "roc_wq", "wmi_wq_conn", "wmi_wq", "back_wq"})
  BY DEF wil_priv_deinit
<1> QED
  BY ONLY <1>1, <1>2, <1>3, <1>4, <1>5, <1>6

-----------------------------------------------------------------------------
(* What the functions that give back do.                                   *)

Csr == {"csr", "region", "device"}
Wdev == {"registered", "wiphy", "wdev"}
Deinit == {"cancel_disc", "disconnect", "flush", "roc_wq", "wmi_wq_conn", "wmi_wq", "back_wq"}

\* What each function lists, from the last of pcie_bus.c upwards.
LEMMA UndoCsrLists == Lists(undo_csr, Csr)
<1>1. \A x \in {"csr"}, y \in {"region", "device"} : x # y /\ Turn(x) <= Turn(y)
  BY Turns
<1>2. Csr = {"csr"} \cup {"region", "device"}
  BY DEF Csr
<1> QED
  BY <1>1, <1>2, Pieces, Joined DEF undo_csr

LEMMA DeinitTurns == \A x \in Deinit, y \in Wdev : x # y /\ Turn(x) <= Turn(y)
BY Turns DEF Deinit, Wdev

LEMMA FreeTurns == \A x \in {"ndev"} \cup Deinit \cup Wdev, y \in Csr : x # y /\ Turn(x) <= Turn(y)
BY Turns DEF Deinit, Wdev, Csr

LEMMA DeinitLists == Lists(wil_priv_deinit \o wil_wdev_free, Deinit \cup Wdev)
<1>1. Lists(wil_priv_deinit, Deinit) /\ Lists(wil_wdev_free, Wdev)
  BY Pieces DEF Deinit, Wdev
<1> QED
  BY <1>1, DeinitTurns, Joined

LEMMA FreeLists == Lists(wil_if_free, {"ndev"} \cup Deinit \cup Wdev)
<1>1. Lists(wil_priv_deinit, Deinit) /\ Lists(wil_wdev_free, Wdev) /\ Lists(<<"ndev">>, {"ndev"})
  BY Pieces DEF Deinit, Wdev
<1>2. \A x \in {"ndev"}, y \in Deinit : x # y /\ Turn(x) <= Turn(y)
  BY Turns DEF Deinit
<1>3. Lists(<<"ndev">> \o wil_priv_deinit, {"ndev"} \cup Deinit)
  BY <1>1, <1>2, Joined
<1>4. \A x \in {"ndev"} \cup Deinit, y \in Wdev : x # y /\ Turn(x) <= Turn(y)
  BY Turns DEF Deinit, Wdev
<1> QED
  BY <1>1, <1>3, <1>4, Joined DEF wil_if_free

LEMMA FreeCsrLists == Lists(wil_if_free \o undo_csr, ({"ndev"} \cup Deinit \cup Wdev) \cup Csr)
BY FreeLists, UndoCsrLists, FreeTurns, Joined

\* The lines, by the number of MSIs.
LinesOf(n) == {"disable_irq", "irq0"} \cup (IF n = 3 THEN {"irq1", "irq2"} ELSE {})

\* wil6210_fini_irq gives back one line or three.
LEMMA FiniLists ==
  ASSUME NEW n
  PROVE  Lists(wil6210_fini_irq(n), LinesOf(n))
<1> USE Turns, OrderSet DEF Lists, Listed, ToSet, Name, Deeds
<1>1. Lists(<<"disable_irq", "irq0">>, {"disable_irq", "irq0"})
  OBVIOUS
<1>2. Lists(<<"irq1", "irq2">>, {"irq1", "irq2"})
  OBVIOUS
<1>3. Lists(<<>>, {})
  OBVIOUS
<1>4. \A x \in {"disable_irq", "irq0"}, y \in {"irq1", "irq2"} : x # y /\ Turn(x) <= Turn(y)
  OBVIOUS
<1>5. CASE n = 3
  BY ONLY <1>1, <1>2, <1>4, <1>5, Joined DEF wil6210_fini_irq, LinesOf
<1>6. CASE n # 3
  BY ONLY <1>1, <1>3, <1>6, Joined DEF wil6210_fini_irq, LinesOf
<1> QED
  BY <1>5, <1>6

\* The single things in wil_if_pcie_disable, its roll-back and wil_pcie_remove.
LEMMA Singles ==
  /\ Lists(<<"master">>, {"master"}) /\ Lists(<<"msi">>, {"msi"})
  /\ Lists(<<"debugfs">>, {"debugfs"}) /\ Lists(<<"netdev">>, {"netdev"})
  /\ Lists(<<"msi", "master">>, {"msi", "master"})
BY Turns, OrderSet DEF Lists, Listed, ToSet, Name, Deeds

\* wil_if_pcie_disable.
LEMMA DisableLists ==
  ASSUME NEW n
  PROVE  Lists(wil_if_pcie_disable(n), {"master"} \cup LinesOf(n) \cup {"msi"})
<1>1. \A x \in {"master"}, y \in LinesOf(n) : x # y /\ Turn(x) <= Turn(y)
  BY Turns DEF LinesOf
<1>2. Lists(<<"master">> \o wil6210_fini_irq(n), {"master"} \cup LinesOf(n))
  BY <1>1, Singles, FiniLists, Joined
<1>3. \A x \in {"master"} \cup LinesOf(n), y \in {"msi"} : x # y /\ Turn(x) <= Turn(y)
  BY Turns DEF LinesOf
<1> QED
  BY <1>2, <1>3, Singles, Joined DEF wil_if_pcie_disable


-----------------------------------------------------------------------------
(* What has been taken.                                                    *)

\* What has been taken, at each place where probe may be refused.
LEMMA BeforeIs ==
  /\ Before(1) = {}
  /\ Before(2) = {"device"}
  /\ Before(3) = {"device", "region"}
  /\ Before(4) = Csr
  /\ Before(5) = Csr \cup {"wdev"}
  /\ Before(6) = Csr \cup {"wdev", "wiphy"}
  /\ Before(7) = Csr \cup Wdev
  /\ Before(8) = Csr \cup Wdev \cup {"wmi_wq"}
  /\ Before(9) = Csr \cup Wdev \cup {"wmi_wq", "wmi_wq_conn"}
  /\ Before(10) = Csr \cup Wdev \cup {"wmi_wq", "wmi_wq_conn", "back_wq"}
  /\ Before(11) = Csr \cup Wdev \cup {"wmi_wq", "wmi_wq_conn", "back_wq", "roc_wq"}
  /\ Before(14) = Csr \cup Wdev \cup {"wmi_wq", "wmi_wq_conn", "back_wq", "roc_wq", "ndev", "master", "msi"}
  /\ Before(15) = Before(14) \cup {"irq0"}
  /\ Before(16) = Before(14) \cup {"irq0", "irq1"}
  /\ Before(17) = Before(14) \cup {"irq0", "irq1", "irq2"}
  /\ Before(18) = Before(14) \cup {"irq0", "irq1", "irq2", "reset"}
  /\ Before(20) = ToSet(ProbeOrder)
BY OrderIs, OrderSet DEF Before, Csr, Wdev

\* Probe takes one resource after the other, and none twice.
LEMMA BeforeNext ==
  ASSUME NEW k \in 1..19
  PROVE  Before(k + 1) = Before(k) \cup {ProbeOrder[k]} /\ Before(k) \subseteq ToSet(ProbeOrder)
<1>1. DOMAIN ProbeOrder = 1..19
  BY DEF ProbeOrder
<1> QED
  BY <1>1 DEF Before, ToSet

LEMMA NotBefore ==
  ASSUME NEW k \in 1..19
  PROVE  ProbeOrder[k] \notin Before(k)
<1>1. \A i, j \in 1..19 : i < j => ProbeOrder[i] # ProbeOrder[j]
  BY OrderIs
<1> QED
  BY <1>1 DEF Before

\* s gives back what had been taken before the k-th resource, with n MSIs, but
\* for what is left.
Undoes(s, k, n) ==
  /\ Listed(s) /\ Closes(ToSet(s))
  /\ (ToSet(s) \cap ToSet(ProbeOrder)) \ {"msi"} \subseteq Before(k) \ NotTaken(n)
  /\ Before(k) \ NotTaken(n) \subseteq ToSet(s) \cup Left(k)

\* The cases of Rollback.
LEMMA RollbackIs ==
  ASSUME NEW n
  PROVE  /\ Rollback("device", n) = <<>>
         /\ Rollback("region", n) = <<"device">>
         /\ Rollback("csr", n) = undo_region
         /\ \A r \in InCfg : Rollback(r, n) = wil_cfg80211_init(r) \o undo_csr
         /\ \A r \in InPriv : Rollback(r, n) = (wil_priv_init(r) \o wil_wdev_free) \o undo_csr
         /\ Rollback("ndev", n) = (wil_priv_deinit \o wil_wdev_free) \o undo_csr
         /\ \A r \in InEnable :
              Rollback(r, n) = (wil_if_pcie_enable(r, n) \o wil_if_free) \o undo_csr
         /\ Rollback("netdev", n) = (wil_if_pcie_disable(n) \o wil_if_free) \o undo_csr
<1>1. Rollback("device", n) = <<>>
  BY DEF Rollback, InCfg, InPriv, InEnable
<1>2. Rollback("region", n) = <<"device">>
  BY DEF Rollback, InCfg, InPriv, InEnable
<1>3. Rollback("csr", n) = undo_region
  BY DEF Rollback, InCfg, InPriv, InEnable
<1>4. ASSUME NEW r \in InCfg PROVE Rollback(r, n) = wil_cfg80211_init(r) \o undo_csr
  <2>1. wil_if_alloc(r) = wil_cfg80211_init(r)
    BY DEF wil_if_alloc, InCfg, InPriv
  <2> QED
    BY <2>1 DEF Rollback, InCfg, InPriv, InEnable
<1>5. ASSUME NEW r \in InPriv
      PROVE  Rollback(r, n) = (wil_priv_init(r) \o wil_wdev_free) \o undo_csr
  <2>1. wil_if_alloc(r) = wil_priv_init(r) \o wil_wdev_free
    BY DEF wil_if_alloc, InCfg, InPriv
  <2> QED
    BY <2>1 DEF Rollback, InCfg, InPriv, InEnable
<1>6. Rollback("ndev", n) = (wil_priv_deinit \o wil_wdev_free) \o undo_csr
  BY DEF Rollback, wil_if_alloc, InCfg, InPriv, InEnable
<1>7. ASSUME NEW r \in InEnable
      PROVE  Rollback(r, n) = (wil_if_pcie_enable(r, n) \o wil_if_free) \o undo_csr
  BY DEF Rollback, InCfg, InPriv, InEnable
<1>8. Rollback("netdev", n) = (wil_if_pcie_disable(n) \o wil_if_free) \o undo_csr
  BY DEF Rollback, InCfg, InPriv, InEnable
<1> QED
  BY <1>1, <1>2, <1>3, <1>4, <1>5, <1>6, <1>7, <1>8

\* What is to be shown of a roll-back.
LEMMA SoUndoes ==
  ASSUME NEW s, NEW S, NEW k, NEW n, Lists(s, S), Closes(S),
         (S \cap ToSet(ProbeOrder)) \ {"msi"} \subseteq Before(k) \ NotTaken(n),
         Before(k) \ NotTaken(n) \subseteq S \cup Left(k)
  PROVE  Undoes(s, k, n)
BY DEF Undoes, Lists

\* Before any MSI is asked for.
LEMMA SoUndoesEarly ==
  ASSUME NEW s, NEW S, NEW k, NEW n, Lists(s, S), Closes(S),
         S \cap ToSet(ProbeOrder) \subseteq Before(k), Before(k) \subseteq S \cup Left(k),
         Before(k) \cap {"reset", "msi", "irq1", "irq2"} = {}
  PROVE  Undoes(s, k, n)
<1>1. Before(k) \ NotTaken(n) = Before(k)
  BY DEF NotTaken
<1> QED
  BY <1>1, SoUndoes

\* The roll-backs of wil_pcie_probe and wil_cfg80211_init.
LEMMA EarlyUndoes ==
  ASSUME NEW k \in 1..6, NEW n
  PROVE  Undoes(Rollback(ProbeOrder[k], n), k, n)
<1>1. CASE k = 1
  <2>1. Rollback("device", n) = <<>>
    BY RollbackIs
  <2>7. Closes({}) /\ Before(k) \cap {"reset", "msi", "irq1", "irq2"} = {}
    BY <1>1, BeforeIs DEF Closes, Csr, Wdev, Deinit
  <2>8. Lists(Rollback(ProbeOrder[k], n), {})
    BY <1>1, OrderIs, <2>1, Pieces
  <2>9. {} \cap ToSet(ProbeOrder) \subseteq Before(k) /\ Before(k) \subseteq {} \cup Left(k)
    BY <1>1, BeforeIs, OrderSet DEF Csr, Wdev, Deinit
  <2> QED
    BY <2>7, <2>8, <2>9, SoUndoesEarly
<1>2. CASE k = 2
  <2>1. Rollback("region", n) = <<"device">>
    BY RollbackIs
  <2>2. Lists(<<"device">>, {"device"})
    BY Turns, OrderSet DEF Lists, Listed, ToSet, Name
  <2>7. Closes({"device"}) /\ Before(k) \cap {"reset", "msi", "irq1", "irq2"} = {}
    BY <1>2, BeforeIs DEF Closes, Csr, Wdev, Deinit
  <2>8. Lists(Rollback(ProbeOrder[k], n), {"device"})
    BY <1>2, OrderIs, <2>1, <2>2
  <2>9. {"device"} \cap ToSet(ProbeOrder) \subseteq Before(k) /\ Before(k) \subseteq {"device"} \cup Left(k)
    BY <1>2, BeforeIs, OrderSet DEF Csr, Wdev, Deinit
  <2> QED
    BY <2>7, <2>8, <2>9, SoUndoesEarly
<1>3. CASE k = 3
  <2>1. Rollback("csr", n) = undo_region
    BY RollbackIs
  <2>7. Closes({"region", "device"}) /\ Before(k) \cap {"reset", "msi", "irq1", "irq2"} = {}
    BY <1>3, BeforeIs DEF Closes, Csr, Wdev, Deinit
  <2>8. Lists(Rollback(ProbeOrder[k], n), {"region", "device"})
    BY <1>3, OrderIs, <2>1, Pieces
  <2>9. {"region", "device"} \cap ToSet(ProbeOrder) \subseteq Before(k) /\ Before(k) \subseteq {"region", "device"} \cup Left(k)
    BY <1>3, BeforeIs, OrderSet DEF Csr, Wdev, Deinit
  <2> QED
    BY <2>7, <2>8, <2>9, SoUndoesEarly
<1>4. CASE k = 4
  <2>1. Rollback("wdev", n) = <<>> \o undo_csr
    BY RollbackIs DEF wil_cfg80211_init, InCfg
  <2>2. Lists(<<>> \o undo_csr, {} \cup Csr)
    BY Pieces, UndoCsrLists, Joined
  <2>7. Closes(({} \cup Csr)) /\ Before(k) \cap {"reset", "msi", "irq1", "irq2"} = {}
    BY <1>4, BeforeIs DEF Closes, Csr, Wdev, Deinit
  <2>8. Lists(Rollback(ProbeOrder[k], n), ({} \cup Csr))
    BY <1>4, OrderIs, <2>1, <2>2
  <2>9. ({} \cup Csr) \cap ToSet(ProbeOrder) \subseteq Before(k) /\ Before(k) \subseteq ({} \cup Csr) \cup Left(k)
    BY <1>4, BeforeIs, OrderSet DEF Csr, Wdev, Deinit
  <2> QED
    BY <2>7, <2>8, <2>9, SoUndoesEarly
<1>5. CASE k = 5
  <2>1. Rollback("wiphy", n) = <<"wdev">> \o undo_csr
    BY RollbackIs DEF wil_cfg80211_init, InCfg
  <2>2. Lists(<<"wdev">>, {"wdev"})
    BY Turns, OrderSet DEF Lists, Listed, ToSet, Name
  <2>3. \A x \in {"wdev"}, y \in Csr : x # y /\ Turn(x) <= Turn(y)
    BY Turns DEF Csr
  <2>4. Lists(<<"wdev">> \o undo_csr, {"wdev"} \cup Csr)
    BY <2>2, <2>3, UndoCsrLists, Joined
  <2>7. Closes(({"wdev"} \cup Csr)) /\ Before(k) \cap {"reset", "msi", "irq1", "irq2"} = {}
    BY <1>5, BeforeIs DEF Closes, Csr, Wdev, Deinit
  <2>8. Lists(Rollback(ProbeOrder[k], n), ({"wdev"} \cup Csr))
    BY <1>5, OrderIs, <2>1, <2>4
  <2>9. ({"wdev"} \cup Csr) \cap ToSet(ProbeOrder) \subseteq Before(k) /\ Before(k) \subseteq ({"wdev"} \cup Csr) \cup Left(k)
    BY <1>5, BeforeIs, OrderSet DEF Csr, Wdev, Deinit
  <2> QED
    BY <2>7, <2>8, <2>9, SoUndoesEarly
<1>6. CASE k = 6
  <2>1. Rollback("registered", n) = <<"wiphy", "wdev">> \o undo_csr
    BY RollbackIs DEF wil_cfg80211_init, InCfg
  <2>2. Lists(<<"wiphy", "wdev">>, {"wiphy", "wdev"})
    BY Turns, OrderSet DEF Lists, Listed, ToSet, Name
  <2>3. \A x \in {"wiphy", "wdev"}, y \in Csr : x # y /\ Turn(x) <= Turn(y)
    BY Turns DEF Csr
  <2>4. Lists(<<"wiphy", "wdev">> \o undo_csr, {"wiphy", "wdev"} \cup Csr)
    BY <2>2, <2>3, UndoCsrLists, Joined
  <2>7. Closes(({"wiphy", "wdev"} \cup Csr)) /\ Before(k) \cap {"reset", "msi", "irq1", "irq2"} = {}
    BY <1>6, BeforeIs DEF Closes, Csr, Wdev, Deinit
  <2>8. Lists(Rollback(ProbeOrder[k], n), ({"wiphy", "wdev"} \cup Csr))
    BY <1>6, OrderIs, <2>1, <2>4
  <2>9. ({"wiphy", "wdev"} \cup Csr) \cap ToSet(ProbeOrder) \subseteq Before(k) /\ Before(k) \subseteq ({"wiphy", "wdev"} \cup Csr) \cup Left(k)
    BY <1>6, BeforeIs, OrderSet DEF Csr, Wdev, Deinit
  <2> QED
    BY <2>7, <2>8, <2>9, SoUndoesEarly
<1> QED
  BY <1>1, <1>2, <1>3, <1>4, <1>5, <1>6

\* The order of a roll-back: what comes first, then the wireless device, the
\* registers and the device.
LEMMA ThenWdev ==
  ASSUME NEW s, NEW S, Lists(s, S), S \subseteq {"wmi_wq", "wmi_wq_conn"}
  PROVE  Lists((s \o wil_wdev_free) \o undo_csr, S \cup Wdev \cup Csr)
<1>1. Lists(wil_wdev_free, Wdev)
  BY Pieces DEF Wdev
<1>2. \A x \in S, y \in Wdev : x # y /\ Turn(x) <= Turn(y)
  BY Turns DEF Wdev
<1>3. \A x \in S \cup Wdev, y \in Csr : x # y /\ Turn(x) <= Turn(y)
  BY Turns DEF Wdev, Csr
<1>4. Lists(s \o wil_wdev_free, S \cup Wdev)
  BY <1>1, <1>2, Joined
<1> QED
  BY <1>3, <1>4, UndoCsrLists, Joined

\* The roll-backs of wil_priv_init and wil_if_alloc.  That of roc_wq leaves
\* back_wq.
LEMMA PrivUndoes ==
  ASSUME NEW k \in 7..11, NEW n, ProbeOrder[k] \in Fails
  PROVE  Undoes(Rollback(ProbeOrder[k], n), k, n)
<1> DEFINE U(r) == (wil_priv_init(r) \o wil_wdev_free) \o undo_csr
<1>1. \A r \in InPriv : Rollback(r, n) = U(r)
  BY RollbackIs
<1>2. Lists(<<"wmi_wq">>, {"wmi_wq"}) /\ Lists(<<"wmi_wq_conn", "wmi_wq">>, {"wmi_wq", "wmi_wq_conn"})
  BY Turns, OrderSet DEF Lists, Listed, ToSet, Name
<1>3. CASE k = 7
  <2>1. Rollback("wmi_wq", n) = (<<>> \o wil_wdev_free) \o undo_csr
    BY <1>1 DEF wil_priv_init, InPriv
  <2>2. Lists((<<>> \o wil_wdev_free) \o undo_csr, {} \cup Wdev \cup Csr)
    BY Pieces, ThenWdev
  <2>7. Closes(({} \cup Wdev \cup Csr)) /\ Before(k) \cap {"reset", "msi", "irq1", "irq2"} = {}
    BY <1>3, BeforeIs DEF Closes, Csr, Wdev, Deinit
  <2>8. Lists(Rollback(ProbeOrder[k], n), ({} \cup Wdev \cup Csr))
    BY <1>3, OrderIs, <2>1, <2>2
  <2>9. ({} \cup Wdev \cup Csr) \cap ToSet(ProbeOrder) \subseteq Before(k) /\ Before(k) \subseteq ({} \cup Wdev \cup Csr) \cup Left(k)
    BY <1>3, BeforeIs, OrderSet DEF Csr, Wdev, Deinit
  <2> QED
    BY <2>7, <2>8, <2>9, SoUndoesEarly
<1>4. CASE k = 8
  <2>1. Rollback("wmi_wq_conn", n) = (<<"wmi_wq">> \o wil_wdev_free) \o undo_csr
    BY <1>1 DEF wil_priv_init, InPriv
  <2>2. Lists((<<"wmi_wq">> \o wil_wdev_free) \o undo_csr, {"wmi_wq"} \cup Wdev \cup Csr)
    BY <1>2, ThenWdev
  <2>7. Closes(({"wmi_wq"} \cup Wdev \cup Csr)) /\ Before(k) \cap {"reset", "msi", "irq1", "irq2"} = {}
    BY <1>4, BeforeIs DEF Closes, Csr, Wdev, Deinit
  <2>8. Lists(Rollback(ProbeOrder[k], n), ({"wmi_wq"} \cup Wdev \cup Csr))
    BY <1>4, OrderIs, <2>1, <2>2
  <2>9. ({"wmi_wq"} \cup Wdev \cup Csr) \cap ToSet(ProbeOrder) \subseteq Before(k) /\ Before(k) \subseteq ({"wmi_wq"} \cup Wdev \cup Csr) \cup Left(k)
    BY <1>4, BeforeIs, OrderSet DEF Csr, Wdev, Deinit
  <2> QED
    BY <2>7, <2>8, <2>9, SoUndoesEarly
<1> DEFINE V == (<<"wmi_wq_conn", "wmi_wq">> \o wil_wdev_free) \o undo_csr
<1>5. Lists(V, {"wmi_wq", "wmi_wq_conn"} \cup Wdev \cup Csr)
  BY <1>2, ThenWdev
<1>6. Rollback("back_wq", n) = V /\ Rollback("roc_wq", n) = V
  BY <1>1 DEF wil_priv_init, InPriv
<1>7. CASE k = 9
  <2>7. Closes(({"wmi_wq", "wmi_wq_conn"} \cup Wdev \cup Csr)) /\ Before(k) \cap {"reset", "msi", "irq1", "irq2"} = {}
    BY <1>7, BeforeIs DEF Closes, Csr, Wdev, Deinit
  <2>8. Lists(Rollback(ProbeOrder[k], n), ({"wmi_wq", "wmi_wq_conn"} \cup Wdev \cup Csr))
    BY <1>7, OrderIs, <1>5, <1>6
  <2>9. ({"wmi_wq", "wmi_wq_conn"} \cup Wdev \cup Csr) \cap ToSet(ProbeOrder) \subseteq Before(k) /\ Before(k) \subseteq ({"wmi_wq", "wmi_wq_conn"} \cup Wdev \cup Csr) \cup Left(k)
    BY <1>7, BeforeIs, OrderSet DEF Csr, Wdev, Deinit
  <2> QED
    BY <2>7, <2>8, <2>9, SoUndoesEarly
<1>8. CASE k = 10
  <2>1. Left(k) = {"back_wq"}
    BY <1>8, OrderIs DEF Left
  <2>7. Closes(({"wmi_wq", "wmi_wq_conn"} \cup Wdev \cup Csr)) /\ Before(k) \cap {"reset", "msi", "irq1", "irq2"} = {}
    BY <1>8, BeforeIs DEF Closes, Csr, Wdev, Deinit
  <2>8. Lists(Rollback(ProbeOrder[k], n), ({"wmi_wq", "wmi_wq_conn"} \cup Wdev \cup Csr))
    BY <1>8, OrderIs, <1>5, <1>6
  <2>9. ({"wmi_wq", "wmi_wq_conn"} \cup Wdev \cup Csr) \cap ToSet(ProbeOrder) \subseteq Before(k) /\ Before(k) \subseteq ({"wmi_wq", "wmi_wq_conn"} \cup Wdev \cup Csr) \cup Left(k)
    BY <1>8, BeforeIs, OrderSet, <2>1 DEF Csr, Wdev, Deinit
  <2> QED
    BY <2>7, <2>8, <2>9, SoUndoesEarly
<1>9. CASE k = 11
  <2>1. Rollback("ndev", n) = (wil_priv_deinit \o wil_wdev_free) \o undo_csr
    BY RollbackIs
  <2>2. \A x \in Deinit \cup Wdev, y \in Csr : x # y /\ Turn(x) <= Turn(y)
    BY FreeTurns
  <2>3. Lists((wil_priv_deinit \o wil_wdev_free) \o undo_csr, (Deinit \cup Wdev) \cup Csr)
    BY <2>2, DeinitLists, UndoCsrLists, Joined
  <2>7. Closes(((Deinit \cup Wdev) \cup Csr)) /\ Before(k) \cap {"reset", "msi", "irq1", "irq2"} = {}
    BY <1>9, BeforeIs DEF Closes, Csr, Wdev, Deinit
  <2>8. Lists(Rollback(ProbeOrder[k], n), ((Deinit \cup Wdev) \cup Csr))
    BY <1>9, OrderIs, <2>1, <2>3
  <2>9. ((Deinit \cup Wdev) \cup Csr) \cap ToSet(ProbeOrder) \subseteq Before(k) /\ Before(k) \subseteq ((Deinit \cup Wdev) \cup Csr) \cup Left(k)
    BY <1>9, BeforeIs, OrderSet DEF Csr, Wdev, Deinit
  <2> QED
    BY <2>7, <2>8, <2>9, SoUndoesEarly
<1> QED
  BY <1>3, <1>4, <1>7, <1>8, <1>9

Free == {"ndev"} \cup Deinit \cup Wdev

LEMMA FreeIs ==
  Free \cup Csr = {"ndev", "cancel_disc", "disconnect", "flush", "roc_wq", "wmi_wq_conn", "wmi_wq",
                   "back_wq", "registered", "wiphy", "wdev", "csr", "region", "device"}
BY DEF Free, Deinit, Wdev, Csr

\* The lines, then the network device, the private memory and the registers.
LEMMA ThenFree ==
  ASSUME NEW s, NEW S, Lists(s, S),
         S \subseteq Irqs \cup {"master", "disable_irq", "msi", "debugfs", "netdev"}
  PROVE  Lists((s \o wil_if_free) \o undo_csr, S \cup Free \cup Csr)
<1>1. \A x \in S, y \in Free : x # y /\ Turn(x) <= Turn(y)
  BY Turns DEF Free, Deinit, Wdev, Irqs
<1>2. Lists(s \o wil_if_free, S \cup Free)
  BY <1>1, FreeLists, Joined DEF Free
<1>3. \A x \in S, y \in Csr : x # y /\ Turn(x) <= Turn(y)
  BY Turns DEF Csr, Irqs
<1>4. \A x \in Free, y \in Csr : x # y /\ Turn(x) <= Turn(y)
  BY FreeTurns DEF Free
<1>5. \A x \in S \cup Free, y \in Csr : x # y /\ Turn(x) <= Turn(y)
  BY <1>3, <1>4
<1> QED
  BY <1>2, <1>5, UndoCsrLists, Joined

\* The roll-backs of wil_if_pcie_enable; they leave the MSIs.
LEMMA IrqUndoes ==
  ASSUME NEW k \in 14..16, NEW n \in {0, 1, 3}, ProbeOrder[k] \in Fails, k # 14 => n = 3
  PROVE  Undoes(Rollback(ProbeOrder[k], n), k, n)
<1> DEFINE I == IF k = 14 THEN {} ELSE IF k = 15 THEN {"irq0"} ELSE {"irq1", "irq0"}
           r == ProbeOrder[k]
           S == (I \cup {"master"}) \cup Free \cup Csr
<1>1. Rollback(r, n) = ((wil6210_request_3msi(r) \o <<"master">>) \o wil_if_free) \o undo_csr
  <2>1. r \in InEnable /\ r # "reset"
    BY OrderIs DEF InEnable
  <2>2. wil_if_pcie_enable(r, n) = wil6210_request_3msi(r) \o <<"master">>
    BY ONLY <2>1 DEF wil_if_pcie_enable
  <2> HIDE DEF r
  <2> QED
    BY ONLY <2>1, <2>2, RollbackIs
<1>2. Lists(wil6210_request_3msi(r), I)
  <2>1. Lists(<<>>, {}) /\ Lists(<<"irq0">>, {"irq0"}) /\ Lists(<<"irq1", "irq0">>, {"irq1", "irq0"})
    BY Turns, OrderSet DEF Lists, Listed, ToSet, Name
  <2>2. /\ wil6210_request_3msi("irq0") = <<>>
        /\ wil6210_request_3msi("irq1") = <<"irq0">>
        /\ wil6210_request_3msi("irq2") = <<"irq1", "irq0">>
    BY DEF wil6210_request_3msi
  <2>3. k = 14 \/ k = 15 \/ k = 16
    OBVIOUS
  <2> QED
    BY <2>1, <2>2, <2>3, OrderIs
<1>3. Lists(wil6210_request_3msi(r) \o <<"master">>, I \cup {"master"})
  <2>1. \A x \in I, y \in {"master"} : x # y /\ Turn(x) <= Turn(y)
    BY Turns
  <2> HIDE DEF I, r
  <2> QED
    BY <2>1, <1>2, Singles, Joined
<1>4. Lists(Rollback(r, n), S)
  <2>1. I \cup {"master"} \subseteq Irqs \cup {"master", "disable_irq", "msi", "debugfs", "netdev"}
    BY DEF Irqs
  <2> HIDE DEF I, r
  <2> QED
    BY <2>1, <1>1, <1>3, ThenFree
<1>5. Closes(S)
  BY FreeIs DEF Closes
<1>6. Left(k) = {"msi"}
  <2>1. ProbeOrder[k] \in {"irq0", "irq1", "irq2"} /\ ProbeOrder[k] # "roc_wq" /\ k <= 19
    BY OrderIs
  <2> HIDE DEF r
  <2> QED
    BY <2>1, OrderIs DEF Left
<1>7. Before(k) = Before(14) \cup I
  BY BeforeIs
<1>8. Before(14) = Csr \cup Wdev \cup {"wmi_wq", "wmi_wq_conn", "back_wq", "roc_wq", "ndev", "master", "msi"}
  BY BeforeIs
<1>9. (S \cap ToSet(ProbeOrder)) \ {"msi"} \subseteq Before(k) \ NotTaken(n)
  BY <1>7, <1>8, OrderSet DEF Free, Deinit, Wdev, Csr, NotTaken
<1>10. Before(k) \ NotTaken(n) \subseteq S \cup Left(k)
  BY <1>6, <1>7, <1>8 DEF Free, Deinit, Wdev, Csr
<1> HIDE DEF r, S
<1> QED
  BY <1>4, <1>5, <1>9, <1>10, SoUndoes DEF r

\* With every line requested.
LEMMA LateUndoes ==
  ASSUME NEW n \in {0, 1, 3}
  PROVE  /\ Undoes(Rollback("reset", n), 17, n)
         /\ Undoes(Rollback("netdev", n), 18, n)
         /\ Undoes(wil_pcie_remove(n), 20, n)
<1> DEFINE L == LinesOf(n)
           M == ({"master"} \cup L) \cup {"msi"}
           N == ({"debugfs"} \cup M) \cup {"netdev"}
<1>1. L \subseteq Irqs \cup {"disable_irq"}
  BY DEF LinesOf, Irqs
<1>2. Lists(Rollback("reset", n), (L \cup {"msi", "master"}) \cup Free \cup Csr)
  <2>1. Rollback("reset", n) = ((wil6210_fini_irq(n) \o <<"msi", "master">>) \o wil_if_free) \o undo_csr
    BY RollbackIs DEF InEnable, wil_if_pcie_enable
  <2>2. \A x \in L, y \in {"msi", "master"} : x # y /\ Turn(x) <= Turn(y)
    BY <1>1, Turns DEF Irqs
  <2> HIDE DEF L
  <2>3. Lists(wil6210_fini_irq(n), L)
    BY FiniLists DEF L
  <2>4. Lists(wil6210_fini_irq(n) \o <<"msi", "master">>, L \cup {"msi", "master"})
    BY <2>2, <2>3, Singles, Joined
  <2> QED
    BY <2>1, <2>4, <1>1, ThenFree
<1>3. Lists(Rollback("netdev", n), M \cup Free \cup Csr)
  <2>1. Lists(wil_if_pcie_disable(n), M)
    BY DisableLists
  <2>2. M \subseteq Irqs \cup {"master", "disable_irq", "msi", "debugfs", "netdev"}
    BY <1>1
  <2> HIDE DEF M
  <2>3. Lists((wil_if_pcie_disable(n) \o wil_if_free) \o undo_csr, M \cup Free \cup Csr)
    BY <2>1, <2>2, ThenFree
  <2>4. Rollback("netdev", n) = (wil_if_pcie_disable(n) \o wil_if_free) \o undo_csr
    BY RollbackIs
  <2> QED
    BY <2>3, <2>4
<1>4. Lists(wil_pcie_remove(n), N \cup Free \cup Csr)
  <2>1. \A x \in {"debugfs"}, y \in M : x # y /\ Turn(x) <= Turn(y)
    BY <1>1, Turns DEF Irqs
  <2>2. \A x \in {"debugfs"} \cup M, y \in {"netdev"} : x # y /\ Turn(x) <= Turn(y)
    BY <1>1, Turns DEF Irqs
  <2>3. N \subseteq Irqs \cup {"master", "disable_irq", "msi", "debugfs", "netdev"}
    BY <1>1
  <2>4. Lists(wil_if_pcie_disable(n), M)
    BY DisableLists
  <2> HIDE DEF M
  <2>5. Lists(<<"debugfs">> \o wil_if_pcie_disable(n), {"debugfs"} \cup M)
    BY <2>1, <2>4, Singles, Joined
  <2>6. Lists((<<"debugfs">> \o wil_if_pcie_disable(n)) \o <<"netdev">>, N)
    BY <2>2, <2>5, Singles, Joined
  <2> HIDE DEF N
  <2> QED
    BY <2>3, <2>6, ThenFree DEF wil_pcie_remove
<1>5. \A X : Closes(X \cup Free \cup Csr)
  BY FreeIs DEF Closes
<1>6. Before(14) = Csr \cup Wdev \cup {"wmi_wq", "wmi_wq_conn", "back_wq", "roc_wq", "ndev", "master", "msi"}
  BY BeforeIs
<1>7. Undoes(Rollback("reset", n), 17, n)
  <2> DEFINE S == (L \cup {"msi", "master"}) \cup Free \cup Csr
  <2>1. (S \cap ToSet(ProbeOrder)) \ {"msi"} \subseteq Before(17) \ NotTaken(n)
    BY <1>6, BeforeIs, OrderSet DEF Free, Deinit, Wdev, Csr, NotTaken, LinesOf
  <2>2. Before(17) \ NotTaken(n) \subseteq S \cup Left(17)
    BY <1>6, BeforeIs DEF Free, Deinit, Wdev, Csr, NotTaken, LinesOf
  <2> QED
    BY ONLY <2>1, <2>2, <1>2, <1>5, SoUndoes
<1>8. Undoes(Rollback("netdev", n), 18, n)
  <2> DEFINE S == M \cup Free \cup Csr
  <2>1. (S \cap ToSet(ProbeOrder)) \ {"msi"} \subseteq Before(18) \ NotTaken(n)
    BY <1>6, BeforeIs, OrderSet DEF Free, Deinit, Wdev, Csr, NotTaken, LinesOf
  <2>2. Before(18) \ NotTaken(n) \subseteq S \cup Left(18)
    BY <1>6, BeforeIs DEF Free, Deinit, Wdev, Csr, NotTaken, LinesOf
  <2> QED
    BY ONLY <2>1, <2>2, <1>3, <1>5, SoUndoes
<1>9. Undoes(wil_pcie_remove(n), 20, n)
  <2> DEFINE S == N \cup Free \cup Csr
  <2>1. (S \cap ToSet(ProbeOrder)) \ {"msi"} \subseteq Before(20) \ NotTaken(n)
    BY <1>6, BeforeIs, OrderSet DEF Free, Deinit, Wdev, Csr, NotTaken, LinesOf
  <2>2. Before(20) \ NotTaken(n) \subseteq S \cup Left(20)
    BY <1>6, BeforeIs, OrderSet DEF Free, Deinit, Wdev, Csr, NotTaken, LinesOf
  <2> QED
    BY ONLY <2>1, <2>2, <1>4, <1>5, SoUndoes
<1> QED
  BY <1>7, <1>8, <1>9

\* Wherever probe is refused, the roll-back is in turn, gives back only what is
\* held, and leaves at most what is known.
LEMMA RefusedUndoes ==
  ASSUME NEW k \in 1..19, NEW n \in {0, 1, 3}, ProbeOrder[k] \in Fails,
         ProbeOrder[k] \in {"irq1", "irq2"} => n = 3
  PROVE  Undoes(Rollback(ProbeOrder[k], n), k, n)
<1>1. k # 12 /\ k # 13 /\ k # 19
  BY FailsAssumption, OrderIs
<1>2. CASE k \in 1..6
  BY <1>2, EarlyUndoes
<1>3. CASE k \in 7..11
  BY <1>3, PrivUndoes
<1>4. CASE k \in 14..16
  <2>1. k # 14 => n = 3
    BY <1>4, OrderIs
  <2> QED
    BY <2>1, <1>4, IrqUndoes
<1>5. CASE k = 17
  BY <1>5, OrderIs, LateUndoes
<1>6. CASE k = 18
  BY <1>6, OrderIs, LateUndoes
<1> QED
  BY <1>1, <1>2, <1>3, <1>4, <1>5, <1>6

-----------------------------------------------------------------------------
(* One thing is done.                                                      *)

\* The head of a list comes first, and is not in its tail.
LEMMA TailLists ==
  ASSUME NEW s, Listed(s), s # <<>>
  PROVE  /\ Listed(Tail(s))
         /\ ToSet(s) = {Head(s)} \cup ToSet(Tail(s))
         /\ Head(s) \notin ToSet(Tail(s))
         /\ \A y \in ToSet(s) : Turn(Head(s)) <= Turn(y)
<1> DEFINE t == Tail(s)
<1>1. s \in Seq(Name)
  BY DEF Listed
<1>2. /\ t \in Seq(Name) /\ Len(s) \in Nat \ {0} /\ Len(t) = Len(s) - 1
      /\ Head(s) = s[1]
      /\ \A i \in 1..Len(t) : t[i] = s[i + 1]
  BY <1>1
<1>3. /\ ToSet(s) = {s[i] : i \in 1..Len(s)}
      /\ ToSet(t) = {t[i] : i \in 1..Len(t)}
  <2>1. ToSet(s) = {s[i] : i \in 1..Len(s)}
    BY <1>1, ToSetIs
  <2>2. ToSet(t) = {t[i] : i \in 1..Len(t)}
    BY ONLY <1>2, ToSetIs
  <2> QED
    BY ONLY <2>1, <2>2
<1>4. \A i, j \in 1..Len(s) : i < j => s[i] # s[j] /\ Turn(s[i]) <= Turn(s[j])
  BY DEF Listed
<1> HIDE DEF t
<1>5. Listed(t)
  <2>1. ASSUME NEW i \in 1..Len(t), NEW j \in 1..Len(t), i < j
        PROVE  t[i] # t[j] /\ Turn(t[i]) <= Turn(t[j])
    <3>1. i + 1 \in 1..Len(s) /\ j + 1 \in 1..Len(s) /\ i + 1 < j + 1
      BY <2>1, <1>2
    <3> QED
      BY <3>1, <1>2, <1>4
  <2> QED
    BY <2>1, <1>2 DEF Listed
<1>6. ToSet(s) = {Head(s)} \cup ToSet(t)
  <2>1. ASSUME NEW i \in 1..Len(s) PROVE s[i] = Head(s) \/ s[i] \in ToSet(t)
    <3>1. CASE i = 1
      BY <3>1, <1>2
    <3>2. CASE i # 1
      <4>1. i - 1 \in 1..Len(t) /\ t[i - 1] = s[i]
        BY <3>2, <1>2
      <4> QED
        BY <4>1, <1>3
    <3> QED
      BY <3>1, <3>2
  <2>2. ASSUME NEW i \in 1..Len(t) PROVE t[i] \in ToSet(s)
    <3>1. i + 1 \in 1..Len(s)
      BY <1>2
    <3> QED
      BY <3>1, <1>2, <1>3
  <2>3. Head(s) \in ToSet(s)
    BY <1>2, <1>3
  <2> QED
    BY <2>1, <2>2, <2>3, <1>3
<1>7. Head(s) \notin ToSet(t)
  <2>1. ASSUME NEW i \in 1..Len(t) PROVE t[i] # Head(s)
    <3>1. i + 1 \in 1..Len(s) /\ 1 \in 1..Len(s) /\ 1 < i + 1
      BY <1>2
    <3> QED
      BY <3>1, <1>2, <1>4
  <2> QED
    BY <2>1, <1>3
<1>8. ASSUME NEW y \in ToSet(s) PROVE Turn(Head(s)) <= Turn(y)
  <2>1. PICK i \in 1..Len(s) : y = s[i]
    BY <1>3
  <2>2. CASE i = 1
    BY <2>1, <2>2, <1>2, TurnType
  <2>3. CASE i # 1
    BY <2>1, <2>3, <1>2, <1>4
  <2> QED
    BY <2>2, <2>3
<1> QED
  BY <1>5, <1>6, <1>7, <1>8 DEF t

LEMMA NothingListed == Listed(<<>>) /\ Closes(ToSet(<<>>)) /\ ToSet(<<>>) = {}
BY Pieces DEF Lists, Closes

\* x is given back, or done; but remove may miss the registers.
GivesBack(x) ==
  /\ Comes(x)
  /\ held' = held \ {x} \/ (x = "csr" /\ Removing /\ held' = held)

\* What comes before another thing is not done after it.
LEMMA DoesInTurn ==
  ASSUME ProbeTypeOK, Taking, Releasing, NEW x, GivesBack(x)
  PROVE  /\ phase = "release" /\ x \in ToSet(todo) /\ x \notin ToSet(todo')
         /\ ToSet(todo) = {x} \cup ToSet(todo')
         /\ \A y \in ToSet(todo) : Turn(x) <= Turn(y)
         /\ Taking' /\ Releasing'
<1>1. /\ phase = "release" /\ todo # <<>> /\ Head(todo) = x /\ todo' = Tail(todo)
      /\ held' \subseteq held /\ held \ {x} \subseteq held'
      /\ phase' = phase /\ at' = at /\ got_msi' = got_msi
  BY DEF GivesBack, Comes
<1>2. /\ Listed(todo') /\ ToSet(todo) = {x} \cup ToSet(todo') /\ x \notin ToSet(todo')
      /\ \A y \in ToSet(todo) : Turn(x) <= Turn(y)
  BY <1>1, TailLists DEF Releasing
<1>3. Closes(ToSet(todo'))
  <2>1. "netdev" \in ToSet(todo') => "cancel_disc" \in ToSet(todo')
    BY <1>2, Turns DEF Releasing, Closes
  <2>2. "cancel_disc" \in ToSet(todo') => "wiphy" \in ToSet(todo')
    BY <1>2, Turns DEF Releasing, Closes
  <2> QED
    BY <2>1, <2>2 DEF Closes
<1>4. Taking'
  BY <1>1 DEF Taking
<1>5. (ToSet(todo') \cap ToSet(ProbeOrder)) \ {"msi"} \subseteq held' /\ held' \subseteq ToSet(todo') \cup Left(at)
  <2>1. (ToSet(todo') \cap ToSet(ProbeOrder)) \ {"msi"} \subseteq held'
    BY <1>1, <1>2 DEF Releasing
  <2>2. held \subseteq {x} \cup ToSet(todo') \cup Left(at)
    BY <1>1, <1>2 DEF Releasing
  <2>3. x \notin held' \/ x \in Left(at)
    BY DEF GivesBack, Left, Removing
  <2> QED
    BY <1>1, <2>1, <2>2, <2>3
<1>6. Releasing'
  BY <1>1, <1>2, <1>3, <1>5 DEF Releasing
<1> QED
  BY <1>1, <1>2, <1>4, <1>6

-----------------------------------------------------------------------------
(* The steps.                                                              *)

LEMMA MiscLineIs == MiscLine \in Irqs
BY DEF MiscLine, Irqs

LEMMA LeftIs == \A k : Left(k) \subseteq {"back_wq", "msi", "csr"}
BY DEF Left

\* Interrupt lines are requested when all that the handlers use is there.
LEMMA BackingFirst ==
  ASSUME NEW k \in 1..20, NEW n, Before(k) \cap Irqs # {}
  PROVE  Backing \subseteq Before(k) \ NotTaken(n)
<1>1. k > 14
  <2>1. SUFFICES ASSUME k <= 14 PROVE FALSE
    OBVIOUS
  <2>2. Before(k) \subseteq {ProbeOrder[i] : i \in 1..13}
    BY <2>1 DEF Before
  <2> QED
    BY <2>2, OrderIs DEF Irqs
<1>2. {ProbeOrder[i] : i \in 1..13} \subseteq Before(k)
  BY <1>1 DEF Before
<1>3. Backing \subseteq {ProbeOrder[i] : i \in 1..13}
  <2>1. /\ 3 \in 1..13 /\ 5 \in 1..13 /\ 7 \in 1..13 /\ 9 \in 1..13
    OBVIOUS
  <2> QED
    BY <2>1, OrderIs DEF Backing
<1>4. Backing \cap NotTaken(n) = {}
  BY DEF Backing, NotTaken
<1> QED
  BY <1>2, <1>3, <1>4

\* While lines are held, what they use is.
LEMMA HeldBacking ==
  ASSUME ProbeTypeOK, Backed, isr
  PROVE  Backing \subseteq held
BY MiscLineIs DEF Backed

\* Steps that do not concern probe and remove.
LEMMA BusKept ==
  ASSUME Taking, Releasing, UNCHANGED <<phase, at, todo, held, got_msi>>
  PROVE  Taking' /\ Releasing' /\ MiscLine' = MiscLine
BY DEF Taking, Releasing, MiscLine

\* The same while something is given back.
LEMMA DoesBacked ==
  ASSUME ProbeTypeOK, Taking, Releasing, Backed, NEW x, Idle(x), GivesBack(x),
         UNCHANGED <<evt, back, isr>>
  PROVE  Backed'
<1>1. /\ held' \subseteq held /\ held \ {x} \subseteq held'
      /\ got_msi' = got_msi /\ phase = "release"
  BY DEF GivesBack, Comes
<1>2. \A y \in ToSet(todo) : Turn(x) <= Turn(y)
  BY DoesInTurn
<1>3. \A y \in held : y \in {"back_wq", "msi", "csr"} \/ Turn(x) <= Turn(y)
  BY <1>1, <1>2, LeftIs DEF Releasing
<1>4. MiscLine' = MiscLine
  BY <1>1 DEF MiscLine
<1>5. isr' => MiscLine' \in held'
  BY <1>1, <1>4 DEF Backed, Idle
<1>6. held' \cap Irqs # {} => Backing \subseteq held'
  <2>1. SUFFICES ASSUME NEW y \in held, y \in Irqs PROVE Backing \subseteq held'
    BY <1>1
  <2>2. Turn(y) = 1 /\ Turn(x) <= 1
    BY <2>1, <1>3, Turns DEF Irqs
  <2>3. x \notin Backing
    BY <2>2, Turns DEF Backing
  <2>4. Backing \subseteq held
    BY <2>1 DEF Backed
  <2> QED
    BY <2>3, <2>4, <1>1
<1>7. evt' # "idle" => {"wmi_wq", "back_wq"} \subseteq held'
  <2>1. SUFFICES ASSUME evt # "idle" PROVE {"wmi_wq", "back_wq"} \subseteq held'
    OBVIOUS
  <2>2. "wmi_wq" \in held /\ "back_wq" \in held
    BY <2>1 DEF Backed
  <2>3. x # "wmi_wq"
    BY <2>1 DEF Idle
  <2>4. x # "back_wq"
    BY <2>2, <1>3, Turns
  <2> QED
    BY <2>2, <2>3, <2>4, <1>1
<1>8. back' # "idle" => "back_wq" \in held'
  BY <1>1 DEF Backed, Idle
<1> QED
  BY <1>5, <1>6, <1>7, <1>8 DEF Backed

\* The inductive invariant holds first.
LEMMA InitHolds == ProbeInit => ProbeIInv
<1> SUFFICES ASSUME ProbeInit PROVE ProbeIInv
  OBVIOUS
<1>1. ToSet(todo) = {} /\ Listed(todo) /\ Closes(ToSet(todo))
  BY NothingListed DEF ProbeInit
<1>2. ProbeTypeOK
  <2>1. events \in Seq(Kind) /\ Len(events) <= EvMax
    BY EvMaxAssumption DEF ProbeInit
  <2>2. at \in 1..(Len(ProbeOrder) + 1) /\ (phase = "probe" => at <= Len(ProbeOrder))
    BY OrderIs DEF ProbeInit
  <2>3. ToSet(todo) \subseteq ToSet(ProbeOrder) \cup {"disable_irq", "cancel_disc", "disconnect", "flush"}
    BY <1>1
  <2>4. held \subseteq ToSet(ProbeOrder) \ {"reset"} /\ got_msi \in {0, 1, 3}
    BY DEF ProbeInit
  <2>5. /\ enabled \in BOOLEAN /\ up \in BOOLEAN /\ isr \in BOOLEAN /\ timer \in BOOLEAN
        /\ phase \in {"unbound", "probe", "bound", "release", "dead"}
        /\ evt \in Worker \cup Kind /\ {conn, back, disc} \subseteq Worker
        /\ roc \in {"idle", "delayed", "queued"}
    BY DEF ProbeInit, Worker
  <2> QED
    BY <2>1, <2>2, <2>3, <2>4, <2>5 DEF ProbeTypeOK
<1>3. Taking
  BY DEF ProbeInit, Taking
<1>4. Releasing
  BY <1>1 DEF ProbeInit, Releasing
<1>5. Backed
  BY DEF ProbeInit, Backed
<1>6. Unregistered
  BY DEF ProbeInit, Unregistered
<1> QED
  BY <1>2, <1>3, <1>4, <1>5, <1>6 DEF ProbeIInv

\* The interrupt thread, the workers and the timer, and user space.
LEMMA OthersType ==
  ASSUME ProbeTypeOK, IsrBegin \/ Works \/ User
  PROVE  ProbeTypeOK'
<1> USE DEF ProbeTypeOK, busVars, workVars, Worker
<1>1. CASE IsrBegin
  BY <1>1 DEF IsrBegin
<1>2. CASE IsrEnd
  <2>1. CASE UNCHANGED <<events, evt>>
    BY <1>2, <2>1 DEF IsrEnd
  <2>2. CASE ~UNCHANGED <<events, evt>>
    <3>1. PICK k \in Kind : events' = Append(events, k)
      BY <1>2, <2>2 DEF IsrEnd
    <3>2. Len(events) < EvMax /\ evt' \in {"queued", evt}
      BY <1>2, <2>2 DEF IsrEnd
    <3>3. events' \in Seq(Kind) /\ Len(events') <= EvMax
      BY <3>1, <3>2, EvMaxAssumption
    <3> QED
      BY <1>2, <3>2, <3>3 DEF IsrEnd
  <2> QED
    BY <2>1, <2>2
<1>3. CASE EvtBegin
  BY <1>3 DEF EvtBegin
<1>4. CASE EvtTake
  <2>1. events' \in Seq(Kind) /\ Len(events') <= EvMax /\ evt' \in Kind
    BY <1>4, EvMaxAssumption DEF EvtTake
  <2> QED
    BY <1>4, <2>1 DEF EvtTake
<1>5. CASE EvtHandle
  <2>1. conn' \in Worker /\ back' \in Worker /\ timer' \in BOOLEAN
    BY <1>5 DEF EvtHandle, Queue
  <2> QED
    BY <1>5, <2>1 DEF EvtHandle
<1>6. CASE EvtEnd
  BY <1>6 DEF EvtEnd
<1>7. CASE ConnStep
  BY <1>7 DEF ConnStep, Step
<1>8. CASE BackStep
  BY <1>8 DEF BackStep, Step
<1>9. CASE DiscStep
  BY <1>9 DEF DiscStep, Step
<1>10. CASE TimerFires
  BY <1>10 DEF TimerFires, Queue
<1>11. CASE RocStep
  BY <1>11 DEF RocStep
<1>12. CASE wil_open
  <2>1. events' \in Seq(Kind) /\ Len(events') <= EvMax
    BY <1>12, EvMaxAssumption DEF wil_open, wil_reset
  <2>2. up' \in BOOLEAN /\ disc' \in Worker /\ timer' \in BOOLEAN /\ enabled' \in BOOLEAN
    BY <1>12 DEF wil_open, wil_reset
  <2>3. UNCHANGED <<phase, at, todo, held, got_msi, isr, evt, conn, back, roc>>
    BY <1>12 DEF wil_open, wil_reset
  <2> QED
    BY <2>1, <2>2, <2>3
<1>13. CASE wil_stop
  BY <1>13 DEF wil_stop, wil_down
<1>14. CASE Connect
  BY <1>14 DEF Connect
<1>15. CASE Listen
  BY <1>15 DEF Listen
<1> QED
  BY <1>1, <1>2, <1>3, <1>4, <1>5, <1>6, <1>7, <1>8, <1>9, <1>10, <1>11, <1>12, <1>13, <1>14, <1>15
     DEF Works, User

LEMMA OthersKeep ==
  ASSUME ProbeIInv, IsrBegin \/ Works \/ User
  PROVE  ProbeIInv'
<1> USE DEF busVars, workVars
<1>1. UNCHANGED <<phase, at, todo, held, got_msi>>
  BY DEF IsrBegin, Works, IsrEnd, EvtBegin, EvtTake, EvtHandle, EvtEnd, ConnStep, BackStep,
         DiscStep, TimerFires, RocStep, User, wil_open, wil_reset, wil_stop, Connect, Listen
<1>2. ProbeTypeOK /\ Taking /\ Releasing /\ Backed /\ Unregistered
  BY DEF ProbeIInv
<1>3. Taking' /\ Releasing' /\ MiscLine' = MiscLine
  BY <1>1, <1>2, BusKept
<1>4. /\ isr' => isr \/ MiscLine \in held
      /\ evt' # "idle" => isr \/ evt # "idle"
      /\ back' # "idle" => back # "idle" \/ evt # "idle"
  <2>1. CASE IsrBegin
    BY <2>1, <1>2 DEF IsrBegin
  <2>2. CASE IsrEnd
    BY <2>2, <1>2 DEF IsrEnd
  <2>3. CASE EvtBegin
    BY <2>3, <1>2 DEF EvtBegin
  <2>4. CASE EvtTake
    BY <2>4, <1>2 DEF EvtTake
  <2>5. CASE EvtHandle
    BY <2>5, <1>2 DEF EvtHandle, Queue, Kind
  <2>6. CASE EvtEnd
    BY <2>6, <1>2 DEF EvtEnd
  <2>7. CASE ConnStep
    BY <2>7, <1>2 DEF ConnStep
  <2>8. CASE BackStep
    BY <2>8, <1>2 DEF BackStep, Step
  <2>9. CASE DiscStep
    BY <2>9, <1>2 DEF DiscStep, Step
  <2>10. CASE TimerFires
    BY <2>10, <1>2 DEF TimerFires, Queue
  <2>11. CASE RocStep
    BY <2>11, <1>2 DEF RocStep
  <2>12. CASE wil_open
    BY <2>12, <1>2 DEF wil_open, wil_reset
  <2>13. CASE wil_stop
    BY <2>13, <1>2 DEF wil_stop, wil_down
  <2>14. CASE Connect
    BY <2>14, <1>2 DEF Connect
  <2>15. CASE Listen
    BY <2>15, <1>2 DEF Listen
  <2> QED
    BY <2>1, <2>2, <2>3, <2>4, <2>5, <2>6, <2>7, <2>8, <2>9, <2>10, <2>11, <2>12, <2>13, <2>14, <2>15 DEF Works, User
<1>5. Backed'
  <2>1. isr => Backing \subseteq held
    BY <1>2, HeldBacking
  <2> QED
    BY <1>1, <1>2, <1>3, <1>4, <2>1 DEF Backed, Backing
<1>6. /\ up' => up \/ "netdev" \in held
      /\ timer' => up'
      /\ disc' # "idle" => disc # "idle" \/ timer
  <2>1. CASE IsrBegin
    BY <2>1, <1>2 DEF Unregistered, IsrBegin
  <2>2. CASE IsrEnd
    BY <2>2, <1>2 DEF Unregistered, IsrEnd
  <2>3. CASE EvtBegin
    BY <2>3, <1>2 DEF Unregistered, EvtBegin
  <2>4. CASE EvtTake
    BY <2>4, <1>2 DEF Unregistered, EvtTake
  <2>5. CASE EvtHandle
    BY <2>5, <1>2 DEF Unregistered, EvtHandle, Queue, Kind
  <2>6. CASE EvtEnd
    BY <2>6, <1>2 DEF Unregistered, EvtEnd
  <2>7. CASE ConnStep
    BY <2>7, <1>2 DEF Unregistered, ConnStep
  <2>8. CASE BackStep
    BY <2>8, <1>2 DEF Unregistered, BackStep, Step
  <2>9. CASE DiscStep
    BY <2>9, <1>2 DEF Unregistered, DiscStep, Step
  <2>10. CASE TimerFires
    BY <2>10, <1>2 DEF Unregistered, TimerFires, Queue
  <2>11. CASE RocStep
    BY <2>11, <1>2 DEF Unregistered, RocStep
  <2>12. CASE wil_open
    BY <2>12, <1>2 DEF Unregistered, wil_open, wil_reset
  <2>13. CASE wil_stop
    BY <2>13, <1>2 DEF Unregistered, wil_stop, wil_down
  <2>14. CASE Connect
    BY <2>14, <1>2 DEF Unregistered, Connect
  <2>15. CASE Listen
    BY <2>15, <1>2 DEF Unregistered, Listen
  <2> QED
    BY <2>1, <2>2, <2>3, <2>4, <2>5, <2>6, <2>7, <2>8, <2>9, <2>10, <2>11, <2>12, <2>13, <2>14, <2>15 DEF Works, User
<1>7. Unregistered'
  BY <1>1, <1>2, <1>6 DEF Unregistered
<1> QED
  BY <1>2, <1>3, <1>5, <1>7, OthersType DEF ProbeIInv

\* What is done in turn.
LEMMA ReleaseKeeps ==
  ASSUME ProbeIInv, Early, Release
  PROVE  ProbeIInv'
<1> USE DEF workVars
<1>1. ProbeTypeOK /\ Taking /\ Releasing /\ Backed /\ Unregistered
  BY DEF ProbeIInv
<1>2. CASE Unbound
  <2>1. /\ phase = "release" /\ todo = <<>> /\ phase' = "unbound" /\ held' = {}
        /\ UNCHANGED <<at, todo, got_msi, enabled, up, isr, events, workVars>>
    BY <1>2 DEF Unbound
  <2>2. ProbeTypeOK'
    BY <2>1, <1>1 DEF ProbeTypeOK
  <2>3. ToSet(todo) = {}
    BY <2>1, NothingListed
  <2>4. Taking' /\ Releasing'
    BY <2>1, <2>3, <1>1 DEF Taking, Releasing
  <2>5. Backed' /\ Unregistered'
    <3>1. held \subseteq {"back_wq", "msi", "csr"}
      BY <2>1, <2>3, <1>1, LeftIs DEF Releasing
    <3>2. ~isr /\ evt = "idle"
      BY <3>1, <1>1, MiscLineIs DEF Backed, Irqs
    <3>3. back = "idle"
      <4>1. SUFFICES ASSUME back # "idle" PROVE FALSE
        OBVIOUS
      <4>2. "back_wq" \in Left(at)
        BY <4>1, <2>1, <2>3, <1>1 DEF Backed, Releasing
      <4>3. at \in 1..20
        BY <1>1, OrderIs DEF ProbeTypeOK
      <4>4. at <= 19 /\ ProbeOrder[at] = "roc_wq"
        BY <4>2, <4>3, OrderIs DEF Left
      <4>5. at = 10
        BY <4>3, <4>4, OrderIs
      <4> QED
        BY <4>1, <4>5 DEF Early
    <3>4. ~up /\ ~timer /\ disc = "idle"
      BY <3>1, <2>3, <1>1 DEF Unregistered
    <3> QED
      BY <2>1, <3>2, <3>3, <3>4 DEF Backed, Unregistered, Irqs
  <2> QED
    BY <2>2, <2>4, <2>5 DEF ProbeIInv
\* What each does besides, x being the thing.
<1> DEFINE Kept(x) ==
      /\ GivesBack(x) /\ Idle(x)
      /\ UNCHANGED <<evt, back, isr, conn, roc>>
      /\ enabled' \in BOOLEAN /\ events' \in {events, <<>>}
      /\ up' \in {up, FALSE} /\ timer' \in {timer, FALSE} /\ disc' \in {disc, "idle"}
      /\ timer' => up'
      /\ x = "netdev" => ~up'
      /\ x = "cancel_disc" => disc' = "idle"
<1>3. ASSUME NEW x, Kept(x) PROVE ProbeIInv'
  <2>1. /\ phase = "release" /\ x \in ToSet(todo) /\ x \notin ToSet(todo')
        /\ ToSet(todo) = {x} \cup ToSet(todo')
        /\ Taking' /\ Releasing'
    BY <1>1, <1>3, DoesInTurn
  <2>2. held' \subseteq held /\ held \ {x} \subseteq held' /\ UNCHANGED <<phase, at, got_msi>>
    BY <1>3 DEF GivesBack, Comes
  <2>3. Backed'
    BY <1>1, <1>3, DoesBacked
  <2>4. ProbeTypeOK'
    <3>1. events' \in Seq(Kind) /\ Len(events') <= EvMax
      <4>1. events' = events \/ events' = <<>>
        BY <1>3
      <4> HIDE DEF Kept
      <4>2. events \in Seq(Kind) /\ Len(events) <= EvMax
        BY <1>1 DEF ProbeTypeOK
      <4> QED
        <5>1. CASE events' = events
          BY <5>1, <4>2
        <5>2. CASE events' = <<>>
          <6>1. <<>> \in Seq(Kind) /\ Len(<<>>) = 0
            OBVIOUS
          <6> QED
            BY <5>2, <6>1, EvMaxAssumption
        <5> QED
          BY <4>1, <5>1, <5>2
    <3>2. /\ held' \subseteq ToSet(ProbeOrder) \ {"reset"}
          /\ ToSet(todo') \subseteq ToSet(ProbeOrder) \cup {"disable_irq", "cancel_disc", "disconnect", "flush"}
      BY <1>1, <2>1, <2>2 DEF ProbeTypeOK
    <3>3. up' \in BOOLEAN /\ timer' \in BOOLEAN /\ disc' \in Worker
      BY <1>1, <1>3 DEF ProbeTypeOK, Worker
    <3> QED
      BY <1>1, <1>3, <2>2, <3>1, <3>2, <3>3 DEF ProbeTypeOK
  <2>5. up' => "netdev" \in held'
    BY <1>1, <1>3, <2>2 DEF Unregistered
  <2>6. disc' # "idle" => "netdev" \in held' \/ "cancel_disc" \in ToSet(todo')
    <3>1. SUFFICES ASSUME disc' # "idle" PROVE "netdev" \in held' \/ "cancel_disc" \in ToSet(todo')
      OBVIOUS
    <3>2. disc # "idle" /\ x # "cancel_disc"
      BY <3>1, <1>3
    <3>3. CASE "cancel_disc" \in ToSet(todo)
      BY <3>2, <3>3, <2>1
    <3>4. CASE "netdev" \in held /\ "cancel_disc" \notin ToSet(todo)
      <4>1. "netdev" \in ToSet(todo)
        BY <3>4, <1>1, <2>1, LeftIs DEF Releasing
      <4> QED
        BY <4>1, <3>4, <1>1 DEF Releasing, Closes
    <3> QED
      BY <3>2, <3>3, <3>4, <1>1 DEF Unregistered
  <2>7. Unregistered'
    BY <1>3, <2>5, <2>6 DEF Unregistered
  <2> QED
    BY <2>1, <2>3, <2>4, <2>7 DEF ProbeIInv
<1>4. timer => up
  BY <1>1 DEF Unregistered
<1>5. \A x \in Deeds \cup {"netdev"} : Idle(x)
  BY MiscLineIs DEF Idle, Deeds, Irqs
<1>6. enabled \in BOOLEAN
  BY <1>1 DEF ProbeTypeOK
<1>7. CASE GiveBack
  <2>1. PICK x \in ToSet(ProbeOrder) \ {"netdev", "csr"} : Idle(x) /\ GivesBack(x)
    BY <1>7 DEF GiveBack, Does, GivesBack
  <2>2. x # "cancel_disc"
    BY <2>1, OrderSet
  <2>3. Kept(x)
    BY <1>4, <1>6, <1>7, <2>1, <2>2 DEF GiveBack
  <2> HIDE DEF Kept
  <2> QED
    BY <2>3, <1>3
<1>8. CASE wil_if_remove
  <2>1. Kept("netdev")
    <3>1. GivesBack("netdev") /\ UNCHANGED <<enabled, isr, events, evt, conn, back, disc, roc>>
      BY <1>8 DEF wil_if_remove, Does, GivesBack
    <3>2. up' \in {up, FALSE} /\ timer' \in {timer, FALSE} /\ ~up' /\ (timer' => up')
      BY <1>8, <1>1, <1>4 DEF wil_if_remove, wil_down, ProbeTypeOK
    <3> QED
      BY <3>1, <3>2, <1>5, <1>6 DEF Deeds
  <2> HIDE DEF Kept
  <2> QED
    BY <2>1, <1>3
<1>9. CASE DisableIrq
  <2>1. Kept("disable_irq")
    BY <1>9, <1>4, <1>5 DEF DisableIrq, Deeds, Does, GivesBack
  <2> HIDE DEF Kept
  <2> QED
    BY <2>1, <1>3
<1>10. CASE CancelDisc
  <2>1. Kept("cancel_disc")
    BY <1>10, <1>4, <1>5, <1>6 DEF CancelDisc, Deeds, Does, GivesBack
  <2> HIDE DEF Kept
  <2> QED
    BY <2>1, <1>3
<1>11. CASE DeinitDisconnect
  <2>1. Kept("disconnect")
    BY <1>11, <1>5, <1>6 DEF DeinitDisconnect, Deeds, Does, GivesBack
  <2> HIDE DEF Kept
  <2> QED
    BY <2>1, <1>3
<1>12. CASE DeinitFlush
  <2>1. Kept("flush")
    BY <1>12, <1>4, <1>5, <1>6 DEF DeinitFlush, Deeds, Does, GivesBack
  <2> HIDE DEF Kept
  <2> QED
    BY <2>1, <1>3
<1>13. CASE Unmap
  <2>1. Comes("csr") /\ UNCHANGED <<enabled, up, isr, events, evt, conn, back, disc, roc, timer>>
    BY <1>13 DEF Unmap
  <2>2. held' = held \ {"csr"} \/ (Removing /\ held' = held)
    BY <1>13 DEF Unmap
  <2>3. GivesBack("csr")
    BY <2>1, <2>2 DEF GivesBack
  <2>4. Idle("csr")
    BY MiscLineIs DEF Idle, Irqs
  <2>5. Kept("csr")
    BY <1>4, <1>6, <2>1, <2>3, <2>4
  <2> HIDE DEF Kept
  <2> QED
    BY <2>5, <1>3
<1>14. CASE Oops
  <2>1. /\ phase = "release" /\ todo # <<>> /\ Head(todo) = "disconnect" /\ ~Removing
        /\ ProbeOrder[at] = "ndev"
        /\ phase' = "dead" /\ todo' = <<>> /\ timer' = FALSE
        /\ UNCHANGED <<at, held, got_msi, enabled, up, isr, events, evt, conn, back, disc, roc>>
    BY <1>14 DEF Oops, NoNetdev
  <2>2. \A y \in ToSet(todo) : Turn("disconnect") <= Turn(y)
    <3> DEFINE t == Tail(todo)
    <3>1. Listed(todo)
      BY <1>1 DEF Releasing
    <3> QED
      BY <2>1, <3>1, TailLists
  <2>3. "netdev" \notin ToSet(todo) /\ "cancel_disc" \notin ToSet(todo)
    BY <2>2, Turns
  <2>4. "netdev" \notin held
    BY <2>1, <2>3, <1>1, LeftIs DEF Releasing
  <2>5. Taking'
    BY <2>1, <2>4 DEF Taking
  <2>6. Releasing'
    BY <2>1, NothingListed DEF Releasing
  <2>7. ~up /\ disc = "idle"
    BY <2>3, <2>4, <1>1 DEF Unregistered
  <2>8. Backed' /\ Unregistered'
    BY <2>1, <2>7, <1>1 DEF Backed, Unregistered, MiscLine
  <2>9. ProbeTypeOK'
    <3>1. ToSet(todo') = {}
      BY <2>1, NothingListed
    <3> QED
      BY <2>1, <3>1, <1>1 DEF ProbeTypeOK
  <2> QED
    BY <2>5, <2>6, <2>8, <2>9 DEF ProbeIInv
<1>15. CASE StaysDead
  BY <1>15 DEF StaysDead, probeVars, busVars, ProbeIInv, ProbeTypeOK, Taking, Releasing, Backed,
     Unregistered, MiscLine
<1> QED
  BY <1>2, <1>7, <1>8, <1>9, <1>10, <1>11, <1>12, <1>13, <1>14, <1>15 DEF Release

\* Roll-back and removal begin.
LEMMA BeginRelease ==
  ASSUME ProbeIInv, ProbeTypeOK', phase \in {"probe", "bound"}, Undoes(todo', at, got_msi),
         phase' = "release",
         UNCHANGED <<at, held, got_msi, up, isr, evt, back>>, timer' => timer,
         disc' \in {disc, "idle"}
  PROVE  ProbeIInv'
<1>1. ProbeTypeOK /\ Taking /\ Releasing /\ Backed /\ Unregistered
  BY DEF ProbeIInv
<1>2. ToSet(todo) = {}
  <2>1. todo = <<>>
    BY <1>1 DEF Taking
  <2> QED
    BY <2>1, NothingListed
<1>3. /\ Before(at) \ NotTaken(got_msi) \subseteq held
      /\ held \subseteq Before(at) \ NotTaken(got_msi)
  BY <1>1 DEF Taking
<1>4. Taking'
  BY DEF Taking
<1>5. Releasing'
  BY <1>3 DEF Releasing, Undoes
<1>6. Backed'
  BY <1>1 DEF Backed, MiscLine
<1>7. Unregistered'
  <2>1. timer' => timer
    OBVIOUS
  <2>2. disc' # "idle" => disc # "idle"
    OBVIOUS
  <2> QED
    BY <1>1, <1>2, <2>1, <2>2 DEF Unregistered
<1> QED
  BY <1>4, <1>5, <1>6, <1>7 DEF ProbeIInv

\* The steps of probe, one by one.
LEMMA ProbeBeginKeeps ==
  ASSUME ProbeIInv, ProbeBegin
  PROVE  ProbeIInv'
<1>1. ProbeTypeOK /\ Taking /\ Releasing /\ Backed /\ Unregistered
  BY DEF ProbeIInv
<1>2. /\ phase = "unbound" /\ phase' = "probe" /\ at' = 1
      /\ UNCHANGED <<todo, held, got_msi, enabled, up, isr, events, workVars>>
  BY DEF ProbeBegin
<1>3. UNCHANGED <<evt, conn, back, disc, roc, timer>>
  BY <1>2 DEF workVars
<1>4. ProbeTypeOK'
  BY <1>1, <1>2, <1>3, OrderIs DEF ProbeTypeOK
<1>5. Taking'
  <2>1. Before(at') = {}
    BY <1>2, BeforeIs
  <2> QED
    BY <2>1, <1>1, <1>2 DEF Taking
<1>6. Releasing'
  BY <1>1, <1>2 DEF Releasing
<1>7. Backed' /\ Unregistered'
  BY <1>1, <1>2, <1>3 DEF Backed, Unregistered, MiscLine
<1> QED
  BY <1>4, <1>5, <1>6, <1>7 DEF ProbeIInv

\* Probe goes on.
LEMMA AdvanceIs ==
  ASSUME ProbeIInv, phase = "probe", Advance, UNCHANGED todo
  PROVE  /\ at \in 1..19 /\ at' = at + 1 /\ at' \in 1..20
         /\ phase' \in {"probe", "bound"}
         /\ phase' = "probe" => at' <= 19
         /\ phase' = "bound" => at' = 20
         /\ Before(at') = Before(at) \cup {ProbeOrder[at]}
         /\ Releasing'
<1>1. at \in 1..19
  BY OrderIs DEF ProbeIInv, ProbeTypeOK
<1>2. at' = at + 1 /\ phase' = IF at = 19 THEN "bound" ELSE "probe"
  BY OrderIs DEF Advance
<1>3. Before(at') = Before(at) \cup {ProbeOrder[at]}
  BY <1>1, <1>2, BeforeNext
<1>4. Releasing'
  <2>1. todo = <<>> /\ Listed(todo) /\ Closes(ToSet(todo))
    BY DEF ProbeIInv, Taking, Releasing
  <2>2. phase' # "release"
    BY <1>2
  <2> QED
    BY <2>1, <2>2 DEF Releasing
<1> QED
  BY <1>1, <1>2, <1>3, <1>4

LEMMA TakeMsiKeeps ==
  ASSUME ProbeIInv, TakeMsi
  PROVE  ProbeIInv'
<1>1. ProbeTypeOK /\ Taking /\ Releasing /\ Backed /\ Unregistered
  BY DEF ProbeIInv
<1>2. /\ phase = "probe" /\ ProbeOrder[at] = "msi" /\ Advance
      /\ UNCHANGED <<todo, enabled, up, isr, events, evt, conn, back, disc, roc, timer>>
  BY DEF TakeMsi, workVars
<1>3. PICK n \in {0, 1, 3} : got_msi' = n /\ held' = IF n = 0 THEN held ELSE held \cup {"msi"}
  BY DEF TakeMsi
<1>4. /\ at \in 1..19 /\ at' \in 1..20 /\ at' = at + 1
      /\ phase' \in {"probe", "bound"} /\ (phase' = "probe" => at' <= 19) /\ (phase' = "bound" => at' = 20)
      /\ Before(at') = Before(at) \cup {"msi"} /\ Releasing'
  BY <1>2, AdvanceIs
<1>5. at = 13
  BY <1>2, <1>4, OrderIs
<1>6. Before(at) \cap {"msi", "reset", "irq0", "irq1", "irq2"} = {}
  <2>1. Before(at) = {ProbeOrder[i] : i \in 1..12}
    BY <1>5 DEF Before
  <2> QED
    BY <2>1, OrderIs
<1>7. Before(at) \subseteq held /\ held \subseteq Before(at)
  BY <1>1, <1>2, <1>6 DEF Taking, NotTaken
<1>8. ProbeTypeOK'
  <2>1. held' \subseteq ToSet(ProbeOrder) \ {"reset"}
    BY <1>1, <1>3, OrderSet DEF ProbeTypeOK
  <2>2. got_msi' \in {0, 1, 3}
    BY <1>3
  <2>3. at' \in 1..(Len(ProbeOrder) + 1) /\ (phase' = "probe" => at' <= Len(ProbeOrder))
    BY <1>4, OrderIs
  <2> QED
    BY <1>1, <1>2, <1>4, <2>1, <2>2, <2>3 DEF ProbeTypeOK
<1>9. Taking'
  <2>1. Before(at') \ NotTaken(n) = Before(at) \cup (IF n = 0 THEN {} ELSE {"msi"})
    BY <1>4, <1>6 DEF NotTaken
  <2>2. /\ Before(at') \ NotTaken(n) \subseteq held'
        /\ held' \subseteq Before(at') \ NotTaken(n)
    BY <2>1, <1>3, <1>7
  <2>3. todo' = <<>> /\ phase' # "unbound" /\ (phase' = "bound" => at' = Len(ProbeOrder) + 1)
    BY <1>1, <1>2, <1>4, OrderIs DEF Taking
  <2> QED
    BY <2>2, <2>3, <1>3, <1>4 DEF Taking
<1>10. held \cap Irqs = {} /\ held' \cap Irqs = {}
  <2>1. held \cap Irqs = {}
    BY <1>6, <1>7 DEF Irqs
  <2> QED
    BY <2>1, <1>3 DEF Irqs
<1>11. ~isr
  BY <1>1, <1>10, MiscLineIs DEF Backed
<1>12. Backed'
  BY <1>1, <1>2, <1>3, <1>10, <1>11 DEF Backed
<1>13. Unregistered'
  BY <1>1, <1>2, <1>3 DEF Unregistered
<1> QED
  BY <1>4, <1>8, <1>9, <1>12, <1>13 DEF ProbeIInv

\* One more resource, or none.
LEMMA TakingNext ==
  ASSUME ProbeIInv, phase = "probe", Advance, UNCHANGED <<todo, got_msi>>,
         held' = IF ProbeOrder[at] \in NotTaken(got_msi) THEN held ELSE held \cup {ProbeOrder[at]}
  PROVE  /\ Taking'
         /\ ProbeOrder[at] \in Irqs /\ ProbeOrder[at] \in held' => Backing \subseteq held
<1> DEFINE r == ProbeOrder[at]
           n == got_msi
<1>1. /\ Taking
      /\ at \in 1..19 /\ at' \in 1..20
      /\ phase' \in {"probe", "bound"} /\ (phase' = "bound" => at' = 20)
      /\ Before(at') = Before(at) \cup {r}
  BY AdvanceIs DEF ProbeIInv
<1>2. /\ Before(at) \ NotTaken(n) \subseteq held
      /\ held \subseteq Before(at) \ NotTaken(n)
      /\ todo = <<>>
  BY <1>1 DEF Taking
<1>3. Before(at') \ NotTaken(n) = (Before(at) \ NotTaken(n)) \cup ({r} \ NotTaken(n))
  BY <1>1
<1>4. /\ Before(at') \ NotTaken(n) \subseteq held'
      /\ held' \subseteq Before(at') \ NotTaken(n)
  BY <1>2, <1>3
<1>5. Taking'
  <2>1. phase' = "bound" => at' = Len(ProbeOrder) + 1
    BY <1>1, OrderIs
  <2> HIDE DEF r, n
  <2> QED
    BY <1>1, <1>2, <1>4, <2>1 DEF Taking, n
<1>6. ASSUME r \in Irqs PROVE Backing \subseteq held
  <2>1. Before(at') \cap Irqs # {}
    BY <1>1, <1>6
  <2>2. Backing \subseteq Before(at') \ NotTaken(n)
    BY <2>1, <1>1, BackingFirst
  <2>3. r \notin Backing
    BY <1>6 DEF Irqs, Backing
  <2> QED
    BY <2>2, <2>3, <1>2, <1>3
<1> QED
  BY <1>5, <1>6

LEMMA TakeKeeps ==
  ASSUME ProbeIInv, Take
  PROVE  ProbeIInv'
<1> DEFINE r == ProbeOrder[at]
<1>1. ProbeTypeOK /\ Taking /\ Releasing /\ Backed /\ Unregistered
  BY DEF ProbeIInv
<1>2. /\ phase = "probe" /\ r \notin {"msi", "reset"} /\ Advance
      /\ held' = IF r \in {"irq1", "irq2"} => got_msi = 3 THEN held \cup {r} ELSE held
      /\ enabled' = (enabled \/ r = "irq2")
      /\ UNCHANGED <<todo, got_msi, up, isr, events, evt, conn, back, disc, roc, timer>>
  BY DEF Take, workVars
<1>3. held' = IF r \in NotTaken(got_msi) THEN held ELSE held \cup {r}
  BY <1>2 DEF NotTaken
<1>4. /\ at \in 1..19 /\ at' \in 1..20
      /\ phase' \in {"probe", "bound"} /\ (phase' = "probe" => at' <= 19)
      /\ Releasing'
  BY <1>2, AdvanceIs
<1>5. Taking' /\ (r \in Irqs /\ r \in held' => Backing \subseteq held)
  BY <1>2, <1>3, TakingNext
<1>6. ProbeTypeOK'
  <2>1. r \in ToSet(ProbeOrder)
    BY <1>4, OrderIs, OrderSet
  <2>2. held' \subseteq ToSet(ProbeOrder) \ {"reset"}
    BY <1>1, <1>2, <2>1 DEF ProbeTypeOK
  <2>3. at' \in 1..(Len(ProbeOrder) + 1) /\ (phase' = "probe" => at' <= Len(ProbeOrder))
    BY <1>4, OrderIs
  <2>4. enabled' \in BOOLEAN
    BY <1>2
  <2> HIDE DEF r
  <2> QED
    BY <1>1, <1>2, <1>4, <2>2, <2>3, <2>4 DEF ProbeTypeOK
<1> HIDE DEF r
<1>7. held \subseteq held' /\ held' \subseteq held \cup {r} /\ MiscLine' = MiscLine
  BY <1>2 DEF MiscLine
<1>8. held' \cap Irqs # {} => Backing \subseteq held'
  BY <1>1, <1>5, <1>7 DEF Backed
<1>9. Backed'
  BY <1>1, <1>2, <1>7, <1>8 DEF Backed
<1>10. Unregistered'
  BY <1>1, <1>2, <1>7 DEF Unregistered
<1> QED
  BY <1>4, <1>5, <1>6, <1>9, <1>10 DEF ProbeIInv

LEMMA ProbeResetKeeps ==
  ASSUME ProbeIInv, ProbeReset
  PROVE  ProbeIInv'
<1>1. ProbeTypeOK /\ Taking /\ Releasing /\ Backed /\ Unregistered
  BY DEF ProbeIInv
<1>2. /\ phase = "probe" /\ ProbeOrder[at] = "reset" /\ Advance
      /\ disc' = "idle" /\ timer' = FALSE /\ events' = <<>> /\ enabled' = TRUE
      /\ UNCHANGED <<todo, held, up, got_msi, isr, evt, conn, back, roc>>
  BY DEF ProbeReset, wil_reset
<1>3. /\ at \in 1..19 /\ at' \in 1..20
      /\ phase' \in {"probe", "bound"} /\ (phase' = "probe" => at' <= 19)
      /\ Releasing'
  BY <1>2, AdvanceIs
<1>4. Taking'
  <2>1. ProbeOrder[at] \in NotTaken(got_msi)
    BY <1>2 DEF NotTaken
  <2> QED
    BY <1>2, <2>1, TakingNext
<1>5. ProbeTypeOK'
  <2>1. at' \in 1..(Len(ProbeOrder) + 1) /\ (phase' = "probe" => at' <= Len(ProbeOrder))
    BY <1>3, OrderIs
  <2>2. events' \in Seq(Kind) /\ Len(events') <= EvMax
    BY <1>2, EvMaxAssumption
  <2>3. disc' \in Worker
    BY <1>2 DEF Worker
  <2> QED
    BY <1>1, <1>2, <1>3, <2>1, <2>2, <2>3 DEF ProbeTypeOK
<1>6. Backed' /\ Unregistered'
  BY <1>1, <1>2 DEF Backed, Unregistered, MiscLine
<1> QED
  BY <1>3, <1>4, <1>5, <1>6 DEF ProbeIInv

LEMMA RefusedKeeps ==
  ASSUME ProbeIInv, Refused
  PROVE  ProbeIInv'
<1> DEFINE r == ProbeOrder[at]
<1>1. ProbeTypeOK
  BY DEF ProbeIInv
<1>2. /\ phase = "probe" /\ r \in Fails /\ (r \in {"irq1", "irq2"} => got_msi = 3)
      /\ phase' = "release" /\ todo' = Rollback(r, got_msi)
      /\ UNCHANGED <<at, held, up>>
  BY DEF Refused
<1>3. /\ UNCHANGED <<got_msi, isr, evt, conn, back, roc>>
      /\ \/ disc' = "idle" /\ timer' = FALSE /\ events' = <<>> /\ enabled' = TRUE
         \/ UNCHANGED <<disc, timer, events, enabled>>
  BY DEF Refused, wil_reset, workVars
<1>4. at \in 1..19 /\ got_msi \in {0, 1, 3}
  BY <1>1, <1>2, OrderIs DEF ProbeTypeOK
<1>5. Undoes(todo', at, got_msi)
  BY <1>2, <1>4, RefusedUndoes
<1>6. ProbeTypeOK'
  <2>1. ToSet(todo') \subseteq ToSet(ProbeOrder) \cup {"disable_irq", "cancel_disc", "disconnect", "flush"}
    BY <1>5, ToSetIs DEF Undoes, Listed, Name, Deeds
  <2>2. events' \in Seq(Kind) /\ Len(events') <= EvMax
    <3>1. <<>> \in Seq(Kind) /\ Len(<<>>) = 0
      OBVIOUS
    <3>2. events' = <<>> \/ events' = events
      BY <1>3
    <3> QED
      <4>1. CASE events' = <<>>
        BY <4>1, <3>1, EvMaxAssumption
      <4>2. CASE events' = events
        BY <4>2, <1>1 DEF ProbeTypeOK
      <4> QED
        BY <3>2, <4>1, <4>2
  <2>3. disc' \in Worker /\ timer' \in BOOLEAN /\ enabled' \in BOOLEAN
    BY <1>1, <1>3 DEF ProbeTypeOK, Worker
  <2> QED
    BY <1>1, <1>2, <1>3, <2>1, <2>2, <2>3 DEF ProbeTypeOK
<1>7. (timer' => timer) /\ disc' \in {disc, "idle"}
  BY <1>3
<1> QED
  BY <1>2, <1>3, <1>5, <1>6, <1>7, BeginRelease

LEMMA RemoveBeginKeeps ==
  ASSUME ProbeIInv, RemoveBegin
  PROVE  ProbeIInv'
<1>1. ProbeTypeOK /\ Taking
  BY DEF ProbeIInv
<1>2. /\ phase = "bound" /\ phase' = "release" /\ todo' = wil_pcie_remove(got_msi)
      /\ UNCHANGED <<at, held, got_msi, enabled, up, isr, events, evt, conn, back, disc, roc, timer>>
  BY DEF RemoveBegin, workVars
<1>3. at = 20 /\ got_msi \in {0, 1, 3}
  BY <1>1, <1>2, OrderIs DEF Taking, ProbeTypeOK
<1>4. Undoes(todo', at, got_msi)
  BY <1>2, <1>3, LateUndoes
<1>5. ProbeTypeOK'
  <2>1. ToSet(todo') \subseteq ToSet(ProbeOrder) \cup {"disable_irq", "cancel_disc", "disconnect", "flush"}
    BY <1>4, ToSetIs DEF Undoes, Listed, Name, Deeds
  <2> QED
    BY <1>1, <1>2, <2>1 DEF ProbeTypeOK
<1> QED
  BY <1>2, <1>4, <1>5, BeginRelease

LEMMA EarlyKeeps ==
  ASSUME ProbeIInv, Early, ProbeNext
  PROVE  Early'
<1> SUFFICES ASSUME at' <= 13
             PROVE  held' \cap Irqs = {} /\ ~isr' /\ evt' = "idle" /\ back' = "idle"
  BY DEF Early
<1>1. ProbeTypeOK /\ Taking /\ Backed /\ at \in 1..20
  BY OrderIs DEF ProbeIInv, ProbeTypeOK
<1>2. CASE ProbeBegin
  <2>1. held = {} /\ UNCHANGED <<held, isr, evt, back>>
    BY <1>1, <1>2 DEF ProbeBegin, Taking, workVars
  <2> QED
    BY <2>1, <1>1 DEF Backed
<1>3. CASE TakeMsi \/ Take \/ ProbeReset
  <2>1. /\ UNCHANGED <<isr, evt, back>> /\ at' = at + 1
        /\ held' \subseteq held \cup {ProbeOrder[at], "msi"}
    BY <1>3 DEF TakeMsi, Take, ProbeReset, wil_reset, Advance, workVars
  <2>2. at \in 1..12 /\ ProbeOrder[at] \notin Irqs
    BY <1>1, <2>1, OrderIs DEF Irqs
  <2> QED
    BY <2>1, <2>2 DEF Early, Irqs
<1>4. CASE Refused \/ RemoveBegin \/ Release \/ User
  <2>1. UNCHANGED <<at, isr, evt, back>> /\ held' \subseteq held
    <3>1. CASE Refused \/ RemoveBegin
      BY <3>1 DEF Refused, RemoveBegin, wil_reset, workVars
    <3>2. CASE Release
      BY <3>2 DEF Release, GiveBack, Unmap, wil_if_remove, DisableIrq, CancelDisc,
         DeinitDisconnect, DeinitFlush, Oops, StaysDead, Unbound, Does, Comes, workVars,
         probeVars, busVars
    <3>3. CASE User
      BY <3>3 DEF User, wil_open, wil_stop, Connect, Listen, wil_reset, busVars
    <3> QED
      BY <1>4, <3>1, <3>2, <3>3
  <2> QED
    BY <2>1 DEF Early
<1>5. CASE IsrBegin \/ Works
  <2>1. UNCHANGED <<at, held>>
    BY <1>5 DEF IsrBegin, Works, IsrEnd, EvtBegin, EvtTake, EvtHandle, EvtEnd, ConnStep, BackStep,
       DiscStep, TimerFires, RocStep, busVars
  <2>2. held \cap Irqs = {} /\ ~isr /\ evt = "idle" /\ back = "idle"
    BY <2>1 DEF Early
  <2>3. ~IsrBegin
    BY <2>2, MiscLineIs DEF IsrBegin
  <2>4. ~IsrEnd /\ ~EvtBegin /\ ~EvtTake /\ ~EvtHandle /\ ~EvtEnd /\ ~BackStep
    BY <2>2 DEF IsrEnd, EvtBegin, EvtTake, EvtHandle, EvtEnd, BackStep, Step, Kind
  <2>5. UNCHANGED <<isr, evt, back>>
    BY <1>5, <2>3, <2>4 DEF Works, ConnStep, DiscStep, TimerFires, RocStep
  <2> QED
    BY <2>1, <2>2, <2>5
<1> QED
  BY <1>2, <1>3, <1>4, <1>5 DEF ProbeNext

\* Every step keeps the inductive invariant.
LEMMA ProbeStep == ProbeIInv /\ Early /\ [ProbeNext]_probeVars => ProbeIInv' /\ Early'
<1> SUFFICES ASSUME ProbeIInv, Early, [ProbeNext]_probeVars PROVE ProbeIInv' /\ Early'
  OBVIOUS
<1>1. CASE ProbeNext
  BY <1>1, ProbeBeginKeeps, TakeMsiKeeps, TakeKeeps, ProbeResetKeeps, RefusedKeeps,
     RemoveBeginKeeps, ReleaseKeeps, OthersKeep, EarlyKeeps DEF ProbeNext
<1>2. CASE UNCHANGED probeVars
  BY <1>2 DEF probeVars, busVars, workVars, ProbeIInv, ProbeTypeOK, Taking, Releasing, Backed,
     Unregistered, MiscLine, Early
<1> QED
  BY <1>1, <1>2

-----------------------------------------------------------------------------
(* The theorems.                                                           *)

\* The inductive invariant: what is held is what probe has taken, or what is
\* still to be given back, but for what is known to be left; what is to be done is
\* listed once and in turn; and what runs has what it uses.
THEOREM ProbeInductive == ProbeSpec => [](ProbeIInv /\ Early)
<1>1. ProbeInit => Early
  BY DEF ProbeInit, Early
<1> QED
  BY <1>1, InitHolds, ProbeStep, PTL DEF ProbeSpec

\* The type of the state of probe and remove.
THEOREM ProbeType == ProbeSpec => []ProbeTypeOK
<1>1. ProbeIInv => ProbeTypeOK
  BY DEF ProbeIInv
<1> QED
  BY <1>1, ProbeInductive, PTL

\* wil_pcie_probe, wherever it is refused, and wil_pcie_remove give back nothing
\* that is not held, and nothing twice, whatever the number of MSIs.
THEOREM HeldWhenReleased == ProbeSpec => []ReleasesHeld
<1>1. ProbeIInv => ReleasesHeld
  <2> SUFFICES ASSUME ProbeIInv, NEW i \in DOMAIN todo, todo[i] \in ToSet(ProbeOrder) \ {"msi"}
               PROVE  todo[i] \in held /\ \A j \in DOMAIN todo : todo[j] = todo[i] => j = i
    BY DEF ReleasesHeld
  <2>1. Taking /\ Releasing /\ Listed(todo) /\ todo \in Seq(Name)
    BY DEF ProbeIInv, Releasing, Listed
  <2>2. DOMAIN todo = 1..Len(todo) /\ Len(todo) \in Nat /\ todo[i] \in ToSet(todo)
    BY <2>1, ToSetIs
  <2>3. phase = "release"
    <3>1. todo # <<>>
      BY <2>2
    <3> QED
      BY <3>1, <2>1 DEF Taking
  <2>4. todo[i] \in held
    BY <2>1, <2>2, <2>3 DEF Releasing
  <2>5. ASSUME NEW j \in DOMAIN todo, todo[j] = todo[i] PROVE j = i
    <3>1. ~(i < j) /\ ~(j < i)
      BY <2>1, <2>2, <2>5 DEF Listed
    <3> QED
      BY <3>1, <2>2
  <2> QED
    BY <2>4, <2>5
<1> QED
  BY <1>1, ProbeInductive, PTL

\* While a line is requested or its thread runs, and while the event worker or
\* Block Ack work is under way, the registers, the private memory and the work
\* queues they use are there: wil_priv_deinit destroys the queues in the order
\* that this needs.
THEOREM HandlersBacked == ProbeSpec => []WorkBacked
<1>1. ProbeIInv => WorkBacked
  BY HeldBacking DEF ProbeIInv, Backed, WorkBacked, Irqs, Backing
<1> QED
  BY <1>1, ProbeInductive, PTL

\* The private memory is there while the interface is registered, and while the
\* disconnect worker is still to be waited for.
LEMMA MemoryHeld ==
  ASSUME ProbeIInv, "netdev" \in held \/ "cancel_disc" \in ToSet(todo)
  PROVE  "wiphy" \in held
<1>1. ProbeTypeOK /\ Taking /\ Releasing
  BY DEF ProbeIInv
<1>2. CASE phase = "release"
  <2>1. "netdev" \in held => "netdev" \in ToSet(todo)
    BY <1>1, <1>2, LeftIs DEF Releasing
  <2>2. "wiphy" \in ToSet(todo)
    BY <2>1, <1>1 DEF Releasing, Closes
  <2> QED
    BY <2>2, <1>1, <1>2, OrderSet DEF Releasing
<1>3. CASE phase # "release"
  <2>1. todo = <<>> /\ ToSet(todo) = {}
    BY <1>1, <1>3, NothingListed DEF Taking
  <2>2. "netdev" \in held
    BY <2>1
  <2>3. phase \in {"probe", "bound"}
    BY <2>2, <1>1, <1>3 DEF Taking, ProbeTypeOK
  <2>4. "netdev" \in Before(at)
    BY <2>2, <2>3, <1>1 DEF Taking
  <2>5. PICK k \in 1..(at - 1) : ProbeOrder[k] = "netdev"
    BY <2>4 DEF Before
  <2>6. at \in 1..20
    BY <1>1, OrderIs DEF ProbeTypeOK
  <2>7. k = 18
    BY <2>5, <2>6, OrderIs
  <2>8. 5 \in 1..(at - 1)
    BY <2>5, <2>6, <2>7
  <2>9. "wiphy" \in Before(at)
    BY <2>8, OrderIs DEF Before
  <2> QED
    BY <2>3, <2>9, <1>1 DEF Taking, NotTaken
<1> QED
  BY <1>2, <1>3

\* The connect timer and the disconnect worker do not outlive the private memory:
\* wil_stop stops the timer, wil_priv_deinit waits for the worker, and nothing
\* arms or queues them in between.
THEOREM TimerInTime == ProbeSpec => []TimerGone
<1>1. ProbeIInv => TimerGone
  BY MemoryHeld DEF ProbeIInv, Unregistered, TimerGone
<1> QED
  BY <1>1, ProbeInductive, PTL

\* Whatever is refused, whatever MSIs were got, and in every life of the device: when a
\* roll-back or remove ends, all that was taken has been given back, but for the one
\* thing that is known to be left there, if any.
THEOREM OnlyKnownLeft == ProbeSpec => []GivesAllBack
<1>1. ProbeIInv => GivesAllBack
  BY NothingListed DEF ProbeIInv, Releasing, GivesAllBack
<1> QED
  BY <1>1, ProbeInductive, PTL

=============================================================================
