------------------------ MODULE TimerDiscoveryProofs ------------------------
(***************************************************************************)
(* Proofs about Discovery, Timer and ByteArray.  The balancer follows the  *)
(* list of the discovery provider by provider, for any providers and any   *)
(* number of changes and expired sessions, whichever thread overtakes the  *)
(* other; the invariant says what each thread knows of a provider on its   *)
(* way from the swap of the list to the balancer.  A timer's callback is   *)
(* not listed before its time, for any number of timers and workers, as    *)
(* long as the clock is not set back.  The nodes of a ByteArray are one    *)
(* sequence of bytes with a position, for nodes and transfers of any size. *)
(***************************************************************************)
EXTENDS TimerDiscovery, Integers, TLAPS

-----------------------------------------------------------------------------
(* The inductive invariant                                                 *)

Labels == {"idle", "register", "query", "read", "swap", "find", "create", "update"}

ListType ==
  /\ zk \in SUBSET Ids /\ m_datas \in SUBSET Ids
  /\ failed \in SUBSET Ids /\ crossed \in SUBSET Ids
  /\ pc \in [Threads -> Labels]
  /\ vals \in [Threads -> SUBSET Ids] /\ old \in [Threads -> SUBSET Ids]

BalancerType ==
  /\ lb \in [Threads -> 0..2] /\ made \in 0..2 /\ current = made
  /\ table \in [LBs -> SUBSET Ids] /\ \A b \in LBs : b > made => table[b] = {}

\* get(): a thread that found no balancer may still create one when the other
\* has, so two are made at most
MadeInv ==
  /\ \A t \in Threads : pc[t] = "create" => made < 2
  /\ made = 1 => \E t \in Threads : pc[t] # "create"
  /\ \A t \in Threads : pc[t] = "update" => lb[t] \in 1..made

\* a provider that two callbacks are about is crossed
AloneInv ==
  \A t, u \in Threads : \A i \in Ids :
    InFlight(t) /\ InFlight(u) /\ i \in Difference(t) /\ i \in Difference(u) => t = u \/ i \in crossed

\* a callback brings what the list says of its other providers, and brings it
\* to the balancer that get() returns
CarryInv ==
  \A t \in Threads : \A i \in Ids :
    InFlight(t) /\ i \in Difference(t) =>
      /\ i \notin failed
      /\ i \in crossed \/ ((i \in vals[t] <=> i \in m_datas) /\ (pc[t] = "update" => lb[t] = current))

\* what no callback is about has reached the balancer: BalancerFollowsList,
\* with the set of changes on their way spelt out
Reached(i) ==
  \/ i \in crossed
  \/ \E t \in Threads : InFlight(t) /\ i \in Difference(t)
  \/ i \in Table <=> (i \in m_datas /\ i \notin failed)

ReachedInv == \A i \in Ids : Reached(i)

ListInv == ListType /\ BalancerType /\ MadeInv /\ AloneInv /\ CarryInv /\ ReachedInv

-----------------------------------------------------------------------------
(* Steps that leave list and balancer alone                                *)

\* the step changes neither the list nor the balancer, and no thread gets on
\* the way or leaves it
Aside ==
  /\ UNCHANGED <<old, lb, m_datas, table, current, made, failed, crossed>>
  /\ \A t \in Threads : InFlight(t) => vals'[t] = vals[t]
  /\ \A t \in Threads : (InFlight(t) \/ InFlight(t)') => pc'[t] = pc[t]

\* a step beside the way from the list to the balancer keeps the invariant
LEMMA AsideKeeps ==
  ASSUME ListInv, Aside, ListType'
  PROVE  ListInv'
  <1>1. \A t \in Threads : InFlight(t)' <=> InFlight(t)
    BY DEF Aside, InFlight
  <1>2. \A t \in Threads : /\ pc'[t] = "create" <=> pc[t] = "create"
                           /\ pc'[t] = "update" <=> pc[t] = "update"
    BY DEF Aside, InFlight
  <1>3. \A t \in Threads : InFlight(t) => Difference(t)' = Difference(t)
    BY DEF Aside, Difference
  <1>4. BalancerType'
    BY DEF ListInv, BalancerType, Aside
  <1>5. MadeInv'
    BY <1>2 DEF ListInv, MadeInv, Aside
  <1>6. AloneInv'
    BY <1>1, <1>3 DEF ListInv, AloneInv, Aside
  <1>7. CarryInv'
    BY <1>1, <1>2, <1>3 DEF ListInv, CarryInv, Aside
  <1>8. Table' = Table
    BY DEF Aside, Table
  <1>9. ReachedInv'
    BY <1>1, <1>3, <1>8 DEF ListInv, ReachedInv, Reached, Aside
  <1> QED BY <1>4, <1>5, <1>6, <1>7, <1>9 DEF ListInv

\* ZooKeeper and the first steps of a handler
LEMMA StepAside ==
  ASSUME ListInv,
         \/ \E i \in Ids : zkChange(i)
         \/ zkConnect \/ zkExpire \/ onWatch \/ onTimer
         \/ \E t \in Threads : registerInfo(t) \/ queryInfo(t) \/ getChildren(t)
  PROVE  ListInv'
  <1> USE DEF ListInv, ListType
  <1> SUFFICES Aside /\ ListType'
    BY AsideKeeps
  <1>1. CASE \E i \in Ids : zkChange(i)
    BY <1>1 DEF zkChange, threadVars, lbVars, Aside, InFlight
  <1>2. CASE zkConnect \/ zkExpire
    BY <1>2 DEF zkConnect, zkExpire, threadVars, lbVars, Aside, InFlight
  <1>3. CASE onWatch
    BY <1>3 DEF onWatch, Handler, Goto, lbVars, Aside, InFlight, Threads, Labels
  <1>4. CASE onTimer
    BY <1>4 DEF onTimer, Goto, zkVars, lbVars, Aside, InFlight, Threads, Labels
  <1>5. ASSUME NEW t \in Threads, registerInfo(t) \/ queryInfo(t) PROVE Aside /\ ListType'
    BY <1>5 DEF registerInfo, queryInfo, create, Goto, lbVars, Aside, InFlight, Threads, Labels
  <1>6. ASSUME NEW t \in Threads, getChildren(t) PROVE Aside /\ ListType'
    BY <1>6 DEF getChildren, Goto, lbVars, Aside, InFlight, Threads, Labels
  <1> QED BY <1>1, <1>2, <1>3, <1>4, <1>5, <1>6

-----------------------------------------------------------------------------
(* The way from the list to the balancer                                   *)

\* the list is replaced: the providers that differ are on their way, and those
\* that already were are crossed
LEMMA StepSwap ==
  ASSUME ListInv, NEW t \in Threads, swap(t)
  PROVE  ListInv'
  <1> USE DEF ListInv
  <1> DEFINE change == (m_datas \ vals[t]) \cup (vals[t] \ m_datas)
  <1>1. /\ pc[t] = "swap" /\ pc' = [pc EXCEPT ![t] = "find"]
        /\ m_datas' = vals[t] /\ old' = [old EXCEPT ![t] = m_datas]
        /\ crossed' = (crossed \ change) \cup (change \cap OnTheirWay)
        /\ failed' = failed \ change
        /\ UNCHANGED <<zk, vals, lb, table, current, made>>
    BY DEF swap, Cross, Goto, zkVars
  <1>2. \A i \in change : i \in crossed' <=> \E u \in Threads : InFlight(u) /\ i \in Difference(u)
    BY <1>1 DEF OnTheirWay
  <1>3. \A i : i \notin change => (i \in crossed' <=> i \in crossed) /\ (i \in m_datas' <=> i \in m_datas)
    BY <1>1
  <1>4. ListType'
    BY <1>1 DEF ListType, Labels
  <1>5. BalancerType' /\ MadeInv' /\ Table' = Table
    BY <1>1 DEF ListType, BalancerType, MadeInv, Threads, Table
  <1>6. /\ \A u \in Threads : u # t => /\ InFlight(u)' <=> InFlight(u)
                                      /\ Difference(u)' = Difference(u) /\ pc'[u] = pc[u]
        /\ ~InFlight(t) /\ InFlight(t)' /\ Difference(t)' = change /\ pc'[t] = "find"
    BY <1>1 DEF InFlight, Difference, ListType
  <1>7. AloneInv'
    <2> SUFFICES ASSUME NEW u \in Threads, NEW v \in Threads, NEW i \in Ids, u # v,
                        InFlight(u)', InFlight(v)', i \in Difference(u)', i \in Difference(v)'
                 PROVE  i \in crossed'
      BY DEF AloneInv
    <2>1. CASE i \in change
      <3>1. PICK w \in {u, v} : w # t
        OBVIOUS
      <3> QED BY <1>2, <1>6, <2>1, <3>1
    <2>2. CASE i \notin change
      BY <1>3, <1>6, <2>2 DEF AloneInv
    <2> QED BY <2>1, <2>2
  <1>8. CarryInv'
    <2> SUFFICES ASSUME NEW u \in Threads, NEW i \in Ids, InFlight(u)', i \in Difference(u)'
                 PROVE  /\ i \notin failed'
                        /\ i \in crossed' \/ ((i \in vals'[u] <=> i \in m_datas')
                                              /\ (pc'[u] = "update" => lb'[u] = current'))
      BY DEF CarryInv
    <2>1. CASE u = t
      BY <1>1, <1>6, <2>1
    <2>2. CASE u # t /\ i \in change
      BY <1>1, <1>2, <1>6, <2>2
    <2>3. CASE u # t /\ i \notin change
      BY <1>1, <1>3, <1>6, <2>3 DEF CarryInv
    <2> QED BY <2>1, <2>2, <2>3
  <1>9. ReachedInv'
    <2> SUFFICES ASSUME NEW i \in Ids PROVE Reached(i)'
      BY DEF ReachedInv
    <2>1. CASE i \in change
      BY <1>6, <2>1 DEF Reached
    <2>2. CASE i \notin change
      BY <1>1, <1>3, <1>5, <1>6, <2>2 DEF ReachedInv, Reached
    <2> QED BY <2>1, <2>2
  <1> QED BY <1>4, <1>5, <1>7, <1>8, <1>9

\* get() finds the balancer, or that there is none
LEMMA StepFind ==
  ASSUME ListInv, NEW t \in Threads, find(t)
  PROVE  ListInv'
  <1> USE DEF ListInv
  <1>1. /\ pc[t] = "find"
        /\ pc' = [pc EXCEPT ![t] = IF current = 0 THEN "create" ELSE "update"]
        /\ lb' = [lb EXCEPT ![t] = current]
        /\ UNCHANGED <<zk, vals, old, m_datas, table, current, made, failed, crossed>>
    BY DEF find, Goto, zkVars, lbVars
  <1>2. ListType'
    BY <1>1 DEF ListType, Labels
  <1>3. BalancerType'
    BY <1>1 DEF BalancerType
  <1>4. MadeInv'
    BY <1>1 DEF ListType, BalancerType, MadeInv, Threads
  <1>5. \A u \in Threads : /\ InFlight(u)' <=> InFlight(u)
                           /\ Difference(u)' = Difference(u)
    BY <1>1 DEF InFlight, Difference, ListType
  <1>6. AloneInv'
    BY <1>1, <1>5 DEF AloneInv
  <1>7. CarryInv'
    BY <1>1, <1>5 DEF CarryInv, ListType, BalancerType
  <1>8. Table' = Table
    BY <1>1 DEF Table
  <1>9. ReachedInv'
    BY <1>1, <1>5, <1>8 DEF ReachedInv, Reached
  <1> QED BY <1>2, <1>3, <1>4, <1>6, <1>7, <1>9

\* the new balancer is empty; what the one before it had, or is about to be
\* told of, is crossed
LEMMA StepCreate ==
  ASSUME ListInv, NEW t \in Threads, createLoadBalance(t)
  PROVE  ListInv'
  <1> USE DEF ListInv
  <1>1. /\ pc[t] = "create" /\ pc' = [pc EXCEPT ![t] = "update"]
        /\ made' = made + 1 /\ current' = made + 1 /\ lb' = [lb EXCEPT ![t] = made + 1]
        /\ crossed' = crossed \cup (Lost \ Difference(t))
        /\ UNCHANGED <<zk, vals, old, m_datas, table, failed>>
    BY DEF createLoadBalance, Goto, zkVars
  <1>2. made \in 0..1 /\ made + 1 \in LBs
    BY <1>1 DEF MadeInv, BalancerType, LBs
  <1>3. /\ \A i \in Lost : i \in crossed' \/ i \in Difference(t)
        /\ \A i \in crossed : i \in crossed'
    BY <1>1
  <1>4. /\ Table \subseteq Lost
        /\ \A u \in Threads : pc[u] = "update" => Difference(u) \subseteq Lost
    BY DEF Lost
  <1>5. ListType'
    <2>1. Table \subseteq Ids
      BY <1>2 DEF Table, BalancerType, LBs
    <2>2. Lost \subseteq Ids
      BY <2>1 DEF Lost, Difference, ListType
    <2>3. crossed' \in SUBSET Ids
      BY <1>1, <2>2 DEF ListType
    <2> QED BY <1>1, <2>3 DEF ListType, Labels
  <1>6. BalancerType'
    BY <1>1, <1>2 DEF BalancerType, LBs
  <1>7. MadeInv'
    BY <1>1, <1>2 DEF ListType, BalancerType, MadeInv, Threads
  <1>8. \A u \in Threads : /\ InFlight(u)' <=> InFlight(u)
                           /\ Difference(u)' = Difference(u)
                           /\ u # t => pc'[u] = pc[u] /\ lb'[u] = lb[u]
    BY <1>1 DEF InFlight, Difference, ListType, BalancerType
  <1>9. AloneInv'
    BY <1>3, <1>8 DEF AloneInv
  <1>10. CarryInv'
    <2> SUFFICES ASSUME NEW u \in Threads, NEW i \in Ids, InFlight(u)', i \in Difference(u)'
                 PROVE  /\ i \notin failed'
                        /\ i \in crossed' \/ ((i \in vals'[u] <=> i \in m_datas')
                                              /\ (pc'[u] = "update" => lb'[u] = current'))
      BY DEF CarryInv
    <2>1. InFlight(u) /\ i \in Difference(u) /\ InFlight(t)
      BY <1>1, <1>8 DEF InFlight
    <2>2. i \notin failed' /\ (i \in crossed' \/ (i \in vals'[u] <=> i \in m_datas'))
      BY <1>1, <1>3, <2>1 DEF CarryInv
    <2>3. CASE u = t
      BY <1>1, <2>2, <2>3 DEF BalancerType
    <2>4. CASE u # t /\ pc[u] = "update"
      BY <1>3, <1>4, <2>1, <2>2, <2>4 DEF AloneInv
    <2>5. CASE u # t /\ pc[u] # "update"
      BY <1>8, <2>2, <2>5
    <2> QED BY <2>3, <2>4, <2>5
  <1>11. ReachedInv'
    <2> SUFFICES ASSUME NEW i \in Ids PROVE Reached(i)'
      BY DEF ReachedInv
    <2>1. Table' = {}
      BY <1>1, <1>2 DEF Table, BalancerType, LBs
    <2>2. CASE i \in Table
      <3>1. i \in crossed' \/ (InFlight(t)' /\ i \in Difference(t)')
        BY <1>1, <1>3, <1>4, <1>8, <2>2 DEF InFlight
      <3> QED BY <3>1 DEF Reached
    <2>3. CASE i \notin Table
      BY <1>1, <1>3, <1>8, <2>1, <2>3 DEF ReachedInv, Reached
    <2> QED BY <2>2, <2>3
  <1> QED BY <1>5, <1>6, <1>7, <1>9, <1>10, <1>11

\* the differences, applied to what the balancer has, give what the list says
LEMMA StepUpdate ==
  ASSUME ListInv, NEW t \in Threads, update(t)
  PROVE  ListInv'
  <1> USE DEF ListInv
  <1> DEFINE gone == old[t] \ vals[t]
             come == vals[t] \ old[t]
             b == lb[t]
  <1>1. PICK F \in SUBSET come :
          /\ table' = [table EXCEPT ![b] = (@ \ gone) \cup (come \ F)]
          /\ failed' = failed \cup (F \ (table[b] \cup crossed))
    BY DEF update
  <1>2. /\ pc[t] = "update" /\ pc' = [pc EXCEPT ![t] = "idle"]
        /\ vals' = [vals EXCEPT ![t] = {}] /\ old' = [old EXCEPT ![t] = {}]
        /\ lb' = [lb EXCEPT ![t] = 0]
        /\ UNCHANGED <<zk, m_datas, current, made, crossed>>
    BY DEF update, Goto, zkVars
  <1>3. b \in 1..made /\ b \in LBs /\ InFlight(t) /\ Difference(t) = gone \cup come
    BY <1>2 DEF MadeInv, BalancerType, LBs, InFlight, Difference
  <1>4. gone \subseteq Ids /\ come \subseteq Ids /\ table[b] \subseteq Ids
    BY <1>3 DEF ListType, BalancerType
  <1>5. ListType'
    <2>1. failed' \in SUBSET Ids
      BY <1>1, <1>4 DEF ListType
    <2> QED BY <1>2, <2>1 DEF ListType, Labels
  <1>6. BalancerType'
    BY <1>1, <1>2, <1>3, <1>4 DEF BalancerType
  <1>7. MadeInv'
    BY <1>2 DEF ListType, BalancerType, MadeInv, Threads
  <1>8. /\ ~InFlight(t)'
        /\ \A u \in Threads : u # t => /\ InFlight(u)' <=> InFlight(u)
                                      /\ Difference(u)' = Difference(u)
                                      /\ pc'[u] = pc[u] /\ lb'[u] = lb[u] /\ vals'[u] = vals[u]
    BY <1>2 DEF InFlight, Difference, ListType, BalancerType
  <1>9. AloneInv'
    BY <1>2, <1>8 DEF AloneInv
  <1>10. CarryInv'
    <2> SUFFICES ASSUME NEW u \in Threads, NEW i \in Ids, InFlight(u)', i \in Difference(u)'
                 PROVE  /\ i \notin failed'
                        /\ i \in crossed' \/ ((i \in vals'[u] <=> i \in m_datas')
                                              /\ (pc'[u] = "update" => lb'[u] = current'))
      BY DEF CarryInv
    <2>1. u # t /\ InFlight(u) /\ i \in Difference(u)
      BY <1>8
    <2>2. i \notin failed'
      BY <1>1, <1>3, <2>1 DEF AloneInv, CarryInv
    <2> QED BY <1>2, <1>8, <2>1, <2>2 DEF CarryInv
  <1>11. ReachedInv'
    <2> SUFFICES ASSUME NEW i \in Ids, i \notin crossed',
                        \A u \in Threads : ~(InFlight(u)' /\ i \in Difference(u)')
                 PROVE  i \in Table' <=> (i \in m_datas' /\ i \notin failed')
      BY DEF ReachedInv, Reached
    <2>1. i \notin crossed /\ \A u \in Threads : u # t => ~(InFlight(u) /\ i \in Difference(u))
      BY <1>2, <1>8
    <2>2. CASE i \in Difference(t)
      <3>1. b = current /\ (i \in vals[t] <=> i \in m_datas) /\ i \notin failed
        BY <1>2, <1>3, <2>1, <2>2 DEF CarryInv
      <3>2. Table' = (table[b] \ gone) \cup (come \ F)
        BY <1>1, <1>2, <1>3, <3>1 DEF Table, BalancerType
      <3> QED BY <1>1, <1>2, <1>3, <2>1, <2>2, <3>1, <3>2
    <2>3. CASE i \notin Difference(t)
      <3>1. i \in Table <=> (i \in m_datas /\ i \notin failed)
        BY <2>1, <2>3 DEF ReachedInv, Reached
      <3>2. i \in Table' <=> i \in Table
        BY <1>1, <1>2, <1>3, <2>3 DEF Table, BalancerType, LBs
      <3>3. i \in failed' <=> i \in failed
        BY <1>1, <1>3, <2>3
      <3> QED BY <1>2, <3>1, <3>2, <3>3
    <2> QED BY <2>2, <2>3
  <1> QED BY <1>5, <1>6, <1>7, <1>9, <1>10, <1>11

-----------------------------------------------------------------------------
(* The theorems                                                            *)

\* ListInv is an invariant, whatever ZooKeeper and the two threads do
THEOREM DiscoveryInvariant == Spec => []ListInv
  <1>1. Init => ListInv
    <2> SUFFICES ASSUME Init PROVE ListInv
      OBVIOUS
    <2>1. ListType
      <3>1. "idle" \in Labels
        BY DEF Labels
      <3> QED BY Zenon, <3>1 DEF Init, ListType
    <2>2. BalancerType
      <3>1. 0 \in 0..2
        OBVIOUS
      <3> QED BY Zenon, <3>1 DEF Init, BalancerType
    <2>3. \A t \in Threads : pc[t] = "idle" /\ ~InFlight(t)
      BY DEF Init, InFlight
    <2>4. MadeInv /\ AloneInv /\ CarryInv
      BY <2>3 DEF Init, MadeInv, AloneInv, CarryInv
    <2>5. ReachedInv
      BY <2>3 DEF Init, ReachedInv, Reached, Table
    <2> QED BY <2>1, <2>2, <2>4, <2>5 DEF ListInv
  <1>2. ASSUME ListInv, [Next]_vars PROVE ListInv'
    <2>1. CASE UNCHANGED vars
      <3>1. Aside /\ ListType'
        BY <1>2, <2>1 DEF vars, zkVars, threadVars, lbVars, Aside, ListInv, ListType
      <3> QED BY <1>2, <3>1, AsideKeeps
    <2>2. CASE Next
      BY <1>2, <2>2, StepAside, StepSwap, StepFind, StepCreate, StepUpdate
         DEF Next, Thread, GetChildren
    <2> QED BY <1>2, <2>1, <2>2
  <1> QED BY <1>1, <1>2, PTL DEF Spec

\* onServiceChange: each change of a provider reaches the balancer that get()
\* returns, unless it met another change of that provider on its way or its
\* balancer was replaced
THEOREM BalancerIsTheList == Spec => []BalancerFollowsList
  <1>1. ListInv => BalancerFollowsList
    <2> SUFFICES ASSUME ListInv, NEW i \in Ids, i \notin crossed, i \notin OnTheirWay
                 PROVE  i \in Table <=> i \in m_datas \ failed
      BY DEF BalancerFollowsList
    <2>1. ~\E t \in Threads : InFlight(t) /\ i \in Difference(t)
      BY DEF OnTheirWay
    <2> QED BY <2>1 DEF ListInv, ReachedInv, Reached
  <1> QED BY <1>1, DiscoveryInvariant, PTL

\* SDLoadBalance::get: one balancer at most is ever left behind by another
THEOREM LeftBehindOnce == Spec => []OneLeftBehind
  <1>1. ListInv => OneLeftBehind
    BY DEF ListInv, BalancerType, OneLeftBehind
  <1> QED BY <1>1, DiscoveryInvariant, PTL

-----------------------------------------------------------------------------
(* Timers.  T!x is the x of Timer.                                         *)

\* the readings of the clock are old, and the start of a timer, which reset()
\* computes as m_next - m_ms without a sign, is not negative
ClockInv ==
  /\ clock \in Nat /\ setBacks \in Nat /\ m_previouseTime \in Nat
  /\ m_next \in [Timers -> Nat] /\ m_ms \in [Timers -> Nat]
  /\ now_ms \in [Workers -> Nat] /\ cbs \in [Workers -> SUBSET Timers]
  /\ m_timers \subseteq Timers
  /\ \A t \in Timers : m_ms[t] <= m_next[t]
  /\ setBacks = 0 => m_previouseTime <= clock /\ \A w \in Workers : now_ms[w] <= clock

LEMMA ClockGoesOn ==
  ASSUME ClockInv, T!tick \/ T!setBack
  PROVE  ClockInv'
  <1>1. /\ UNCHANGED <<m_timers, m_next, m_ms, m_previouseTime, now_ms, cbs>>
        /\ clock' \in Nat /\ setBacks' \in Nat
        /\ setBacks' = 0 => setBacks = 0 /\ clock <= clock'
    BY TimersAssumption DEF ClockInv, T!tick, T!setBack
  <1>2. setBacks' = 0 => m_previouseTime' <= clock' /\ \A w \in Workers : now_ms'[w] <= clock'
    BY <1>1 DEF ClockInv
  <1> QED BY ZenonT(40), <1>1, <1>2 DEF ClockInv

LEMMA ClockClient ==
  ASSUME ClockInv, NEW t \in Timers, T!Client(t)
  PROVE  ClockInv'
  <1>1. UNCHANGED <<m_previouseTime, now_ms, cbs, clock, setBacks>> /\ m_timers' \subseteq Timers
    BY ZenonT(40) DEF ClockInv, T!Client, T!addTimer, T!cancel, T!refresh, T!reset
  <1>2. /\ m_next' \in [Timers -> Nat] /\ m_ms' \in [Timers -> Nat]
        /\ \A u \in Timers : m_ms'[u] <= m_next'[u]
    <2>1. ASSUME NEW ms \in Periods, NEW recurring \in BOOLEAN, T!addTimer(t, ms, recurring)
          PROVE  /\ m_next' \in [Timers -> Nat] /\ m_ms' \in [Timers -> Nat]
                 /\ \A u \in Timers : m_ms'[u] <= m_next'[u]
      BY <2>1, TimersAssumption DEF ClockInv, T!addTimer
    <2>2. CASE T!cancel(t)
      BY ZenonT(40), <2>2 DEF ClockInv, T!cancel
    <2>3. CASE T!refresh(t)
      BY <2>3 DEF ClockInv, T!refresh
    <2>4. ASSUME NEW ms \in Periods, NEW from_now \in BOOLEAN, T!reset(t, ms, from_now)
          PROVE  /\ m_next' \in [Timers -> Nat] /\ m_ms' \in [Timers -> Nat]
                 /\ \A u \in Timers : m_ms'[u] <= m_next'[u]
      BY <2>4, TimersAssumption DEF ClockInv, T!reset
    <2> QED BY ZenonT(40), <2>1, <2>2, <2>3, <2>4 DEF T!Client
  <1> QED BY ZenonT(40), <1>1, <1>2 DEF ClockInv

LEMMA ClockIdle ==
  ASSUME ClockInv, NEW w \in Workers, T!Idle(w)
  PROVE  ClockInv'
  <1>1. CASE T!readClock(w) \/ T!listNothing(w) \/ T!scheduleCbs(w)
    <2>1. /\ UNCHANGED <<m_timers, m_next, m_ms, m_previouseTime, clock, setBacks>>
          /\ cbs' \in [Workers -> SUBSET Timers]
          /\ now_ms' = [now_ms EXCEPT ![w] = clock] \/ now_ms' = [now_ms EXCEPT ![w] = 0]
      BY ZenonT(40), <1>1 DEF ClockInv, T!readClock, T!listNothing, T!scheduleCbs
    <2>2. /\ now_ms' \in [Workers -> Nat]
          /\ setBacks = 0 => \A v \in Workers : now_ms'[v] <= clock
      BY <2>1 DEF ClockInv
    <2> QED BY ZenonT(40), <2>1, <2>2 DEF ClockInv
  <1>2. CASE T!listExpiredCb(w)
    <2> DEFINE now == now_ms[w]
               again == T!Again(T!Expired(now))
    <2>1. /\ m_previouseTime' = now /\ now \in Nat
          /\ m_next' = [t \in Timers |-> IF t \in again THEN now + m_ms[t] ELSE m_next[t]]
          /\ UNCHANGED <<m_ms, clock, setBacks>>
      BY ZenonT(40), <1>2 DEF ClockInv, T!listExpiredCb
    <2>2. cbs' \in [Workers -> SUBSET Timers] /\ m_timers' \subseteq Timers
      BY ZenonT(40), <1>2 DEF ClockInv, T!listExpiredCb, T!Expired, T!Again
    <2>3. now_ms' = [now_ms EXCEPT ![w] = now] \/ now_ms' = [now_ms EXCEPT ![w] = 0]
      BY ZenonT(40), <1>2 DEF T!listExpiredCb
    <2> HIDE DEF again, now
    <2>4. m_next' \in [Timers -> Nat] /\ \A t \in Timers : m_ms'[t] <= m_next'[t]
      BY <2>1 DEF ClockInv
    <2>5. setBacks = 0 => now <= clock
      BY Zenon DEF ClockInv, now
    <2>6. /\ now_ms' \in [Workers -> Nat]
          /\ setBacks = 0 => \A v \in Workers : now_ms'[v] <= clock
      BY <2>1, <2>3, <2>5 DEF ClockInv
    <2> QED BY ZenonT(40), <2>1, <2>2, <2>4, <2>5, <2>6 DEF ClockInv
  <1> QED BY ZenonT(40), <1>1, <1>2 DEF T!Idle

\* ClockInv is inductive
LEMMA NextClock == ClockInv /\ [T!Next]_(T!vars) => ClockInv'
  <1> SUFFICES ASSUME ClockInv, [T!Next]_(T!vars) PROVE ClockInv'
    OBVIOUS
  <1>1. CASE UNCHANGED T!vars
    BY ZenonT(40), <1>1 DEF T!vars, ClockInv
  <1> QED BY ZenonT(40), <1>1, ClockGoesOn, ClockClient, ClockIdle DEF T!Next

LEMMA InitClock == T!Init => ClockInv
  BY DEF T!Init, ClockInv

\* a step that lists callbacks lists those that are due, by a reading that is
\* not ahead of the clock
LEMMA StepNotEarly ==
  ASSUME ClockInv, T!Next, setBacks' = 0, NEW w \in Workers, clock <= now_ms[w] + Hour,
         NEW t \in cbs'[w] \ cbs[w]
  PROVE  m_next[t] <= clock
  <1>1. PICK v \in Workers : T!listExpiredCb(v)
    <2>1. CASE T!tick \/ T!setBack \/ \E u \in Timers : T!Client(u)
      BY ZenonT(40), <2>1 DEF T!tick, T!setBack, T!Client, T!addTimer, T!cancel, T!refresh,
           T!reset
    <2>2. ASSUME NEW v \in Workers, T!readClock(v) \/ T!listNothing(v) \/ T!scheduleCbs(v)
          PROVE  FALSE
      BY ZenonT(40), <2>2 DEF ClockInv, T!readClock, T!listNothing, T!scheduleCbs
    <2> QED BY ZenonT(40), <2>1, <2>2 DEF T!Next, T!Idle
  <1>2. /\ cbs' = [cbs EXCEPT ![v] = T!Expired(now_ms[v])] /\ setBacks = 0
    BY ZenonT(40), <1>1 DEF T!listExpiredCb
  <1>3. v = w /\ t \in T!Expired(now_ms[w])
    BY ZenonT(40), <1>2 DEF ClockInv
  <1>4. t \in Timers /\ (now_ms[w] + Hour < m_previouseTime \/ m_next[t] <= now_ms[w])
    BY ZenonT(40), <1>3 DEF ClockInv, T!Expired, T!detectClockRollover
  <1>5. /\ now_ms[w] \in Nat /\ m_next[t] \in Nat /\ clock \in Nat /\ m_previouseTime \in Nat
        /\ now_ms[w] <= clock /\ m_previouseTime <= clock
    BY ZenonT(40), <1>2, <1>4 DEF ClockInv
  <1> QED BY <1>4, <1>5, TimersAssumption

\* as long as the clock is not set back no callback is listed before its time
THEOREM CallbacksNotEarly == T!Spec => NotEarly
  <1>1. ClockInv /\ [T!Next]_(T!vars) =>
          [setBacks' = 0 =>
             \A w \in Workers : clock <= now_ms[w] + Hour =>
               \A t \in cbs'[w] \ cbs[w] : m_next[t] <= clock]_(T!vars)
    BY ZenonT(40), StepNotEarly
  <1> QED BY InitClock, NextClock, <1>1, PTL DEF T!Spec, NotEarly, T!NotEarly

-----------------------------------------------------------------------------
(* The bytes of ByteArray                                                  *)

\* a factor that is larger by one or more
LEMMA AtLeastOnce ==
  ASSUME NEW b \in Nat, NEW q \in Nat, NEW r \in Nat, q < r
  PROVE  b * q + b <= b * r
  <1> PICK x \in Nat : r = q + 1 + x
    <2> r - q - 1 \in Nat
      OBVIOUS
    <2> r = q + 1 + (r - q - 1)
      OBVIOUS
    <2> QED
      OBVIOUS
  <1>1. b * r = b * q + b + b * x
    OBVIOUS
  <1>2. b * x \in Nat
    OBVIOUS
  <1> QED
    BY <1>1, <1>2

\* quotient and remainder
LEMMA Division ==
  ASSUME NEW a \in Nat, NEW b \in Nat \ {0}
  PROVE  /\ a \div b \in Nat /\ a % b \in 0..(b - 1)
         /\ a = b * (a \div b) + (a % b)
  OBVIOUS

\* ... by their names
LEMMA Divided ==
  ASSUME NEW a \in Nat, NEW b \in Nat \ {0}
  PROVE  \E q \in Nat, r \in 0..(b - 1) :
            q = a \div b /\ r = a % b /\ a = b * q + r
  BY Division, Zenon

\* ... and there are no others
LEMMA DivisionUnique ==
  ASSUME NEW b \in Nat \ {0}, NEW q \in Nat, NEW r \in 0..(b - 1)
  PROVE  (b * q + r) \div b = q /\ (b * q + r) % b = r
  <1> PICK a \in Nat : a = b * q + r
    OBVIOUS
  <1> PICK x \in Nat, y \in 0..(b - 1) : x = a \div b /\ y = a % b /\ a = b * x + y
    BY Division
  <1>1. ~(x < q)
    BY AtLeastOnce
  <1>2. ~(q < x)
    BY AtLeastOnce
  <1>3. x = q
    BY <1>1, <1>2
  <1> QED
    BY <1>3

\* rounding up: that many nodes hold x bytes
LEMMA RoundUp ==
  ASSUME NEW x \in Nat, NEW b \in Nat \ {0}
  PROVE  (x + b - 1) \div b \in Nat /\ x <= b * ((x + b - 1) \div b)
  <1>1. x + b - 1 \in Nat
    OBVIOUS
  <1> QED
    BY <1>1, Division

\* byte i of count nodes is in one of them
LEMMA InNode ==
  ASSUME NEW i \in Nat \ {0}, NEW count \in Nat, NEW b \in Nat \ {0}, i <= b * count
  PROVE  1 + (i - 1) \div b \in 1..count /\ (i - 1) % b \in 0..(b - 1)
  <1>1. i - 1 \in Nat
    OBVIOUS
  <1> PICK q \in Nat, r \in 0..(b - 1) : q = (i - 1) \div b /\ r = (i - 1) % b /\ i - 1 = b * q + r
    BY <1>1, Division
  <1>2. ~(count <= q)
    <2> SUFFICES ASSUME count <= q PROVE FALSE
      OBVIOUS
    <2>1. b * count <= b * q
      BY AtLeastOnce
    <2> QED
      BY <2>1
  <1> QED
    BY <1>2

\* n bytes on from the place of pos in its node: the place of pos + n
LEMMA Onwards ==
  ASSUME NEW pos \in Nat, NEW n \in Nat, NEW b \in Nat \ {0}
  PROVE  /\ pos \div b + ((pos % b) + n) \div b = (pos + n) \div b
         /\ ((pos % b) + n) % b = (pos + n) % b
  <1>1. PICK q \in Nat, r \in 0..(b - 1) : q = pos \div b /\ r = pos % b /\ pos = b * q + r
    BY Divided, Zenon
  <1>2. r + n \in Nat
    BY <1>1
  <1>3. PICK x \in Nat, y \in 0..(b - 1) :
           x = (r + n) \div b /\ y = (r + n) % b /\ r + n = b * x + y
    BY <1>2, Divided, Zenon
  <1>4. q \in Nat /\ r \in Int /\ x \in Nat /\ y \in 0..(b - 1) /\ q + x \in Nat
    BY <1>1, <1>3
  <1>5. pos = b * q + r /\ r + n = b * x + y
    BY <1>1, <1>3, Zenon
  <1>6. pos + n = b * (q + x) + y
    BY <1>4, <1>5
  <1>7. (pos + n) \div b = q + x /\ (pos + n) % b = y
    <2>1. (b * (q + x) + y) \div b = q + x /\ (b * (q + x) + y) % b = y
      BY <1>4, DivisionUnique, Zenon
    <2> QED
      BY <1>6, <2>1, Zenon
  <1>8. q + x = pos \div b + ((pos % b) + n) \div b /\ y = ((pos % b) + n) % b
    BY <1>1, <1>3, Zenon
  <1> QED
    BY <1>7, <1>8, Zenon

\* more nodes hold more bytes
LEMMA MoreNodes ==
  ASSUME NEW x \in Nat, NEW l \in Nat, NEW count \in Nat, NEW b \in Nat \ {0},
         x <= b * l, l <= count
  PROVE  x <= b * count /\ b * count \in Nat
  <1>1. CASE l = count
    BY <1>1
  <1>2. CASE l < count
    BY <1>2, AtLeastOnce
  <1> QED
    BY <1>1, <1>2

\* the same in the nodes of the array
LEMMA OnwardsHere ==
  ASSUME NEW pos \in Nat, NEW n \in Nat
  PROVE  /\ (1 + pos \div BaseSize) + ((pos % BaseSize) + n) \div BaseSize
               = 1 + (pos + n) \div BaseSize
         /\ ((pos % BaseSize) + n) % BaseSize = (pos + n) % BaseSize
  <1>1. /\ pos \div BaseSize + ((pos % BaseSize) + n) \div BaseSize = (pos + n) \div BaseSize
        /\ ((pos % BaseSize) + n) % BaseSize = (pos + n) % BaseSize
    BY Onwards, ArrayAssumption, Zenon
  <1>2. pos \div BaseSize \in Int /\ pos % BaseSize \in Nat
    BY Division, ArrayAssumption
  <1>3. (pos % BaseSize) + n \in Nat
    BY <1>2
  <1>4. ((pos % BaseSize) + n) \div BaseSize \in Int
    BY <1>3, Division, ArrayAssumption
  <1>5. (1 + pos \div BaseSize) + ((pos % BaseSize) + n) \div BaseSize
          = 1 + (pos \div BaseSize + ((pos % BaseSize) + n) \div BaseSize)
    BY <1>2, <1>4
  <1> QED
    BY <1>1, <1>5, Zenon

\* sequences as functions
LEMMA FunctionIsSeq ==
  ASSUME NEW Elem, NEW n \in Nat, NEW f \in [1..n -> Elem]
  PROVE  f \in Seq(Elem) /\ Len(f) = n
  OBVIOUS

LEMMA SameSeq ==
  ASSUME NEW Elem, NEW s \in Seq(Elem), NEW t \in Seq(Elem),
         Len(s) = Len(t), \A i \in 1..Len(s) : s[i] = t[i]
  PROVE  s = t
  OBVIOUS

ByteAt(list, i) == list[1 + (i - 1) \div BaseSize][(i - 1) % BaseSize]

Bytes == [i \in 1..m_size |-> ByteAt(nodes, i)]

NodeOf(count, pos) ==
  IF 1 + pos \div BaseSize > count THEN B!nullptr ELSE 1 + pos \div BaseSize

(* m_cur is the node of m_position, and null behind the last one: what each
   operation of the code restores for the next.                            *)
ArrayInv ==
  /\ nodes \in Seq([B!Places -> Byte]) /\ Len(nodes) >= 1
  /\ m_position \in Nat /\ m_size \in Nat /\ moved \in Seq(Byte)
  /\ m_position <= m_size /\ m_size <= BaseSize * Len(nodes)
  /\ m_cur = NodeOf(Len(nodes), m_position)
  /\ crashed \in BOOLEAN

\* where the next byte goes, also where m_cur is null and a node is added
LEMMA CurIs ==
  ASSUME ArrayInv
  PROVE  B!Cur = 1 + m_position \div BaseSize /\ B!Cur # B!nullptr
  <1> USE ArrayAssumption
  <1> PICK b \in Nat \ {0} : b = BaseSize
    OBVIOUS
  <1> PICK l \in Nat : l = Len(nodes)
    BY DEF ArrayInv
  <1> PICK pos \in Nat : pos = m_position /\ pos <= b * l
    BY DEF ArrayInv
  <1>1. B!Cur = IF b * l - pos = 0 THEN l + 1 ELSE m_cur
    BY DEF B!Cur, B!getCapacity, B!m_capacity
  <1>2. ASSUME pos = b * l PROVE B!Cur = 1 + pos \div b
    <2>1. pos = b * l + 0 /\ 0 \in 0..(b - 1)
      BY <1>2
    <2>2. pos \div b = l
      BY <2>1, DivisionUnique
    <2> QED
      BY <1>1, <1>2, <2>2
  <1>3. ASSUME pos # b * l PROVE B!Cur = 1 + pos \div b
    <2>1. pos + 1 <= b * l /\ pos + 1 \in Nat \ {0} /\ (pos + 1) - 1 = pos
      BY <1>3
    <2>2. 1 + pos \div b \in 1..l
      BY <2>1, InNode
    <2>3. m_cur = 1 + pos \div b
      BY <2>2 DEF ArrayInv, NodeOf
    <2> QED
      BY <1>1, <1>3, <2>3
  <1>4. B!Cur = 1 + pos \div b
    BY <1>2, <1>3, Zenon
  <1>5. 1 + pos \div b # 0
    BY Division
  <1> QED
    BY <1>4, <1>5, Zenon DEF B!nullptr

\* addCapacity makes room for n bytes behind the position
LEMMA CapacityIs ==
  ASSUME ArrayInv, NEW n \in Nat
  PROVE  /\ B!addCapacity(n) \in Nat /\ B!addCapacity(n) >= Len(nodes)
         /\ m_position + n <= BaseSize * B!addCapacity(n)
  <1> USE ArrayAssumption
  <1> PICK b \in Nat \ {0} : b = BaseSize
    OBVIOUS
  <1> PICK l \in Nat : l = Len(nodes)
    BY DEF ArrayInv
  <1> PICK pos \in Nat : pos = m_position /\ pos <= b * l
    BY DEF ArrayInv
  <1> PICK c \in Nat : c = b * l - pos
    OBVIOUS
  <1>1. B!addCapacity(n) = IF c >= n THEN l ELSE l + (n - c + b - 1) \div b
    BY DEF B!addCapacity, B!getCapacity, B!m_capacity
  <1>2. CASE c >= n
    BY <1>1, <1>2
  <1>3. CASE ~(c >= n)
    <2> PICK x \in Nat : x = n - c
      BY <1>3
    <2> PICK q \in Nat : q = (x + b - 1) \div b /\ x <= b * q
      BY RoundUp
    <2>1. B!addCapacity(n) = l + q
      BY <1>1, <1>3
    <2>2. b * (l + q) = b * l + b * q
      OBVIOUS
    <2> QED
      BY <2>1, <2>2
  <1> QED
    BY <1>2, <1>3

\* the nodes that were there stay
LEMMA GrownIs ==
  ASSUME ArrayInv, NEW count \in Nat, count >= Len(nodes), NEW c \in Byte
  PROVE  /\ B!Grown(count, c) \in Seq([B!Places -> Byte]) /\ Len(B!Grown(count, c)) = count
         /\ \A i \in 1..Len(nodes) : B!Grown(count, c)[i] = nodes[i]
  <1>1. B!Grown(count, c) \in [1..count -> [B!Places -> Byte]]
    BY DEF B!Grown, ArrayInv
  <1>2. \A i \in 1..Len(nodes) : B!Grown(count, c)[i] = nodes[i]
    BY DEF B!Grown, ArrayInv
  <1> QED
    BY <1>1, <1>2

\* the loop of write() over the nodes: data go behind the position, all other bytes stay
LEMMA StoredIs ==
  ASSUME ArrayInv, NEW list \in Seq([B!Places -> Byte]), NEW data \in Seq(Byte)
  PROVE  /\ B!Stored(list, B!Cur, data) \in Seq([B!Places -> Byte])
         /\ Len(B!Stored(list, B!Cur, data)) = Len(list)
         /\ \A i \in 1..(BaseSize * Len(list)) :
              ByteAt(B!Stored(list, B!Cur, data), i)
                = IF i \in (m_position + 1)..(m_position + Len(data))
                  THEN data[i - m_position] ELSE ByteAt(list, i)
  <1> USE ArrayAssumption
  <1> PICK b \in Nat \ {0} : b = BaseSize
    OBVIOUS
  <1> PICK pos \in Nat : pos = m_position
    BY DEF ArrayInv
  <1>q. PICK q \in Nat, r \in 0..(b - 1) : q = pos \div b /\ r = pos % b /\ pos = b * q + r
    BY Divided, Zenon
  <1> PICK l \in Nat : l = Len(list) /\ DOMAIN list = 1..l
    OBVIOUS
  <1> PICK m \in Nat : m = Len(data) /\ DOMAIN data = 1..m
    OBVIOUS
  <1> DEFINE S == B!Stored(list, B!Cur, data)
  <1>1. S = [i \in 1..l |-> [p \in B!Places |->
               LET k == (i - (1 + q)) * b + p - r + 1
               IN  IF k \in 1..m THEN data[k] ELSE list[i][p]]]
    BY <1>q, CurIs, Zenon DEF B!Stored, B!npos
  <1>2. S \in [1..l -> [B!Places -> Byte]]
    BY <1>1
  <1>3. ASSUME NEW i \in 1..(b * l)
        PROVE  ByteAt(S, i) = IF i \in (pos + 1)..(pos + m) THEN data[i - pos] ELSE ByteAt(list, i)
    <2>1. i \in Nat \ {0} /\ i <= b * l /\ i - 1 \in Nat
      BY <1>3
    <2>2. PICK j \in Nat, p \in 0..(b - 1) :
             j = (i - 1) \div b /\ p = (i - 1) % b /\ i - 1 = b * j + p
      BY <2>1, Divided, Zenon
    <2>3. 1 + j \in 1..l /\ p \in B!Places
      BY <2>1, <2>2, InNode, Zenon DEF B!Places
    <2>4. j \in Nat /\ p \in Int /\ q \in Nat /\ r \in Int /\ i \in Int
      BY <1>q, <2>1, <2>2
    <2>5. i - 1 = b * j + p /\ pos = b * q + r
      BY <1>q, <2>2, Zenon
    <2>6. ((1 + j) - (1 + q)) * b + p - r + 1 = i - pos
      BY <2>4, <2>5
    <2>7. S[1 + j][p] = IF i - pos \in 1..m THEN data[i - pos] ELSE list[1 + j][p]
      <3> DEFINE k == ((1 + j) - (1 + q)) * b + p - r + 1
      <3>1. S[1 + j] = [c \in B!Places |->
               LET e == ((1 + j) - (1 + q)) * b + c - r + 1
               IN  IF e \in 1..m THEN data[e] ELSE list[1 + j][c]]
        BY <1>1, <2>3, Zenon
      <3>2. S[1 + j][p] = IF k \in 1..m THEN data[k] ELSE list[1 + j][p]
        BY <3>1, <2>3, Zenon
      <3> QED
        BY <3>2, <2>6, Zenon
    <2>8. ByteAt(S, i) = S[1 + j][p] /\ ByteAt(list, i) = list[1 + j][p]
      BY <2>2, Zenon DEF ByteAt
    <2>9. i - pos \in 1..m <=> i \in (pos + 1)..(pos + m)
      BY <2>1
    <2> QED
      BY <2>7, <2>8, <2>9, Zenon
  <1> QED
    BY <1>2, <1>3

\* the bytes of a list of nodes are a sequence
LEMMA BytesOf ==
  ASSUME NEW list \in Seq([B!Places -> Byte]), NEW size \in Nat, size <= BaseSize * Len(list)
  PROVE  /\ [i \in 1..size |-> ByteAt(list, i)] \in Seq(Byte)
         /\ Len([i \in 1..size |-> ByteAt(list, i)]) = size
  <1>1. ASSUME NEW i \in 1..size PROVE ByteAt(list, i) \in Byte
    <2>1. i \in Nat \ {0} /\ i <= BaseSize * Len(list) /\ Len(list) \in Nat
      BY ArrayAssumption
    <2>2. 1 + (i - 1) \div BaseSize \in 1..Len(list) /\ (i - 1) % BaseSize \in B!Places
      BY <2>1, InNode, ArrayAssumption, Zenon DEF B!Places
    <2>3. \A j \in 1..Len(list) : list[j] \in [B!Places -> Byte]
      OBVIOUS
    <2> QED
      BY <2>2, <2>3, Zenon DEF ByteAt
  <1>2. [i \in 1..size |-> ByteAt(list, i)] \in [1..size -> Byte]
    BY <1>1, Zenon
  <1> HIDE DEF ByteAt
  <1> QED
    BY <1>2

\* a transfer into the array, whichever way m_cur is moved on
LEMMA TransferIn ==
  ASSUME ArrayInv, NEW data \in Seq(Byte), NEW count \in Nat, count >= Len(nodes),
         m_position + Len(data) <= BaseSize * count, NEW c \in Byte,
         nodes' = B!Stored(B!Grown(count, c), B!Cur, data),
         m_position' = m_position + Len(data), m_size' = B!Max(m_size, m_position'), moved' = data
  PROVE  /\ B!Buffer!Write
         /\ nodes' \in Seq([B!Places -> Byte]) /\ Len(nodes') = count
         /\ m_size' \in Nat /\ m_position' <= m_size' /\ m_size' <= BaseSize * count
  <1> PICK b \in Nat \ {0} : b = BaseSize
    BY ArrayAssumption
  <1>0. m_position \in Nat /\ m_size \in Nat /\ Len(nodes) \in Nat /\ Len(data) \in Nat
    BY DEF ArrayInv
  <1> PICK pos \in Nat, size \in Nat, l \in Nat, m \in Nat :
        pos = m_position /\ size = m_size /\ l = Len(nodes) /\ m = Len(data)
    BY <1>0, Zenon
  <1>1. pos <= size /\ size <= b * l /\ nodes \in Seq([B!Places -> Byte])
    BY DEF ArrayInv
  <1>2. PICK g \in Seq([B!Places -> Byte]) :
           g = B!Grown(count, c) /\ Len(g) = count /\ \A i \in 1..l : g[i] = nodes[i]
    BY GrownIs, Zenon
  <1>3. /\ nodes' \in Seq([B!Places -> Byte]) /\ Len(nodes') = count
        /\ \A i \in 1..(b * count) :
             ByteAt(nodes', i) = IF i \in (pos + 1)..(pos + m) THEN data[i - pos] ELSE ByteAt(g, i)
    BY <1>2, StoredIs, Zenon
  <1>4. m_position' = pos + m /\ pos + m \in Nat /\ pos + m <= b * count /\ l <= count
    OBVIOUS
  <1>5. m_size' = IF size > pos + m THEN size ELSE pos + m
    BY DEF B!Max
  <1>6. m_size' \in Nat /\ pos + m <= m_size' /\ m_size' <= b * count
    <2>1. size <= b * count
      BY <1>1, <1>4, MoreNodes, Zenon
    <2>2. CASE size > pos + m
      <3>1. m_size' = size
        BY <1>5, <2>2, Zenon
      <3>2. pos + m <= size
        BY <2>2
      <3> QED
        BY <2>1, <3>1, <3>2, Zenon
    <2>3. CASE ~(size > pos + m)
      <3>1. m_size' = pos + m
        BY <1>5, <2>3, Zenon
      <3>2. pos + m <= pos + m
        OBVIOUS
      <3> QED
        BY <1>4, <3>1, <3>2, Zenon
    <2> QED
      BY <2>2, <2>3, Zenon
  <1>7. \A i \in 1..size : ByteAt(g, i) = ByteAt(nodes, i)
    <2> SUFFICES ASSUME NEW i \in 1..size PROVE ByteAt(g, i) = ByteAt(nodes, i)
      OBVIOUS
    <2>1. i \in Nat \ {0} /\ i <= b * l
      BY <1>1
    <2>2. 1 + (i - 1) \div b \in 1..l
      BY <2>1, InNode, Zenon
    <2> QED
      BY <1>2, <2>2, Zenon DEF ByteAt
  <1>8. /\ Bytes \in Seq(Byte) /\ Len(Bytes) = size
        /\ Bytes' \in Seq(Byte) /\ Len(Bytes') = m_size'
    BY <1>1, <1>3, <1>6, BytesOf, Zenon DEF Bytes
  <1>9. \A i \in 1..m_size' :
          Bytes'[i] = IF i \in (pos + 1)..(pos + m) THEN data[i - pos] ELSE Bytes[i]
    <2> SUFFICES ASSUME NEW i \in 1..m_size'
                 PROVE  Bytes'[i] = IF i \in (pos + 1)..(pos + m) THEN data[i - pos] ELSE Bytes[i]
      BY Zenon
    <2>1. i \in 1..(b * count) /\ (i \notin (pos + 1)..(pos + m) => i \in 1..size)
      BY <1>1, <1>5, <1>6
    <2>2. Bytes'[i] = ByteAt(nodes', i)
      BY Zenon DEF Bytes
    <2>3. i \in 1..size => Bytes[i] = ByteAt(g, i)
      BY <1>7, Zenon DEF Bytes
    <2> QED
      BY <1>3, <2>1, <2>2, <2>3, Zenon
  <1>10. B!Buffer!Write
    <2>1. Len(Bytes') = IF m_position' > Len(Bytes) THEN m_position' ELSE Len(Bytes)
      BY <1>1, <1>5, <1>8
    <2>2. \A i \in 1..Len(Bytes') :
            Bytes'[i] = IF i \in (m_position + 1)..m_position' THEN moved'[i - m_position]
                        ELSE Bytes[i]
      BY <1>8, <1>9, Zenon
    <2> QED
      BY <2>1, <2>2, Zenon DEF B!Buffer!Write, B!Buffer!Longer, Bytes, ByteAt
  <1> QED
    BY <1>3, <1>4, <1>6, <1>10, Zenon

\* the loop of read() over the nodes takes the bytes behind the position
LEMMA FetchedIs ==
  ASSUME ArrayInv, NEW n \in Nat \ {0}, n <= B!getReadSize
  PROVE  /\ B!Fetched(n) \in Seq(Byte) /\ Len(B!Fetched(n)) = n
         /\ m_position + n <= m_size
         /\ B!Fetched(n) = SubSeq(Bytes, m_position + 1, m_position + n)
         /\ m_cur = 1 + m_position \div BaseSize /\ m_cur # B!nullptr
  <1> USE ArrayAssumption
  <1>0. m_position \in Nat /\ m_size \in Nat /\ Len(nodes) \in Nat
    BY DEF ArrayInv
  <1> PICK pos \in Nat, size \in Nat, l \in Nat :
        pos = m_position /\ size = m_size /\ l = Len(nodes)
    BY <1>0, Zenon
  <1>1. pos + n <= size /\ size <= BaseSize * l /\ nodes \in Seq([B!Places -> Byte])
    BY DEF ArrayInv, B!getReadSize
  <1>2. Bytes \in Seq(Byte) /\ Len(Bytes) = size
    BY <1>1, BytesOf, Zenon DEF Bytes
  <1>3. m_cur = 1 + pos \div BaseSize /\ m_cur # B!nullptr
    <2>1. pos + 1 \in Nat \ {0} /\ pos + 1 <= BaseSize * l /\ (pos + 1) - 1 = pos
      BY <1>1
    <2>2. 1 + pos \div BaseSize \in 1..l
      BY <2>1, InNode
    <2>3. ~(1 + pos \div BaseSize > l) /\ 1 + pos \div BaseSize # 0
      BY <2>2
    <2> QED
      BY <2>3, Zenon DEF ArrayInv, NodeOf, B!nullptr
  <1>4. ASSUME NEW k \in 1..n PROVE B!Fetched(n)[k] = Bytes[pos + k]
    <2>1. k - 1 \in Nat /\ pos % BaseSize \in Int
      BY Division
    <2>2. (pos % BaseSize) + k - 1 = (pos % BaseSize) + (k - 1) /\ pos + (k - 1) = (pos + k) - 1
      BY <2>1
    <2>3. /\ (1 + pos \div BaseSize) + ((pos % BaseSize) + (k - 1)) \div BaseSize
               = 1 + (pos + (k - 1)) \div BaseSize
          /\ ((pos % BaseSize) + (k - 1)) % BaseSize = (pos + (k - 1)) % BaseSize
      BY <2>1, OnwardsHere, Zenon
    <2>5. B!Fetched(n)[k]
            = nodes[(1 + pos \div BaseSize) + ((pos % BaseSize) + (k - 1)) \div BaseSize]
                   [((pos % BaseSize) + (k - 1)) % BaseSize]
      BY <1>3, <2>2, Zenon DEF B!Fetched, B!npos
    <2>6. B!Fetched(n)[k] = ByteAt(nodes, pos + k)
      BY <2>2, <2>3, <2>5, Zenon DEF ByteAt
    <2>7. pos + k \in 1..size
      BY <1>1
    <2> QED
      BY <2>6, <2>7, Zenon DEF Bytes
  <1>5. B!Fetched(n) \in [1..n -> Byte]
    <2>1. \A k \in 1..n : Bytes[pos + k] \in Byte
      BY <1>1, <1>2
    <2>2. B!Fetched(n) = [k \in 1..n |-> B!Fetched(n)[k]]
      BY Zenon DEF B!Fetched
    <2> QED
      BY <1>4, <2>1, <2>2, Zenon
  <1>6. B!Fetched(n) \in Seq(Byte) /\ Len(B!Fetched(n)) = n
    BY <1>5
  <1>7. /\ SubSeq(Bytes, pos + 1, pos + n) \in Seq(Byte)
        /\ Len(SubSeq(Bytes, pos + 1, pos + n)) = n
        /\ \A k \in 1..n : SubSeq(Bytes, pos + 1, pos + n)[k] = Bytes[pos + k]
    BY <1>1, <1>2
  <1>8. B!Fetched(n) = SubSeq(Bytes, pos + 1, pos + n)
    BY <1>4, <1>6, <1>7, SameSeq
  <1> QED
    BY <1>1, <1>3, <1>6, <1>8, Zenon

\* write(), and so every write of a fixed or coded size
LEMMA ArrayWrite ==
  ASSUME ArrayInv, NEW data \in B!Data, B!write(data)
  PROVE  ArrayInv' /\ B!Buffer!Write /\ ~crashed'
  <1>1. data \in Seq(Byte) /\ Len(data) \in Nat
    BY ArrayAssumption DEF B!Data
  <1>2. PICK count \in Nat :
           /\ count = B!addCapacity(Len(data)) /\ count >= Len(nodes)
           /\ m_position + Len(data) <= BaseSize * count
    BY <1>1, CapacityIs, Zenon
  <1>3. /\ m_cur' = B!After(count, B!Cur, B!npos + Len(data))
        /\ m_position' = m_position + Len(data)
        /\ m_size' = B!Max(m_size, m_position') /\ moved' = data
    BY <1>2, Zenon DEF B!write
  <1>4. PICK c \in Byte : nodes' = B!Stored(B!Grown(count, c), B!Cur, data)
    BY <1>2, Zenon DEF B!write
  <1>5. /\ B!Buffer!Write
        /\ nodes' \in Seq([B!Places -> Byte]) /\ Len(nodes') = count
        /\ m_size' \in Nat /\ m_position' <= m_size' /\ m_size' <= BaseSize * count
    BY <1>1, <1>2, <1>3, <1>4, TransferIn, Zenon
  <1>6. m_position \in Nat /\ m_position' \in Nat /\ count >= 1
    BY <1>1, <1>2, <1>3 DEF ArrayInv
  <1>7. m_cur' = NodeOf(count, m_position')
    <2>1. (1 + m_position \div BaseSize) + ((m_position % BaseSize) + Len(data)) \div BaseSize
            = 1 + (m_position + Len(data)) \div BaseSize
      BY <1>1, <1>6, OnwardsHere, Zenon
    <2>2. B!Cur + (B!npos + Len(data)) \div BaseSize = 1 + m_position' \div BaseSize
      BY <1>3, <2>1, CurIs, Zenon DEF B!npos
    <2> QED
      BY <1>3, <2>2, Zenon DEF NodeOf, B!After
  <1>8. crashed' = FALSE
    BY CurIs, Zenon DEF B!write
  <1> QED
    BY <1>1, <1>3, <1>5, <1>6, <1>7, <1>8, Zenon DEF ArrayInv

\* SocketStream::read() that got bytes
LEMMA ArrayReceive ==
  ASSUME ArrayInv, NEW data \in B!Data, NEW length \in 1..MaxLength, B!receive(length, data)
  PROVE  ArrayInv' /\ B!Buffer!Write /\ ~crashed'
  <1>1. data \in Seq(Byte) /\ Len(data) \in Nat /\ length \in Nat
    BY ArrayAssumption DEF B!Data
  <1>2. PICK count \in Nat :
           /\ count = B!addCapacity(length) /\ count >= Len(nodes)
           /\ m_position + length <= BaseSize * count
    BY <1>1, CapacityIs, Zenon
  <1>3. /\ m_cur' = B!After(count, 1, m_position + Len(data))
        /\ m_position' = m_position + Len(data)
        /\ m_size' = B!Max(m_size, m_position + Len(data)) /\ moved' = data /\ Len(data) \in 1..length
    BY <1>2, Zenon DEF B!receive, B!SetPosition
  <1>4. PICK c \in Byte : nodes' = B!Stored(B!Grown(count, c), B!Cur, data)
    BY <1>2, Zenon DEF B!receive
  <1>5. m_position \in Nat /\ m_position' \in Nat /\ count >= 1
    BY <1>1, <1>2, <1>3 DEF ArrayInv
  <1>6. m_position + Len(data) <= BaseSize * count
    BY <1>1, <1>2, <1>3, <1>5, ArrayAssumption
  <1>7. /\ B!Buffer!Write
        /\ nodes' \in Seq([B!Places -> Byte]) /\ Len(nodes') = count
        /\ m_size' \in Nat /\ m_position' <= m_size' /\ m_size' <= BaseSize * count
    BY <1>1, <1>2, <1>3, <1>4, <1>6, TransferIn, Zenon
  <1>8. m_cur' = NodeOf(count, m_position')
    BY <1>3, Zenon DEF NodeOf, B!After
  <1>9. crashed' = FALSE
    BY CurIs, Zenon DEF B!receive
  <1> QED
    BY <1>1, <1>3, <1>5, <1>7, <1>8, <1>9, Zenon DEF ArrayInv

\* ... that got none: the new nodes stay, the bytes are the same
LEMMA ArrayReceiveFails ==
  ASSUME ArrayInv, NEW n \in 0..MaxLength, B!receiveFails(n)
  PROVE  ArrayInv' /\ UNCHANGED <<Bytes, m_position, moved>> /\ ~crashed'
  <1>1. n \in Nat
    BY ArrayAssumption
  <1>2. PICK count \in Nat :
           /\ count = B!addCapacity(n) /\ count >= Len(nodes)
           /\ m_position + n <= BaseSize * count
    BY <1>1, CapacityIs, Zenon
  <1>3. /\ m_cur' = IF n = 0 THEN m_cur ELSE B!Cur
        /\ UNCHANGED <<m_position, m_size, moved>> /\ crashed' = FALSE
    BY CurIs, Zenon DEF B!receiveFails
  <1>4. PICK c \in Byte : nodes' = B!Grown(count, c)
    BY <1>2, Zenon DEF B!receiveFails
  <1>5. /\ nodes' \in Seq([B!Places -> Byte]) /\ Len(nodes') = count
        /\ \A i \in 1..Len(nodes) : nodes'[i] = nodes[i]
    BY <1>2, <1>4, GrownIs, Zenon
  <1>6. /\ m_position \in Nat /\ m_size \in Nat /\ moved \in Seq(Byte) /\ m_position <= m_size
        /\ m_size <= BaseSize * Len(nodes) /\ Len(nodes) \in Nat /\ count >= 1
    BY <1>2 DEF ArrayInv
  <1>7. m_size <= BaseSize * count
    BY <1>2, <1>6, MoreNodes, ArrayAssumption
  <1>8. ASSUME n = 0 PROVE m_cur' = NodeOf(count, m_position)
    <2>1. count = Len(nodes)
      <3> PICK b \in Nat \ {0} : b = BaseSize
        BY ArrayAssumption
      <3> PICK l \in Nat : l = Len(nodes)
        BY <1>6, Zenon
      <3> PICK pos \in Nat : pos = m_position /\ pos <= b * l
        BY <1>6
      <3>1. b * l - pos >= 0
        OBVIOUS
      <3> QED
        BY <1>2, <1>8, <3>1, Zenon DEF B!addCapacity, B!getCapacity, B!m_capacity
    <2> QED
      BY <1>3, <1>8, <2>1, Zenon DEF ArrayInv
  <1>9. ASSUME n # 0 PROVE m_cur' = NodeOf(count, m_position)
    <2>1. m_position + 1 \in Nat \ {0} /\ m_position + 1 <= BaseSize * count
          /\ (m_position + 1) - 1 = m_position
      BY <1>1, <1>2, <1>6, <1>9, ArrayAssumption
    <2>2. 1 + m_position \div BaseSize \in 1..count
      BY <2>1, InNode, ArrayAssumption
    <2>3. ~(1 + m_position \div BaseSize > count)
      BY <2>2
    <2> QED
      BY <1>3, <1>9, <2>3, CurIs, Zenon DEF NodeOf
  <1>10. m_cur' = NodeOf(count, m_position)
    BY <1>8, <1>9, Zenon
  <1>11. ASSUME NEW i \in 1..m_size PROVE ByteAt(nodes', i) = ByteAt(nodes, i)
    <2>1. i \in Nat \ {0} /\ i <= BaseSize * Len(nodes)
      BY <1>6, ArrayAssumption
    <2>2. 1 + (i - 1) \div BaseSize \in 1..Len(nodes)
      BY <1>6, <2>1, InNode, ArrayAssumption, Zenon
    <2> QED
      BY <1>5, <2>2, Zenon DEF ByteAt
  <1>12. Bytes' = Bytes
    BY <1>3, <1>11, Zenon DEF Bytes
  <1> QED
    BY <1>3, <1>5, <1>6, <1>7, <1>10, <1>12, Zenon DEF ArrayInv

\* a transfer out of the array, whichever way m_cur is moved on
LEMMA TransferOut ==
  ASSUME ArrayInv, NEW n \in 1..MaxLength, n <= B!getReadSize,
         moved' = B!Fetched(n), m_position' = m_position + n, crashed' = FALSE,
         m_size' = m_size, nodes' = nodes, m_cur' = NodeOf(Len(nodes), m_position + n)
  PROVE  ArrayInv' /\ B!Buffer!Read
  <1>1. n \in Nat \ {0}
    BY ArrayAssumption
  <1>2. /\ moved' \in Seq(Byte) /\ Len(moved') = n /\ m_position + n <= m_size
        /\ moved' = SubSeq(Bytes, m_position + 1, m_position + n)
    BY <1>1, FetchedIs, Zenon
  <1>3. m_position' \in Nat
    BY <1>1 DEF ArrayInv
  <1>4. ArrayInv'
    BY <1>2, <1>3, Zenon DEF ArrayInv
  <1>5. Len(Bytes) = m_size
    <2>1. nodes \in Seq([B!Places -> Byte]) /\ m_size \in Nat /\ m_size <= BaseSize * Len(nodes)
      BY Zenon DEF ArrayInv
    <2> QED
      BY <2>1, BytesOf, Zenon DEF Bytes
  <1>6. Bytes' = Bytes
    BY Zenon DEF Bytes
  <1>7. /\ m_position' = m_position + Len(moved') /\ m_position' <= Len(Bytes)
        /\ moved' = SubSeq(Bytes, m_position + 1, m_position')
    BY <1>2, <1>5, Zenon
  <1> QED
    BY <1>4, <1>6, <1>7, Zenon DEF B!Buffer!Read, Bytes, ByteAt

\* read() of at least one byte: there is a node to look at
LEMMA ArrayReadSome ==
  ASSUME ArrayInv, NEW n \in 1..MaxLength, B!read(n)
  PROVE  ArrayInv' /\ B!Buffer!Read /\ ~crashed'
  <1>1. n \in Nat \ {0} /\ n \in Nat /\ m_position \in Nat
    BY ArrayAssumption DEF ArrayInv
  <1>2. n <= B!getReadSize
    BY Zenon DEF B!read
  <1>3. m_cur = 1 + m_position \div BaseSize /\ m_cur # B!nullptr
    BY <1>1, <1>2, FetchedIs, Zenon
  <1>4. /\ moved' = B!Fetched(n) /\ m_position' = m_position + n /\ crashed' = FALSE
        /\ m_cur' = B!After(Len(nodes), m_cur, B!npos + n) /\ m_size' = m_size /\ nodes' = nodes
    BY <1>3, Zenon DEF B!read
  <1>5. (1 + m_position \div BaseSize) + ((m_position % BaseSize) + n) \div BaseSize
          = 1 + (m_position + n) \div BaseSize
    BY <1>1, OnwardsHere, Zenon
  <1>6. m_cur + (B!npos + n) \div BaseSize = 1 + (m_position + n) \div BaseSize
    BY <1>3, <1>5, Zenon DEF B!npos
  <1>7. m_cur' = NodeOf(Len(nodes), m_position + n)
    BY <1>4, <1>6, Zenon DEF NodeOf, B!After
  <1> QED
    BY <1>2, <1>4, <1>7, TransferOut, Zenon

\* read() of no bytes: nothing moves, and where the capacity ends the program may
LEMMA ArrayReadNone ==
  ASSUME ArrayInv, B!read(0)
  PROVE  ArrayInv' /\ ((B!Buffer!Read /\ ~crashed') \/ B!Buffer!ReadNothing)
  <1>1. m_size' = m_size /\ nodes' = nodes
    BY Zenon DEF B!read
  <1>2. /\ nodes \in Seq([B!Places -> Byte]) /\ Len(nodes) >= 1 /\ Len(nodes) \in Nat
        /\ m_position \in Nat /\ m_size \in Nat /\ moved \in Seq(Byte)
        /\ m_position <= m_size /\ m_size <= BaseSize * Len(nodes)
        /\ m_cur = NodeOf(Len(nodes), m_position)
    BY DEF ArrayInv
  <1>3. Bytes \in Seq(Byte) /\ Len(Bytes) = m_size /\ Bytes' = Bytes
    BY <1>1, <1>2, BytesOf, Zenon DEF Bytes
  <1>4. CASE /\ moved' = B!Fetched(0) /\ m_position' = m_position + 0 /\ crashed' = FALSE
             /\ m_cur' = B!After(Len(nodes), m_cur, B!npos + 0)
    <2>1. moved' = <<>> /\ m_position' = m_position
      BY <1>2, <1>4 DEF B!Fetched
    <2>2. m_cur' = m_cur
      <3>1. PICK q \in Nat, r \in 0..(BaseSize - 1) :
               q = m_position \div BaseSize /\ r = B!npos /\ m_position = BaseSize * q + r
        BY <1>2, Divided, ArrayAssumption, Zenon DEF B!npos
      <3>2. BaseSize * 0 + r = r + 0
        BY <3>1, ArrayAssumption
      <3>3. (BaseSize * 0 + r) \div BaseSize = 0
        BY <3>1, DivisionUnique, ArrayAssumption
      <3>4. (B!npos + 0) \div BaseSize = 0
        BY <3>1, <3>2, <3>3, Zenon
      <3>5. m_cur = IF 1 + q > Len(nodes) THEN 0 ELSE 1 + q
        BY <1>2, <3>1, Zenon DEF NodeOf, B!nullptr
      <3>6. m_cur + 0 = m_cur /\ ~(m_cur > Len(nodes))
        BY <1>2, <3>1, <3>5
      <3> QED
        BY <1>4, <3>4, <3>6, Zenon DEF B!After
    <2>3. ArrayInv'
      <3>1. <<>> \in Seq(Byte)
        OBVIOUS
      <3> QED
        BY <1>1, <1>2, <1>4, <2>1, <2>2, <3>1, Zenon DEF ArrayInv
    <2>4. /\ m_position' = m_position + Len(moved') /\ m_position' <= Len(Bytes)
          /\ moved' = SubSeq(Bytes, m_position + 1, m_position')
      <3> PICK pos \in Nat, t \in Seq(Byte) : pos = m_position /\ t = Bytes /\ pos <= Len(t)
        BY <1>2, <1>3, Zenon
      <3>1. SubSeq(t, pos + 1, pos) = <<>> /\ Len(<<>>) = 0 /\ pos = pos + 0
        OBVIOUS
      <3> QED
        BY <2>1, <3>1, Zenon
    <2> QED
      BY <1>3, <1>4, <2>3, <2>4, Zenon DEF B!Buffer!Read, Bytes, ByteAt
  <1>5. CASE m_cur = B!nullptr /\ crashed' = TRUE /\ UNCHANGED <<moved, m_cur, m_position>>
    <2>1. m_position = m_size
      <3> PICK b \in Nat \ {0} : b = BaseSize
        BY ArrayAssumption
      <3> PICK l \in Nat : l = Len(nodes)
        BY <1>2, Zenon
      <3> PICK pos \in Nat, size \in Nat :
            pos = m_position /\ size = m_size /\ pos <= size /\ size <= b * l
        BY <1>2, Zenon
      <3>1. ~(pos + 1 <= b * l)
        <4> SUFFICES ASSUME pos + 1 <= b * l PROVE FALSE
          OBVIOUS
        <4>1. pos + 1 \in Nat \ {0} /\ (pos + 1) - 1 = pos
          OBVIOUS
        <4>2. 1 + pos \div b \in 1..l
          BY <4>1, InNode
        <4> QED
          BY <1>2, <1>5, <4>2 DEF NodeOf, B!nullptr
      <3> QED
        BY <3>1
    <2>2. ArrayInv'
      BY <1>1, <1>2, <1>5, Zenon DEF ArrayInv
    <2> QED
      BY <1>3, <1>5, <2>1, <2>2, Zenon DEF B!Buffer!ReadNothing, Bytes, ByteAt
  <1> QED
    BY <1>4, <1>5, Zenon DEF B!read

\* SocketStream::write()
LEMMA ArraySend ==
  ASSUME ArrayInv, NEW n \in 1..MaxLength, B!send(n)
  PROVE  ArrayInv' /\ B!Buffer!Read /\ ~crashed'
  <1>1. /\ n <= B!getReadSize /\ moved' = B!Fetched(n) /\ m_position' = m_position + n
        /\ m_cur' = B!After(Len(nodes), 1, m_position + n)
        /\ m_size' = B!Max(m_size, m_position + n) /\ nodes' = nodes
    BY Zenon DEF B!send, B!SetPosition
  <1>2. m_size' = m_size
    BY <1>1, ArrayAssumption DEF B!Max, B!getReadSize, ArrayInv
  <1>3. m_cur' = NodeOf(Len(nodes), m_position + n)
    BY <1>1, Zenon DEF NodeOf, B!After
  <1>4. crashed' = FALSE
    <2>1. n \in Nat \ {0}
      BY ArrayAssumption
    <2>2. m_cur # B!nullptr
      BY <1>1, <2>1, FetchedIs, Zenon
    <2> QED
      BY <2>2, Zenon DEF B!send
  <1> QED
    BY <1>1, <1>2, <1>3, <1>4, TransferOut, Zenon

\* setPosition()
LEMMA ArraySetPosition ==
  ASSUME ArrayInv, ~crashed, NEW v \in 0..B!m_capacity, B!setPosition(v)
  PROVE  ArrayInv' /\ B!Buffer!SetPosition /\ ~crashed'
  <1>1. /\ m_position' = v /\ m_size' = B!Max(m_size, v)
        /\ m_cur' = B!After(Len(nodes), 1, v) /\ nodes' = nodes /\ moved' = <<>>
        /\ crashed' = crashed
    BY Zenon DEF B!setPosition, B!SetPosition
  <1>2. /\ nodes \in Seq([B!Places -> Byte]) /\ Len(nodes) >= 1 /\ Len(nodes) \in Nat
        /\ m_size \in Nat /\ m_size <= BaseSize * Len(nodes)
    BY DEF ArrayInv
  <1>3. v \in Nat /\ v <= BaseSize * Len(nodes)
    BY <1>2, ArrayAssumption DEF B!m_capacity
  <1>4. m_size' = IF m_size > v THEN m_size ELSE v
    BY <1>1, Zenon DEF B!Max
  <1>5. m_size' \in Nat /\ m_size <= m_size' /\ v <= m_size' /\ m_size' <= BaseSize * Len(nodes)
    <2>1. CASE m_size > v
      <3>1. m_size' = m_size /\ v <= m_size /\ m_size <= m_size
        BY <1>2, <1>3, <1>4, <2>1
      <3> QED
        BY <1>2, <3>1, Zenon
    <2>2. CASE ~(m_size > v)
      <3>1. m_size' = v /\ m_size <= v /\ v <= v
        BY <1>2, <1>3, <1>4, <2>2
      <3> QED
        BY <1>3, <3>1, Zenon
    <2> QED
      BY <2>1, <2>2, Zenon
  <1>6. m_cur' = NodeOf(Len(nodes), v)
    BY <1>1, Zenon DEF NodeOf, B!After
  <1>7. <<>> \in Seq(Byte)
    OBVIOUS
  <1>8. ArrayInv'
    BY <1>1, <1>2, <1>3, <1>5, <1>6, <1>7, Zenon DEF ArrayInv
  <1>9. /\ Bytes \in Seq(Byte) /\ Len(Bytes) = m_size
        /\ Bytes' \in Seq(Byte) /\ Len(Bytes') = m_size'
    BY <1>1, <1>2, <1>5, BytesOf, Zenon DEF Bytes
  <1>10. \A i \in 1..m_size : Bytes'[i] = Bytes[i]
    <2> SUFFICES ASSUME NEW i \in 1..m_size PROVE Bytes'[i] = Bytes[i]
      BY Zenon
    <2>1. i \in 1..m_size'
      BY <1>2, <1>5
    <2> QED
      BY <1>1, <2>1, Zenon DEF Bytes
  <1>11. SubSeq(Bytes', 1, Len(Bytes)) = Bytes
    <2>1. PICK s \in Seq(Byte), t \in Seq(Byte) : s = Bytes /\ t = Bytes'
      BY <1>9, Zenon
    <2>2. Len(s) <= Len(t) /\ \A i \in 1..Len(s) : t[i] = s[i]
      BY <1>5, <1>9, <1>10, <2>1, Zenon
    <2>3. SubSeq(t, 1, Len(s)) = s
      <3> HIDE <2>1
      <3>1. /\ SubSeq(t, 1, Len(s)) \in Seq(Byte) /\ Len(SubSeq(t, 1, Len(s))) = Len(s)
            /\ \A i \in 1..Len(s) : SubSeq(t, 1, Len(s))[i] = t[i]
        BY <2>1, <2>2
      <3> QED
        BY <2>1, <2>2, <3>1, SameSeq
    <2> QED
      BY <2>1, <2>3, Zenon
  <1>12. Len(Bytes') = IF m_position' > Len(Bytes) THEN m_position' ELSE Len(Bytes)
    BY <1>1, <1>2, <1>3, <1>4, <1>9
  <1>13. B!Buffer!SetPosition
    BY <1>1, <1>11, <1>12, Zenon DEF B!Buffer!SetPosition, B!Buffer!Longer, Bytes, ByteAt
  <1> QED
    BY <1>1, <1>8, <1>13, Zenon

\* m_cur of an array that is empty
LEMMA FirstNode ==
  ASSUME NEW list \in Seq([B!Places -> Byte]), Len(list) >= 1
  PROVE  1 = NodeOf(Len(list), 0) /\ 0 <= BaseSize * Len(list)
  <1>1. BaseSize \in Nat \ {0} /\ Len(list) \in Nat
    BY ArrayAssumption
  <1>2. 0 \div BaseSize = 0
    <2>1. BaseSize * 0 + 0 = 0 /\ 0 \in 0..(BaseSize - 1)
      BY <1>1
    <2> QED
      BY <1>1, <2>1, DivisionUnique
  <1>3. ~(1 + 0 \div BaseSize > Len(list)) /\ 1 + 0 \div BaseSize = 1
    BY <1>1, <1>2
  <1> QED
    BY <1>1, <1>3 DEF NodeOf

\* clear()
LEMMA ArrayClear ==
  ASSUME ArrayInv, ~crashed, B!clear
  PROVE  ArrayInv' /\ B!Buffer!Clear /\ ~crashed'
  <1>1. /\ m_position' = 0 /\ m_size' = 0 /\ m_cur' = 1 /\ nodes' = <<nodes[1]>> /\ moved' = <<>>
        /\ crashed' = crashed
    BY Zenon DEF B!clear
  <1>2. nodes' \in Seq([B!Places -> Byte]) /\ Len(nodes') = 1
    BY <1>1 DEF ArrayInv
  <1>3. Len(nodes') >= 1 /\ <<>> \in Seq(Byte) /\ 0 \in Nat /\ 0 <= 0
    BY <1>2
  <1>4. 1 = NodeOf(Len(nodes'), 0) /\ 0 <= BaseSize * Len(nodes')
    BY <1>2, <1>3, FirstNode, Zenon
  <1>5. ArrayInv'
    BY <1>1, <1>2, <1>3, <1>4, Zenon DEF ArrayInv
  <1>6. Bytes' = <<>>
    BY <1>1 DEF Bytes
  <1> QED
    BY <1>1, <1>5, <1>6, Zenon DEF B!Buffer!Clear, Bytes, ByteAt

\* a new ByteArray
LEMMA ArrayInit ==
  ASSUME B!Init
  PROVE  ArrayInv /\ B!Buffer!Init
  <1>1. m_position = 0 /\ m_size = 0 /\ m_cur = 1 /\ moved = <<>> /\ crashed = FALSE
    BY Zenon DEF B!Init
  <1>2. nodes \in Seq([B!Places -> Byte]) /\ Len(nodes) = 1
    <2> DEFINE Elem == [B!Places -> Byte]
    <2>1. nodes \in [1..1 -> {[p \in B!Places |-> c] : c \in Byte}]
      BY Zenon DEF B!Init
    <2>2. {[p \in B!Places |-> c] : c \in Byte} \subseteq Elem
      OBVIOUS
    <2>3. nodes \in [1..1 -> Elem]
      <3> HIDE DEF Elem
      <3> QED
        BY <2>1, <2>2
    <2> HIDE DEF Elem
    <2> 1 \in Nat
      OBVIOUS
    <2>4. nodes \in Seq(Elem) /\ Len(nodes) = 1
      BY <2>3, FunctionIsSeq, Zenon
    <2> QED
      BY <2>4, Zenon DEF Elem
  <1>3. Len(nodes) >= 1 /\ <<>> \in Seq(Byte) /\ 0 \in Nat /\ 0 <= 0
    BY <1>2
  <1>4. 1 = NodeOf(Len(nodes), 0) /\ 0 <= BaseSize * Len(nodes)
    BY <1>2, <1>3, FirstNode, Zenon
  <1>5. ArrayInv
    BY <1>1, <1>2, <1>3, <1>4, Zenon DEF ArrayInv
  <1>6. Bytes = <<>>
    BY <1>1 DEF Bytes
  <1> QED
    BY <1>1, <1>5, <1>6, Zenon DEF B!Buffer!Init, Bytes, ByteAt

\* every operation keeps m_cur in step and is one of the buffer's, or none
LEMMA ArrayStep ==
  ASSUME ArrayInv, [B!Next]_(B!vars)
  PROVE  ArrayInv' /\ [B!Buffer!Next]_<<Bytes, m_position, moved, crashed>>
  <1>1. CASE UNCHANGED B!vars
    <2>1. UNCHANGED <<m_position, m_size, m_cur, nodes, moved, crashed>>
      BY <1>1, Zenon DEF B!vars
    <2>2. Bytes' = Bytes
      BY <2>1, Zenon DEF Bytes
    <2> QED
      BY <2>1, <2>2, Zenon DEF ArrayInv
  <1>2. CASE B!Next
    <2>1. ~crashed /\ B!Operation
      BY <1>2, Zenon DEF B!Next
    <2>2. CASE \E data \in B!Data : B!write(data)
      BY <2>1, <2>2, ArrayWrite, Zenon DEF B!Buffer!Next
    <2>3. CASE \E data \in B!Data : \E length \in 1..MaxLength : B!receive(length, data)
      BY <2>1, <2>3, ArrayReceive, Zenon DEF B!Buffer!Next
    <2>4. CASE \E n \in 0..MaxLength : B!read(n)
      <3>1. PICK n \in 0..MaxLength : B!read(n)
        BY <2>4, Zenon
      <3>2. n = 0 \/ n \in 1..MaxLength
        BY ArrayAssumption
      <3> QED
        BY <2>1, <3>1, <3>2, ArrayReadSome, ArrayReadNone, Zenon DEF B!Buffer!Next
    <2>5. CASE \E n \in 1..MaxLength : B!send(n)
      BY <2>1, <2>5, ArraySend, Zenon DEF B!Buffer!Next
    <2>6. CASE \E n \in 0..MaxLength : B!receiveFails(n)
      <3>1. ArrayInv' /\ UNCHANGED <<Bytes, m_position, moved>> /\ ~crashed'
        BY <2>6, ArrayReceiveFails, Zenon
      <3>2. crashed' = crashed
        BY <2>1, <3>1, Zenon DEF ArrayInv
      <3> QED
        BY <3>1, <3>2, Zenon
    <2>7. CASE \E v \in 0..B!m_capacity : B!setPosition(v)
      BY <2>1, <2>7, ArraySetPosition, Zenon DEF B!Buffer!Next
    <2>8. CASE B!clear
      BY <2>1, <2>8, ArrayClear, Zenon DEF B!Buffer!Next
    <2> QED
      BY <2>1, <2>2, <2>3, <2>4, <2>5, <2>6, <2>7, <2>8, Zenon DEF B!Operation
  <1> QED
    BY <1>1, <1>2, Zenon

(* The list of nodes is one sequence of bytes: for nodes of any size and    *)
(* transfers of any size, zero included, every operation reads or writes   *)
(* the bytes behind the position and leaves all others, whatever           *)
(* operations came before it; and a null m_cur is followed by read() only, *)
(* when nothing is left and nothing is asked for.                          *)
THEOREM ArrayIsBuffer == B!Spec => ImplementsBuffer
  <1>1. B!Init => ArrayInv /\ B!Buffer!Init
    BY ArrayInit
  <1>2. ArrayInv /\ [B!Next]_(B!vars)
          => ArrayInv' /\ [B!Buffer!Next]_<<Bytes, m_position, moved, crashed>>
    BY ArrayStep
  <1>3. B!Spec => B!Buffer!Init /\ [][B!Buffer!Next]_<<Bytes, m_position, moved, crashed>>
    BY <1>1, <1>2, PTL DEF B!Spec
  <1>4. ImplementsBuffer
          <=> B!Buffer!Init /\ [][B!Buffer!Next]_<<Bytes, m_position, moved, crashed>>
    BY PTL DEF ImplementsBuffer, B!ImplementsBuffer, B!Buffer!Spec, Bytes, ByteAt
  <1> QED
    BY <1>3, <1>4, PTL

=============================================================================
