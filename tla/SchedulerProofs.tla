--------------------------- MODULE SchedulerProofs ---------------------------
(***************************************************************************)
(* Proofs about Scheduler: FiberInv is inductive, and with it no fiber is  *)
(* ever on two threads and every swapIn() and reset() finds the state it   *)
(* asserts.  The steps of run() are in SchedulerRunProofs.  Then, on top   *)
(* of FiberInv, LeftInv and CallbackInv: a fiber that has left its thread  *)
(* has exactly one wake-up, a callback is in exactly one place.            *)
(***************************************************************************)
EXTENDS SchedulerRunProofs

-----------------------------------------------------------------------------
(* FiberInv is inductive: one lemma per action.                            *)

\* the state start() leaves: nothing is queued, held or armed
LEMMA InitInv == Init => FiberInv
  <1> SUFFICES ASSUME Init PROVE FiberInv
    OBVIOUS
  <1> USE SchedulerAssumption DEF Init, Fibers
  <1>1. TypeOK
    <2>1. m_fibers \in Seq(Entry) /\ m_activeThreadCount \in Nat /\ yields \in 0..MaxYields
      OBVIOUS
    <2>2. /\ m_state \in [Fibers -> FiberState]
          /\ pc \in [Threads -> Label]
          /\ idle_fiber \in [Threads -> {"NONE", "INIT", "HOLD", "EXEC", "TERM"}]
      BY Zenon DEF Label, FiberState
    <2> QED BY Zenon, <2>1, <2>2 DEF TypeOK
  <1>2. ActiveInv
    <2>1. {w \in Threads : pc[w] \in Busy} = {}
      BY ZenonT(40) DEF Busy
    <2> QED BY Zenon, <2>1, FS_EmptySet DEF ActiveInv
  <1>3. \A f \in Fibers : ~Token(f) /\ TokenOnce(f) /\ \A w \in Threads : ~Holds(w, f)
    BY DEF Token, TokenOnce, Expired, InQueue, OnceInQueue, Holds, Holding, Busy
  <1>4. HolderInv
    BY Zenon, <1>3 DEF HolderInv, Holding, Busy
  <1>5. HoldOnce
    BY ZenonT(40), <1>3 DEF HoldOnce
  <1>6. TokenInv
    BY Zenon, <1>3 DEF TokenInv, Ended
  <1>7. SpareInv
    BY Zenon DEF SpareInv
  <1>8. FreeInv
    BY Zenon, <1>3 DEF FreeInv
  <1> QED BY ZenonT(40), <1>1, <1>2, <1>4, <1>5, <1>6, <1>7, <1>8 DEF FiberInv

\* a running task switches out to run()
LEMMA StepSwapOut ==
  ASSUME FiberInv, NEW w \in Threads, swapOut(w)
  PROVE  FiberInv'
  <1> USE DEF FiberInv
  <1>1. pc[w] = "out" /\ pc' = [pc EXCEPT ![w] = "back"] /\ "back" \in Label
    BY Zenon DEF swapOut, Goto, Label
  <1>2. HolderInv' /\ HoldOnce' /\ TokenInv' /\ SpareInv' /\ FreeInv'
    BY Zenon, <1>1, QuietStep DEF swapOut, Holding, Busy
  <1>3. TypeOK'
    BY Zenon, <1>1 DEF swapOut, TypeOK
  <1>4. ActiveInv'
    BY ZenonT(40), <1>1, ActiveMoves DEF swapOut, ActiveInv, BusyThreads, Busy
  <1> QED BY Zenon, <1>2, <1>3, <1>4

\* run() comes back from the task and ends its active section
LEMMA StepBack ==
  ASSUME FiberInv, NEW w \in Threads, Back(w)
  PROVE  FiberInv'
  <1> USE DEF FiberInv
  <1>1. pc[w] = "back" /\ pc' = [pc EXCEPT ![w] = "post"] /\ "post" \in Label
    BY Zenon DEF Back, Goto, Label
  <1>2. HolderInv' /\ HoldOnce' /\ TokenInv' /\ SpareInv' /\ FreeInv'
    BY ZenonT(40), <1>1, QuietStep DEF Back, Holding, Busy
  <1>3. /\ m_activeThreadCount' = Cardinality(BusyThreads')
        /\ m_activeThreadCount' \in Nat
    BY ZenonT(40), <1>1, ActiveMoves DEF Back, Busy
  <1>4. TypeOK'
    BY Zenon, <1>1, <1>3 DEF Back, TypeOK
  <1> QED BY ZenonT(40), <1>2, <1>3, <1>4 DEF ActiveInv, BusyThreads

\* the reads of stopping(), and idle() switching back to run()
LEMMA StepIdle ==
  ASSUME FiberInv, NEW w \in Threads,
         readTimers(w) \/ readEvents(w) \/ readQueue(w) \/ IdleYield(w)
  PROVE  FiberInv'
  <1> USE DEF FiberInv
  <1>1. PICK l \in {"readEvents", "readQueue", "scan", "epoll", "exit"} :
           pc' = [pc EXCEPT ![w] = l]
    BY Zenon DEF readTimers, readEvents, readQueue, IdleYield, GoOn, Goto
  <1>2. /\ pc[w] \in {"readTimers", "readEvents", "readQueue", "epoll", "yield"}
        /\ idle_fiber' \in [Threads -> {"NONE", "INIT", "HOLD", "EXEC", "TERM"}]
        /\ UNCHANGED <<m_fibers, m_activeThreadCount, m_stopping, m_state, m_cb,
             ft, cb_fiber, armed, cbs, unscheduled, finished, yields>>
    BY Zenon DEF readTimers, readEvents, readQueue, IdleYield, GoOn, TypeOK
  <1>3. l \in Label
    BY ZenonT(40) DEF Label
  <1>4. HolderInv' /\ HoldOnce' /\ TokenInv' /\ SpareInv' /\ FreeInv'
    BY ZenonT(40), <1>1, <1>2, <1>3, QuietStep DEF Holding, Busy
  <1>5. TypeOK'
    BY Zenon, <1>1, <1>2, <1>3 DEF TypeOK
  <1>6. ActiveInv'
    BY ZenonT(40), <1>1, <1>2, <1>3, ActiveMoves DEF ActiveInv, BusyThreads, Busy
  <1> QED BY ZenonT(40), <1>4, <1>5, <1>6

\* stop() sends the caller's thread to the test before run()
LEMMA StepStop ==
  ASSUME FiberInv, stop
  PROVE  FiberInv'
  <1> USE DEF FiberInv
  <1>1. /\ \A v \in Threads : pc'[v] = pc[v]
             \/ (pc[v] = "parked" /\ pc'[v] = "readTimers")
        /\ UNCHANGED <<m_fibers, m_activeThreadCount, m_state, m_cb, ft, cb_fiber,
             idle_fiber, armed, cbs, unscheduled, finished, yields>>
    BY Zenon DEF stop
  <1>2. \A v \in Threads, f \in Fibers : Holds(v, f)' <=> Holds(v, f)
    BY ZenonT(40), <1>1 DEF Holds, Holding, Busy
  <1>3. \A f \in Fibers : (Token(f)' <=> Token(f)) /\ (TokenOnce(f)' <=> TokenOnce(f))
                            /\ (Expired(f)' <=> Expired(f))
    BY Zenon, <1>1 DEF Token, TokenOnce, Expired
  <1>4. TypeOK'
    BY Zenon DEF stop, TypeOK, Label
  <1>5. ActiveInv'
    <2>1. {v \in Threads : pc[v] \in Busy}' = {v \in Threads : pc[v] \in Busy}
      BY ZenonT(40), <1>1 DEF Busy
    <2> QED BY ZenonT(40), <1>1, <2>1 DEF ActiveInv
  <1>6. HolderInv'
    BY ZenonT(40), <1>1, <1>2 DEF HolderInv, Holding, Busy
  <1>7. HoldOnce'
    BY ZenonT(40), <1>1, <1>2 DEF HoldOnce
  <1>8. TokenInv'
    BY ZenonT(40), <1>1, <1>2, <1>3 DEF TokenInv
  <1>9. SpareInv' /\ FreeInv'
    BY ZenonT(40), <1>1, <1>2 DEF SpareInv, FreeInv, Fibers
  <1> QED BY ZenonT(40), <1>4, <1>5, <1>6, <1>7, <1>8, <1>9

\* a registered event is triggered
LEMMA StepTriggerEvent ==
  ASSUME FiberInv, NEW f \in Fibers, triggerEvent(f)
  PROVE  FiberInv'
  <1> USE DEF FiberInv
  <1>1. /\ armed[f] = "event" /\ armed' = [armed EXCEPT ![f] = "no"]
        /\ schedule(f, AnyThread)
        /\ UNCHANGED <<m_activeThreadCount, m_stopping, m_state, m_cb, pc, ft,
             cb_fiber, idle_fiber, cbs, unscheduled, finished, yields>>
    BY Zenon DEF triggerEvent
  <1>2. /\ m_state[f] \notin Ended /\ ~InQueue(m_fibers, f) /\ ~Expired(f)
        /\ f \notin unscheduled /\ m_state[f] # "FREE"
        /\ f \in CbFibers => m_state[f] # "INIT"
        /\ \A v \in Threads : Holds(v, f) =>
             m_state[f] = "EXEC" /\ pc[v] \in {"out", "back", "post"}
    BY ZenonT(40), <1>1 DEF TokenInv, TokenOnce, Token
  <1>3. \A v \in Threads, g \in Fibers : Holds(v, g)' <=> Holds(v, g)
    BY ZenonT(40), <1>1 DEF Holds
  <1>4. /\ \A g \in Fibers : armed'[g] = armed[g] \/ (g = f /\ armed'[g] = "no")
        /\ armed'[f] = "no"
        /\ armed' \in [Fibers -> {"no", "timer", "event"}]
    BY Zenon, <1>1 DEF TypeOK
  <1>5. f \in Task
    BY ZenonT(40) DEF Task
  <1>6. m_fibers' \in Seq(Entry) /\ HolderInv' /\ HoldOnce' /\ TokenInv' /\ SpareInv' /\ FreeInv'
    BY ZenonT(40), <1>1, <1>2, <1>3, <1>4, <1>5, EnqueueStep
  <1>7. TypeOK' /\ ActiveInv'
    BY Zenon, <1>1, <1>4, <1>6 DEF TypeOK, ActiveInv
  <1> QED BY ZenonT(40), <1>6, <1>7

\* a client schedules a task for the first time
LEMMA StepClientSchedule ==
  ASSUME FiberInv, NEW t \in UserFibers \cup Callbacks, NEW thr \in Pins,
         ClientSchedule(t, thr)
  PROVE  FiberInv'
  <1> USE DEF FiberInv
  <1>1. /\ t \in unscheduled /\ unscheduled' = unscheduled \ {t}
        /\ schedule(t, thr)
        /\ UNCHANGED <<m_activeThreadCount, m_stopping, m_state, m_cb, pc, ft,
             cb_fiber, idle_fiber, armed, cbs, finished, yields>>
    BY Zenon DEF ClientSchedule
  <1>2. t \in Task /\ thr \in Threads \cup {AnyThread} /\ t \notin CbFibers
    BY Zenon, SchedulerAssumption DEF Task, Fibers
  <1>3. t \in Fibers => /\ m_state[t] = "INIT" /\ ~Token(t)
                        /\ \A v \in Threads : ~Holds(v, t)
    BY ZenonT(40), <1>1 DEF TokenInv, HolderInv, Ended
  <1>4. t \in Fibers => ~InQueue(m_fibers, t) /\ ~Expired(t) /\ armed'[t] = "no"
    BY Zenon, <1>1, <1>3 DEF Token
  <1>5. \A v \in Threads, g \in Fibers : Holds(v, g)' <=> Holds(v, g)
    BY Zenon, <1>1 DEF Holds
  <1>6. m_fibers' \in Seq(Entry) /\ HolderInv' /\ HoldOnce' /\ TokenInv' /\ SpareInv' /\ FreeInv'
    BY ZenonT(40), <1>1, <1>2, <1>3, <1>4, <1>5, EnqueueStep
  <1>7. TypeOK' /\ ActiveInv'
    BY ZenonT(40), <1>1, <1>6 DEF TypeOK, ActiveInv
  <1> QED BY ZenonT(40), <1>6, <1>7

\* a client schedules a fiber that has ended
LEMMA StepScheduleEnded ==
  ASSUME FiberInv, NEW f \in UserFibers, NEW thr \in Pins, ScheduleEnded(f, thr)
  PROVE  FiberInv'
  <1> USE DEF FiberInv
  <1>1. /\ m_state[f] \in Ended /\ yields' = yields + 1 /\ yields < MaxYields
        /\ schedule(f, thr)
        /\ UNCHANGED <<m_activeThreadCount, m_stopping, m_state, m_cb, pc, ft,
             cb_fiber, idle_fiber, armed, cbs, unscheduled, finished>>
    BY ZenonT(40) DEF ScheduleEnded
  <1>2. /\ f \in Task /\ f \in Fibers /\ thr \in Threads \cup {AnyThread}
        /\ f \notin CbFibers
    BY ZenonT(40), SchedulerAssumption DEF Task, Fibers
  <1>3. f \notin unscheduled
    BY Zenon, <1>1, <1>2 DEF TokenInv, Ended
  <1>4. \A v \in Threads, g \in Fibers : Holds(v, g)' <=> Holds(v, g)
    BY ZenonT(40), <1>1 DEF Holds
  <1>5. m_fibers' \in Seq(Entry) /\ HolderInv' /\ HoldOnce' /\ TokenInv' /\ SpareInv' /\ FreeInv'
    BY ZenonT(40), <1>1, <1>2, <1>3, <1>4, EnqueueStep
  <1>6. TypeOK' /\ ActiveInv'
    BY <1>1, <1>5, SchedulerAssumption DEF TypeOK, ActiveInv
  <1> QED BY Zenon, <1>5, <1>6

\* a running task moves itself to another thread and yields
LEMMA StepSwitchTo ==
  ASSUME FiberInv, NEW w \in Threads, NEW thr \in Pins, switchTo(w, thr)
  PROVE  FiberInv'
  <1> USE DEF FiberInv
  <1>1. pc[w] = "exec"
    BY Zenon DEF switchTo
  <1>2. PICK f \in Fibers :
           /\ f = Cur(w) /\ m_state[f] = "EXEC" /\ f \notin unscheduled
           /\ ~Token(f) /\ TokenOnce(f)
           /\ \A v \in Threads : Holds(v, f) <=> v = w
           /\ \A g \in Fibers : Holds(w, g) <=> g = f
    BY Zenon, <1>1, RunningFiber
  <1>3. /\ pc' = [pc EXCEPT ![w] = "out"] /\ yields' = yields + 1 /\ yields < MaxYields
        /\ schedule(f, thr)
        /\ UNCHANGED <<m_activeThreadCount, m_stopping, m_state, m_cb, ft,
             cb_fiber, idle_fiber, armed, cbs, unscheduled, finished>>
    BY Zenon, <1>2 DEF switchTo, Goto
  <1>4. f \in Task /\ thr \in Threads \cup {AnyThread} /\ "out" \in Label
    BY ZenonT(40), SchedulerAssumption DEF Task, Label
  <1>5. \A v \in Threads, g \in Fibers : Holds(v, g)' <=> Holds(v, g)
    BY ZenonT(40), <1>1, <1>3 DEF Holds, Holding, Busy, TypeOK
  <1>6. /\ \A v \in Threads : pc'[v] = pc[v] \/ (pc[v] = "exec" /\ pc'[v] = "out")
        /\ pc'[w] = "out"
    BY ZenonT(40), <1>1, <1>3 DEF TypeOK
  <1>7. ~InQueue(m_fibers, f) /\ ~Expired(f) /\ armed'[f] = "no"
    BY ZenonT(40), <1>2, <1>3 DEF Token
  <1>8. \A v \in Threads : Holds(v, f) =>
          m_state[f] = "EXEC" /\ pc'[v] \in {"out", "back", "post"}
    BY Zenon, <1>2, <1>6
  <1>9. m_fibers' \in Seq(Entry) /\ HolderInv' /\ HoldOnce' /\ TokenInv' /\ SpareInv' /\ FreeInv'
    BY ZenonT(40), <1>2, <1>3, <1>4, <1>5, <1>6, <1>7, <1>8, EnqueueStep DEF Ended
  <1>10. TypeOK'
    BY <1>3, <1>4, <1>9, SchedulerAssumption DEF TypeOK
  <1>11. ActiveInv'
    BY ZenonT(40), <1>1, <1>3, <1>4, ActiveMoves DEF ActiveInv, BusyThreads, Busy
  <1> QED BY ZenonT(40), <1>9, <1>10, <1>11

\* the running task registers its wake-up
LEMMA StepArm ==
  ASSUME FiberInv, NEW w \in Threads, NEW kind \in {"timer", "event"}, Arm(w, kind)
  PROVE  FiberInv'
  <1> USE DEF FiberInv
  <1>1. pc[w] = "exec"
    BY Zenon DEF Arm
  <1>2. PICK f \in Fibers :
           /\ f = Cur(w) /\ m_state[f] = "EXEC" /\ f \notin unscheduled
           /\ ~Token(f) /\ TokenOnce(f)
           /\ \A v \in Threads : Holds(v, f) <=> v = w
           /\ \A g \in Fibers : Holds(w, g) <=> g = f
    BY Zenon, <1>1, RunningFiber
  <1>3. /\ pc' = [pc EXCEPT ![w] = "out"] /\ yields' = yields + 1 /\ yields < MaxYields
        /\ armed' = [armed EXCEPT ![f] = kind]
        /\ UNCHANGED <<m_fibers, m_activeThreadCount, m_stopping, m_state, m_cb, ft,
             cb_fiber, idle_fiber, cbs, unscheduled, finished>>
    BY ZenonT(40), <1>2 DEF Arm, Goto
  <1>4. "out" \in Label
    BY ZenonT(40) DEF Label
  <1>5. \A v \in Threads, g \in Fibers : Holds(v, g)' <=> Holds(v, g)
    BY ZenonT(40), <1>1, <1>3 DEF Holds, Holding, Busy, TypeOK
  <1>6. \A g \in Fibers : Expired(g)' <=> Expired(g)
    BY ZenonT(40), <1>3 DEF Expired
  <1>7. \A g \in Fibers : g # f => (Token(g)' <=> Token(g)) /\ (TokenOnce(g)' <=> TokenOnce(g))
    BY ZenonT(40), <1>3, <1>6 DEF Token, TokenOnce, TypeOK
  <1>8. Token(f)' /\ TokenOnce(f)'
    BY ZenonT(40), <1>2, <1>3, <1>6 DEF Token, TokenOnce, TypeOK
  <1>9. TokenInv'
    BY SMTT(30), <1>1, <1>2, <1>3, <1>5, <1>6, <1>7, <1>8 DEF TokenInv, TypeOK, Ended
  <1>10. HolderInv'
    BY ZenonT(40), <1>1, <1>2, <1>3, <1>5 DEF HolderInv, Holding, Busy, TypeOK
  <1>11. HoldOnce'
    BY <1>2, <1>3, <1>5 DEF HoldOnce, TypeOK, Ended
  <1>12. SpareInv' /\ FreeInv'
    BY Zenon, <1>3, <1>5 DEF SpareInv, FreeInv, Fibers
  <1>13. TypeOK'
    BY <1>3, <1>4, SchedulerAssumption DEF TypeOK
  <1>14. ActiveInv'
    BY Zenon, <1>1, <1>3, <1>4, ActiveMoves DEF ActiveInv, BusyThreads, Busy
  <1> QED BY Zenon, <1>9, <1>10, <1>11, <1>12, <1>13, <1>14

\* the running task's fiber becomes READY or ends
LEMMA StepSetState ==
  ASSUME FiberInv, NEW w \in Threads,
         YieldToReady(w) \/ \E s \in Ended : Finish(w, s)
  PROVE  FiberInv'
  <1> USE DEF FiberInv
  <1>1. pc[w] = "exec"
    BY Zenon DEF YieldToReady, Finish
  <1>2. PICK f \in Fibers :
           /\ f = Cur(w) /\ m_state[f] = "EXEC" /\ f \notin unscheduled
           /\ ~Token(f) /\ TokenOnce(f)
           /\ \A v \in Threads : Holds(v, f) <=> v = w
           /\ \A g \in Fibers : Holds(w, g) <=> g = f
    BY Zenon, <1>1, RunningFiber
  <1>3. PICK s \in {"READY"} \cup Ended :
           /\ pc' = [pc EXCEPT ![w] = "out"]
           /\ m_state' = [m_state EXCEPT ![f] = s]
           /\ UNCHANGED <<m_fibers, m_activeThreadCount, m_stopping, ft,
                cb_fiber, idle_fiber, armed, cbs, unscheduled>>
    BY ZenonT(40), <1>2 DEF YieldToReady, Finish, Goto
  <1>4. "out" \in Label /\ s \in FiberState
    BY ZenonT(40) DEF Label, FiberState, Ended
  <1>5. \A v \in Threads, g \in Fibers : Holds(v, g)' <=> Holds(v, g)
    BY ZenonT(40), <1>1, <1>3 DEF Holds, Holding, Busy, TypeOK
  <1>6. \A g \in Fibers : /\ Expired(g)' <=> Expired(g)
                          /\ Token(g)' <=> Token(g)
                          /\ TokenOnce(g)' <=> TokenOnce(g)
    BY ZenonT(40), <1>3 DEF Token, TokenOnce, Expired
  <1>7. TokenInv'
    <2>1. armed[f] = "no" /\ ~Expired(f)
      BY Zenon, <1>2 DEF Token
    <2> QED BY ZenonT(40), <1>1, <1>2, <1>3, <1>5, <1>6, <2>1 DEF TokenInv, TypeOK, Ended
  <1>8. HolderInv'
    BY SMTT(30), <1>1, <1>2, <1>3, <1>5 DEF HolderInv, Holding, Busy, TypeOK, Ended
  <1>9. HoldOnce'
    BY SMTT(30), <1>2, <1>3, <1>5 DEF HoldOnce, TypeOK, Ended
  <1>10. SpareInv'
    BY <1>2, <1>3, <1>5 DEF SpareInv, Fibers, TypeOK, Ended
  <1>11. /\ finished' \in SUBSET Callbacks
         /\ m_cb' \in [CbFibers -> Callbacks \cup {nullptr}]
         /\ \A g \in CbFibers : m_cb'[g] = m_cb[g] \/ (g = f /\ s \in Ended)
    <2>1. f \in CbFibers => m_cb[f] \in Callbacks
      BY Zenon, <1>2 DEF FreeInv
    <2>2. CASE YieldToReady(w)
      BY ZenonT(40), <2>2 DEF YieldToReady, TypeOK
    <2>3. ASSUME NEW e \in Ended, Finish(w, e)
          PROVE  /\ finished' \in SUBSET Callbacks
                 /\ m_cb' \in [CbFibers -> Callbacks \cup {nullptr}]
                 /\ \A g \in CbFibers : m_cb'[g] = m_cb[g] \/ (g = f /\ s \in Ended)
      <3>1. s = e
        BY Zenon, <1>2, <1>3, <2>3 DEF Finish, TypeOK
      <3> QED BY ZenonT(40), <1>2, <2>1, <2>3, <3>1 DEF Finish, TypeOK
    <2> QED BY Zenon, <2>2, <2>3
  <1>14. FreeInv'
    BY ZenonT(40), <1>2, <1>3, <1>5, <1>11 DEF FreeInv, Fibers, TypeOK, Ended
  <1>12. TypeOK'
    <2>1. yields' \in 0..MaxYields
      BY SchedulerAssumption DEF TypeOK, YieldToReady, Finish
    <2> QED BY Zenon, <1>3, <1>4, <1>11, <2>1 DEF TypeOK
  <1>13. ActiveInv'
    BY ZenonT(40), <1>1, <1>3, <1>4, ActiveMoves DEF ActiveInv, BusyThreads, Busy
  <1> QED BY Zenon, <1>7, <1>8, <1>9, <1>10, <1>12, <1>13, <1>14

\* expired timers leave the timer set for the local list of idle()
LEMMA StepListExpiredCb ==
  ASSUME FiberInv, NEW w \in Threads, listExpiredCb(w)
  PROVE  FiberInv'
  <1> USE DEF FiberInv
  <1>1. PICK S \in SUBSET Armed("timer") :
           /\ cbs' = [cbs EXCEPT ![w] = S]
           /\ armed' = [f \in Fibers |-> IF f \in S THEN "no" ELSE armed[f]]
    BY ZenonT(40) DEF listExpiredCb
  <1>2. /\ pc[w] = "epoll" /\ pc' = [pc EXCEPT ![w] = "expired"] /\ "expired" \in Label
        /\ UNCHANGED <<m_fibers, m_activeThreadCount, m_stopping, m_state, m_cb, ft,
             cb_fiber, idle_fiber, unscheduled, finished, yields>>
        /\ S \in SUBSET Fibers /\ \A g \in S : armed[g] = "timer"
    BY Zenon DEF listExpiredCb, Goto, Label, Armed
  <1>3. \A v \in Threads, g \in Fibers : Holds(v, g)' <=> Holds(v, g)
    BY ZenonT(40), <1>2 DEF Holds, Holding, Busy, TypeOK
  <1>4. cbs[w] = {}
    BY ZenonT(40), <1>2 DEF HolderInv
  <1>5. \A g \in Fibers : /\ Expired(g)' <=> (Expired(g) \/ g \in S)
                          /\ armed'[g] = IF g \in S THEN "no" ELSE armed[g]
                          /\ \A v \in Threads : g \in cbs'[v] <=>
                               (g \in cbs[v] \/ (v = w /\ g \in S))
    BY Zenon, <1>1, <1>4 DEF Expired, TypeOK
  <1>6. \A g \in Fibers : /\ Token(g)' <=> Token(g)
                          /\ TokenOnce(g) => TokenOnce(g)'
    <2>1. \A g \in Fibers : Token(g)' <=> Token(g)
      BY ZenonT(40), <1>2, <1>5 DEF Token
    <2>2. ASSUME NEW g \in Fibers, TokenOnce(g) PROVE TokenOnce(g)'
      <3>1. /\ Expired(g)' <=> (Expired(g) \/ g \in S)
            /\ armed'[g] = IF g \in S THEN "no" ELSE armed[g]
            /\ g \in S => armed[g] = "timer"
        BY ZenonT(40), <1>2, <1>5
      <3>2. /\ OnceInQueue(m_fibers', g)
            /\ InQueue(m_fibers', g) => armed'[g] = "no" /\ ~Expired(g)'
            /\ armed'[g] # "no" => ~Expired(g)'
        BY ZenonT(40), <1>2, <2>2, <3>1 DEF TokenOnce
      <3>3. \A v, u \in Threads : g \in cbs'[v] /\ g \in cbs'[u] => v = u
        <4>1. g \in S => \A v \in Threads : g \notin cbs[v]
          BY ZenonT(40), <2>2, <3>1 DEF TokenOnce, Expired
        <4> QED BY ZenonT(40), <1>5, <2>2, <4>1 DEF TokenOnce
      <3> QED BY Zenon, <3>2, <3>3 DEF TokenOnce
    <2> QED BY ZenonT(40), <2>1, <2>2
  <1>7. HolderInv'
    BY ZenonT(40), <1>1, <1>2, <1>3 DEF HolderInv, TypeOK, Holding, Busy
  <1>8. HoldOnce' /\ SpareInv' /\ FreeInv'
    <2>1. \A v \in Threads, g \in Fibers : Holds(v, g) => pc'[v] = pc[v]
      BY ZenonT(40), <1>2 DEF Holds, Holding, Busy, TypeOK
    <2>2. HoldOnce'
      BY ZenonT(40), <1>2, <1>3, <2>1, HoldOnceKept
    <2>3. SpareInv'
      BY ZenonT(40), <1>2, <1>3 DEF SpareInv, Fibers
    <2>4. FreeInv'
      BY ZenonT(40), <1>2, <1>3 DEF FreeInv
    <2> QED BY Zenon, <2>2, <2>3, <2>4
  <1>9. TokenInv'
    <2>1. \A v \in Threads, g \in Fibers : Holds(v, g) => pc'[v] = pc[v]
      BY Zenon, <1>2 DEF Holds, Holding, Busy, TypeOK
    <2> QED BY ZenonT(40), <1>2, <1>3, <1>5, <1>6, <2>1 DEF TokenInv
  <1>10. TypeOK' /\ ActiveInv'
    <2>1. ActiveInv'
      BY ZenonT(40), <1>2, ActiveMoves DEF ActiveInv, BusyThreads, Busy
    <2> QED BY ZenonT(40), <1>1, <1>2, <2>1 DEF TypeOK
  <1> QED BY Zenon, <1>7, <1>8, <1>9, <1>10

\* the local list goes to the back of the queue
LEMMA StepScheduleExpired ==
  ASSUME FiberInv, NEW w \in Threads, scheduleExpired(w)
  PROVE  FiberInv'
  <1> USE DEF FiberInv
  <1>1. PICK S \in SUBSET Fibers : S = cbs[w]
    BY ZenonT(40) DEF TypeOK
  <1>2. PICK n \in Nat : n = Cardinality(S)
    <2>1. IsFiniteSet(Fibers)
      BY Zenon, SchedulerAssumption, FS_Union DEF Fibers
    <2> QED BY ZenonT(40), <2>1, FS_Subset, FS_CardinalityType
  <1>3. PICK b \in Bijection(1..n, S) :
           m_fibers' = m_fibers \o [i \in 1..n |-> [task |-> b[i], thread |-> AnyThread]]
    BY ZenonT(40), <1>1, <1>2 DEF scheduleExpired
  <1>4. /\ pc[w] = "expired" /\ pc' = [pc EXCEPT ![w] = "yield"] /\ "yield" \in Label
        /\ cbs' = [cbs EXCEPT ![w] = {}]
        /\ UNCHANGED <<m_activeThreadCount, m_stopping, m_state, m_cb, ft, cb_fiber,
             idle_fiber, armed, unscheduled, finished, yields>>
    BY ZenonT(40) DEF scheduleExpired, Goto, Label
  <1>5. /\ m_fibers' \in Seq(Entry)
        /\ \A t : InQueue(m_fibers', t) <=> InQueue(m_fibers, t) \/ t \in S
        /\ \A t : OnceInQueue(m_fibers, t) /\ (t \in S => ~InQueue(m_fibers, t))
                    => OnceInQueue(m_fibers', t)
    <2>1. m_fibers \in Seq(Entry)
      BY ZenonT(40) DEF TypeOK
    <2> QED BY <1>3, <2>1, ConcatFacts
  <1>6. \A v \in Threads, g \in Fibers : Holds(v, g)' <=> Holds(v, g)
    BY ZenonT(40), <1>4 DEF Holds, Holding, Busy, TypeOK
  <1>7. \A v \in Threads : cbs'[v] = IF v = w THEN {} ELSE cbs[v]
    BY ZenonT(40), <1>4 DEF TypeOK
  <1>8. \A g \in S : m_state[g] \notin Ended /\ TokenOnce(g) /\ Expired(g)
    BY Zenon, <1>1 DEF TokenInv, Expired
  <1>9. \A g \in Fibers : /\ Expired(g)' => Expired(g)
                          /\ Token(g)' => Token(g)
                          /\ TokenOnce(g) => TokenOnce(g)'
    <2>1. \A g \in Fibers : Expired(g)' => Expired(g)
      BY ZenonT(40), <1>7 DEF Expired
    <2>2. \A g \in Fibers : Token(g)' => Token(g)
      BY ZenonT(40), <1>4, <1>5, <1>8, <2>1 DEF Token
    <2>3. ASSUME NEW g \in Fibers, TokenOnce(g) PROVE TokenOnce(g)'
      <3>1. g \in S => ~InQueue(m_fibers, g) /\ armed[g] = "no" /\ ~Expired(g)'
        BY ZenonT(40), <1>1, <1>7, <1>8, <2>3 DEF TokenOnce, Expired
      <3>2. \A u, v \in Threads : g \in cbs'[u] /\ g \in cbs'[v] => u = v
        BY ZenonT(40), <1>7, <2>3 DEF TokenOnce
      <3> QED BY ZenonT(40), <1>4, <1>5, <2>1, <2>3, <3>1, <3>2 DEF TokenOnce
    <2> QED BY ZenonT(40), <2>1, <2>2, <2>3
  <1>10. HolderInv'
    BY ZenonT(40), <1>4, <1>6, <1>7 DEF HolderInv, TypeOK, Holding, Busy
  <1>11. \A v \in Threads, g \in Fibers : Holds(v, g) => pc'[v] = pc[v]
    BY Zenon, <1>4 DEF Holds, Holding, Busy, TypeOK
  <1>12. HoldOnce' /\ SpareInv' /\ FreeInv'
    <2>1. HoldOnce'
      BY ZenonT(40), <1>4, <1>6, <1>11 DEF HoldOnce
    <2>2. SpareInv' /\ FreeInv'
      BY ZenonT(40), <1>4, <1>6 DEF SpareInv, FreeInv, Fibers
    <2> QED BY ZenonT(40), <2>1, <2>2
  <1>13. TokenInv'
    BY ZenonT(40), <1>4, <1>6, <1>9, <1>11 DEF TokenInv
  <1>14. TypeOK' /\ ActiveInv'
    <2>1. ActiveInv'
      BY ZenonT(40), <1>4, ActiveMoves DEF ActiveInv, BusyThreads, Busy
    <2> QED BY Zenon, <1>4, <1>5, <2>1 DEF TypeOK
  <1> QED BY Zenon, <1>10, <1>12, <1>13, <1>14

-----------------------------------------------------------------------------
(* The theorems                                                            *)

\* every step of run(), idle(), the tasks and the clients preserves FiberInv
LEMMA NextInv == FiberInv /\ [Next]_vars => FiberInv'
  <1> SUFFICES ASSUME FiberInv, [Next]_vars
               PROVE  FiberInv'
    OBVIOUS
  <1>1. CASE UNCHANGED vars
    <2>1. TypeOK'
      BY ZenonT(40), <1>1 DEF vars, FiberInv, TypeOK
    <2>2. ActiveInv'
      BY Zenon, <1>1 DEF vars, FiberInv, ActiveInv
    <2>3. \A v \in Threads, f \in Fibers : Holds(v, f)' <=> Holds(v, f)
      BY ZenonT(40), <1>1 DEF vars, Holds
    <2>4. \A f \in Fibers : (Token(f)' <=> Token(f)) /\ (TokenOnce(f)' <=> TokenOnce(f))
                              /\ (Expired(f)' <=> Expired(f))
      BY ZenonT(40), <1>1 DEF vars, Token, TokenOnce, Expired
    <2>5. HolderInv'
      BY ZenonT(40), <1>1, <2>3 DEF vars, FiberInv, HolderInv
    <2>6. HoldOnce'
      BY ZenonT(40), <1>1, <2>3, HoldOnceKept DEF vars, FiberInv
    <2>7. TokenInv'
      BY ZenonT(40), <1>1, <2>3, <2>4 DEF vars, FiberInv, TokenInv
    <2>8. SpareInv' /\ FreeInv'
      BY ZenonT(40), <1>1, <2>3 DEF vars, FiberInv, SpareInv, FreeInv, Fibers
    <2> QED BY ZenonT(40), <2>1, <2>2, <2>5, <2>6, <2>7, <2>8 DEF FiberInv
  <1>2. ASSUME NEW w \in Threads, Worker(w)
        PROVE  FiberInv'
    BY ZenonT(40), <1>2, StepTake, StepMiss, StepRunFiber, StepDropFiber, StepRunCallback,
       StepSwapOut, StepBack, StepPost, StepIdle, StepListExpiredCb,
       StepScheduleExpired DEF Worker
  <1>3. ASSUME NEW w \in Threads, TaskStep(w)
        PROVE  FiberInv'
    <2>1. CASE \E kind \in {"timer", "event"} : Arm(w, kind)
      BY ZenonT(40), <2>1, StepArm
    <2>2. CASE \E thr \in Pins : switchTo(w, thr)
      BY Zenon, <2>2, StepSwitchTo
    <2>3. CASE YieldToReady(w) \/ \E s \in Ended : Finish(w, s)
      BY ZenonT(40), <2>3, StepSetState
    <2> QED BY ZenonT(40), <1>3, <2>1, <2>2, <2>3 DEF TaskStep
  <1>4. CASE \E f \in Fibers : triggerEvent(f)
    BY ZenonT(40), <1>4, StepTriggerEvent
  <1>5. CASE \E t \in UserFibers \cup Callbacks, thr \in Pins : ClientSchedule(t, thr)
    BY Zenon, <1>5, StepClientSchedule
  <1>6. CASE \E f \in UserFibers, thr \in Pins : ScheduleEnded(f, thr)
    BY ZenonT(40), <1>6, StepScheduleEnded
  <1>7. CASE stop
    BY ZenonT(40), <1>7, StepStop
  <1> QED BY ZenonT(40), <1>1, <1>2, <1>3, <1>4, <1>5, <1>6, <1>7 DEF Next

\* the inductive invariant holds in every reachable state, for any number of
\* threads, fibers and callbacks
THEOREM FiberInvariant == Spec => []FiberInv
  BY InitInv, NextInv, PTL DEF Spec

\* the type invariant, and with it that m_activeThreadCount never wraps
\* around below zero
THEOREM TypeCorrect == Spec => []TypeOK
  <1>1. FiberInv => TypeOK
    BY ZenonT(40) DEF FiberInv
  <1> QED BY FiberInvariant, <1>1, PTL

\* run() never resumes a fiber that is on the stack of another thread
THEOREM NoFiberOnTwoThreads == Spec => []FiberOnOneThread
  <1>1. FiberInv => FiberOnOneThread
    <2> SUFFICES ASSUME FiberInv, NEW v \in Threads, NEW w \in Threads, v # w,
                        pc[v] \in Running, pc[w] \in Running, Cur(v) = Cur(w)
                 PROVE  FALSE
      BY ZenonT(40) DEF FiberOnOneThread
    <2>1. PICK f \in Fibers : Holds(v, f)
      BY Zenon DEF FiberInv, HolderInv, Running, Holding, Busy
    <2>2. Holds(w, f)
      BY ZenonT(40), <2>1 DEF Holds, Cur, Running, Holding, Busy
    <2> QED BY ZenonT(40), <2>1, <2>2 DEF FiberInv, HoldOnce, Running
  <1> QED BY FiberInvariant, <1>1, PTL

\* the assertions of swapIn() and reset() hold whenever run() reaches them
THEOREM AssertionsHold == Spec => []SwapInAllowed
  <1>1. FiberInv => SwapInAllowed
    <2> SUFFICES ASSUME FiberInv, NEW w \in Threads, pc[w] = "took"
                 PROVE  /\ ft[w] \in Fibers =>
                             m_state[ft[w]] \in {"INIT", "HOLD", "READY"} \cup Ended
                        /\ ft[w] \in Callbacks /\ cb_fiber[w] # nullptr =>
                             m_state[cb_fiber[w]] = "INIT"
      BY Zenon DEF SwapInAllowed
    <2>1. ASSUME NEW f \in Fibers, f = ft[w]
          PROVE  m_state[f] \in {"INIT", "HOLD", "READY"} \cup Ended
      <3>1. Holds(w, f)
        BY ZenonT(40), <2>1, SchedulerAssumption DEF Holds, Holding, Busy
      <3> QED BY ZenonT(40), <3>1 DEF FiberInv, HolderInv
    <2>2. ASSUME ft[w] \in Callbacks, NEW f \in CbFibers, f = cb_fiber[w]
          PROVE  m_state[f] = "INIT"
      BY Zenon, <2>2 DEF FiberInv, SpareInv, Holds
    <2> QED BY ZenonT(40), <2>1, <2>2 DEF FiberInv, TypeOK
  <1> QED BY FiberInvariant, <1>1, PTL

-----------------------------------------------------------------------------
(* Every fiber that has left its thread will be resumed.                   *)

\* a step that neither takes f's token nor its holder, nor sends a holder out
LEMMA LeftKept ==
  ASSUME NEW f \in Fibers, Left(f), m_state'[f] = m_state[f],
         Token(f) => Token(f)',
         \A v \in Threads : Holds(v, f) => Holds(v, f)',
         \A v \in Threads : Holds(v, f)' /\ pc'[v] \in {"out", "back", "post"} =>
           Holds(v, f) /\ pc[v] \in {"out", "back", "post"}
  PROVE  Left(f)'
  BY ZenonT(40) DEF Left

\* the workers' own moves, stop() and whatever only adds to the queue
LEMMA LeftQuiet ==
  ASSUME LeftInv, m_state' = m_state,
         \A g \in Fibers : Token(g) => Token(g)',
         UNCHANGED <<ft, cb_fiber>>,
         \A v \in Threads : \/ pc'[v] = pc[v]
                            \/ pc[v] \notin Holding /\ pc'[v] \notin Holding
                            \/ pc[v] \in {"out", "back"} /\ pc'[v] \in {"back", "post"}
  PROVE  LeftInv'
  <1>1. \A v \in Threads, g \in Fibers :
          /\ Holds(v, g) => Holds(v, g)'
          /\ Holds(v, g)' /\ pc'[v] \in {"out", "back", "post"} =>
               Holds(v, g) /\ pc[v] \in {"out", "back", "post"}
    BY ZenonT(40) DEF Holds, Holding, Busy
  <1> QED BY ZenonT(40), <1>1, LeftKept DEF LeftInv

\* the steps that leave every fiber in the hands it is in
LEMMA LeftBeside ==
  ASSUME FiberInv, LeftInv, NEW w \in Threads,
         \/ swapOut(w) \/ Back(w) \/ readTimers(w) \/ readEvents(w) \/ readQueue(w)
         \/ IdleYield(w)
  PROVE  LeftInv'
  <1>1. UNCHANGED <<m_fibers, m_state, ft, cb_fiber, armed, cbs>>
    BY Zenon DEF swapOut, Back, readTimers, readEvents, readQueue, IdleYield
  <1>2. \A g \in Fibers : Token(g) => Token(g)'
    BY Zenon, <1>1 DEF Token, Expired
  <1>3. PICK l \in Label :
          /\ pc' = [pc EXCEPT ![w] = l]
          /\ \/ pc[w] \notin Holding /\ l \notin Holding
             \/ pc[w] \in {"out", "back"} /\ l \in {"back", "post"}
    <2>1. CASE swapOut(w) \/ Back(w)
      BY Zenon, <2>1 DEF swapOut, Back, Goto, Label
    <2>2. CASE readTimers(w) \/ readEvents(w) \/ readQueue(w) \/ IdleYield(w)
      <3>1. PICK l \in {"readEvents", "readQueue", "scan", "epoll", "exit"} :
              pc' = [pc EXCEPT ![w] = l]
        BY Zenon, <2>2 DEF readTimers, readEvents, readQueue, IdleYield, GoOn, Goto
      <3>2. pc[w] \in {"readTimers", "readEvents", "readQueue", "epoll", "yield"}
        BY Zenon, <2>2 DEF readTimers, readEvents, readQueue, IdleYield
      <3>3. l \in Label /\ l \notin Holding /\ pc[w] \notin Holding
        BY ZenonT(40), <3>2 DEF Label, Holding, Busy
      <3> QED BY Zenon, <3>1, <3>3
    <2> QED BY Zenon, <2>1, <2>2
  <1>4. \A v \in Threads : v # w => pc'[v] = pc[v]
    BY Zenon, <1>3 DEF FiberInv, TypeOK
  <1>5. pc'[w] = l
    BY Zenon, <1>3 DEF FiberInv, TypeOK
  <1> QED BY ZenonT(40), <1>1, <1>2, <1>3, <1>4, <1>5, LeftQuiet

\* stop() moves a thread that holds nothing
LEMMA LeftStop ==
  ASSUME FiberInv, LeftInv, stop
  PROVE  LeftInv'
  <1>1. UNCHANGED <<m_fibers, m_state, ft, cb_fiber, armed, cbs>>
    BY Zenon DEF stop
  <1>2. \A g \in Fibers : Token(g) => Token(g)'
    BY Zenon, <1>1 DEF Token, Expired
  <1>3. \A v \in Threads : \/ pc'[v] = pc[v]
                           \/ pc[v] = "parked" /\ pc'[v] = "readTimers"
    BY Zenon DEF stop
  <1>4. "parked" \notin Holding /\ "readTimers" \notin Holding
    BY Zenon DEF Holding, Busy
  <1> QED BY ZenonT(40), <1>1, <1>2, <1>3, <1>4, LeftQuiet

\* an event, a client: one more entry in the queue
LEMMA LeftQueued ==
  ASSUME FiberInv, LeftInv, NEW t \in Task, NEW thr \in Threads \cup {AnyThread},
         schedule(t, thr), UNCHANGED <<m_state, pc, ft, cb_fiber, cbs>>,
         \A g \in Fibers : g # t => armed'[g] = armed[g]
  PROVE  LeftInv'
  <1> DEFINE e == [task |-> t, thread |-> thr]
  <1>1. e \in Entry /\ e.task = t /\ m_fibers \in Seq(Entry)
    BY Zenon DEF Entry, FiberInv, TypeOK
  <1>2. m_fibers' = Append(m_fibers, e)
    BY Zenon DEF schedule
  <1> HIDE DEF e
  <1>3. \A g : InQueue(m_fibers', g) <=> InQueue(m_fibers, g) \/ g = t
    BY Zenon, <1>1, <1>2, AppendFacts
  <1>4. \A g \in Fibers : Token(g) => Token(g)'
    BY Zenon, <1>3 DEF Token, Expired
  <1> QED BY ZenonT(40), <1>4, LeftQuiet

\* expired timers go from the set to the worker's list ...
LEMMA LeftListExpiredCb ==
  ASSUME FiberInv, LeftInv, NEW w \in Threads, listExpiredCb(w)
  PROVE  LeftInv'
  <1>1. PICK S \in SUBSET Armed("timer") :
           /\ cbs' = [cbs EXCEPT ![w] = S]
           /\ armed' = [f \in Fibers |-> IF f \in S THEN "no" ELSE armed[f]]
    BY ZenonT(40) DEF listExpiredCb
  <1>2. /\ pc[w] = "epoll" /\ pc' = [pc EXCEPT ![w] = "expired"]
        /\ UNCHANGED <<m_fibers, m_state, ft, cb_fiber>>
    BY Zenon DEF listExpiredCb, Goto
  <1>3. cbs[w] = {} /\ cbs'[w] = S /\ \A v \in Threads : v # w => cbs'[v] = cbs[v]
    BY ZenonT(40), <1>1, <1>2 DEF FiberInv, HolderInv, TypeOK
  <1>4. \A g \in Fibers : /\ armed'[g] = IF g \in S THEN "no" ELSE armed[g]
                          /\ Expired(g) \/ g \in S => Expired(g)'
    BY ZenonT(40), <1>1, <1>3 DEF Expired
  <1>5. \A g \in Fibers : Token(g) => Token(g)'
    BY ZenonT(40), <1>2, <1>4 DEF Token
  <1>6. \A v \in Threads : \/ pc'[v] = pc[v]
                           \/ pc[v] \notin Holding /\ pc'[v] \notin Holding
    BY ZenonT(40), <1>2 DEF FiberInv, TypeOK, Holding, Busy
  <1> QED BY ZenonT(40), <1>2, <1>5, <1>6, LeftQuiet

\* ... and from there to the queue
LEMMA LeftScheduleExpired ==
  ASSUME FiberInv, LeftInv, NEW w \in Threads, scheduleExpired(w)
  PROVE  LeftInv'
  <1>1. PICK S \in SUBSET Fibers : S = cbs[w]
    BY ZenonT(40) DEF FiberInv, TypeOK
  <1>2. PICK n \in Nat : n = Cardinality(S)
    <2>1. IsFiniteSet(Fibers)
      BY Zenon, SchedulerAssumption, FS_Union DEF Fibers
    <2> QED BY ZenonT(40), <2>1, FS_Subset, FS_CardinalityType
  <1>3. PICK b \in Bijection(1..n, S) :
           m_fibers' = m_fibers \o [i \in 1..n |-> [task |-> b[i], thread |-> AnyThread]]
    BY ZenonT(40), <1>1, <1>2 DEF scheduleExpired
  <1>4. /\ pc[w] = "expired" /\ pc' = [pc EXCEPT ![w] = "yield"]
        /\ cbs' = [cbs EXCEPT ![w] = {}]
        /\ UNCHANGED <<m_state, ft, cb_fiber, armed>>
    BY ZenonT(40) DEF scheduleExpired, Goto
  <1>5. \A t : InQueue(m_fibers', t) <=> InQueue(m_fibers, t) \/ t \in S
    <2>1. m_fibers \in Seq(Entry)
      BY ZenonT(40) DEF FiberInv, TypeOK
    <2> QED BY <1>3, <2>1, ConcatFacts
  <1>6. \A g \in Fibers : Expired(g) => Expired(g)' \/ g \in S
    BY ZenonT(40), <1>1, <1>4 DEF Expired, FiberInv, TypeOK
  <1>7. \A g \in Fibers : Token(g) => Token(g)'
    BY ZenonT(40), <1>4, <1>5, <1>6 DEF Token
  <1>8. \A v \in Threads : \/ pc'[v] = pc[v]
                           \/ pc[v] \notin Holding /\ pc'[v] \notin Holding
    BY ZenonT(40), <1>4 DEF FiberInv, TypeOK, Holding, Busy
  <1> QED BY ZenonT(40), <1>4, <1>7, <1>8, LeftQuiet

\* a step of worker w that is about fiber x alone, and settles it
LEMMA LeftAllBut ==
  ASSUME LeftInv, NEW w \in Threads, NEW x,
         x \in Fibers => Left(x)',
         \A g \in Fibers : g # x =>
           /\ m_state'[g] = m_state[g] /\ (Token(g) => Token(g)')
           /\ ~Holds(w, g)
           /\ \A v \in Threads : Holds(v, g)' <=> Holds(v, g),
         \A v \in Threads : v # w => pc'[v] = pc[v]
  PROVE  LeftInv'
  <1> SUFFICES ASSUME NEW g \in Fibers, g # x PROVE Left(g)'
    BY ZenonT(40) DEF LeftInv
  <1> QED BY ZenonT(40), LeftKept DEF LeftInv

\* a taken fiber is in the hands of its worker, and it was not EXEC
LEMMA LeftTake ==
  ASSUME FiberInv, LeftInv, NEW w \in Threads, Take(w)
  PROVE  LeftInv'
  <1>1. PICK i \in 1..Len(m_fibers) :
           /\ Takeable(w, i)
           /\ ft' = [ft EXCEPT ![w] = m_fibers[i].task]
           /\ m_fibers' = erase(m_fibers, i)
    BY Zenon DEF Take
  <1>2. /\ pc[w] = "scan" /\ pc' = [pc EXCEPT ![w] = "took"]
        /\ UNCHANGED <<m_state, cb_fiber, armed, cbs>>
    BY Zenon DEF Take, Goto
  <1>3. m_fibers \in Seq(Entry) /\ m_fibers[i] \in Entry
    BY ZenonT(40), ElementOfSeq DEF FiberInv, TypeOK
  <1>4. PICK t \in Task : t = m_fibers[i].task
    BY ZenonT(40), <1>3 DEF Entry
  <1>5. \A g : g # t => (InQueue(m_fibers, g) => InQueue(m_fibers', g))
    BY ZenonT(40), <1>1, <1>3, <1>4, EraseFacts
  <1>6. \A v \in Threads : v # w => pc'[v] = pc[v] /\ ft'[v] = ft[v]
    BY ZenonT(40), <1>1, <1>2 DEF FiberInv, TypeOK
  <1>7. pc'[w] = "took" /\ ft'[w] = t
    BY ZenonT(40), <1>1, <1>2, <1>4 DEF FiberInv, TypeOK
  <1>8. ASSUME NEW g \in Fibers, g # t
        PROVE  /\ m_state'[g] = m_state[g] /\ (Token(g) => Token(g)')
               /\ ~Holds(w, g)
               /\ \A v \in Threads : Holds(v, g)' <=> Holds(v, g)
    <2>1. Token(g) => Token(g)'
      BY ZenonT(40), <1>2, <1>5, <1>8 DEF Token, Expired
    <2>2. ~Holds(w, g)
      BY ZenonT(40), <1>2 DEF Holds, Holding, Busy
    <2>3. ~Holds(w, g)'
      BY ZenonT(40), <1>7, <1>8 DEF Holds
    <2>4. \A v \in Threads : v # w => (Holds(v, g)' <=> Holds(v, g))
      BY ZenonT(40), <1>2, <1>6 DEF Holds
    <2> QED BY ZenonT(40), <1>2, <2>1, <2>2, <2>3, <2>4
  <1>9. ASSUME t \in Fibers PROVE Left(t)'
    <2>1. Holds(w, t)'
      BY ZenonT(40), <1>7, <1>9, SchedulerAssumption DEF Holds, Holding, Busy
    <2>2. m_state'[t] # "EXEC"
      BY ZenonT(40), <1>1, <1>2, <1>4, <1>9 DEF Takeable
    <2> QED BY ZenonT(40), <2>1, <2>2 DEF Left
  <1> QED BY ZenonT(40), <1>6, <1>8, <1>9, LeftAllBut

\* a worker that finds nothing may destroy its spare fiber
LEMMA LeftMiss ==
  ASSUME FiberInv, FiberInv', LeftInv, NEW w \in Threads, Miss(w)
  PROVE  LeftInv'
  <1>1. /\ pc[w] = "scan" /\ UNCHANGED <<m_fibers, ft, armed, cbs>>
    BY ZenonT(40) DEF Miss
  <1>2. \A g \in Fibers : Token(g) => Token(g)'
    BY ZenonT(40), <1>1 DEF Token, Expired
  <1>3. PICK l \in {"exit", "readTimers"} : pc' = [pc EXCEPT ![w] = l]
    BY ZenonT(40) DEF Miss, Goto
  <1>4. pc'[w] = l /\ \A v \in Threads : v # w => pc'[v] = pc[v]
    BY ZenonT(40), <1>3 DEF FiberInv, TypeOK
  <1>5. \A g \in Fibers : ~Holds(w, g) /\ ~Holds(w, g)'
    BY ZenonT(40), <1>1, <1>4 DEF Holds, Holding, Busy
  <1>6. \A g \in Fibers :
          /\ g # cb_fiber[w] => m_state'[g] = m_state[g]
          /\ g = cb_fiber[w] => m_state'[g] \in {"FREE", m_state[g]}
    BY ZenonT(40) DEF Miss
  <1>7. \A v \in Threads : v # w => cb_fiber'[v] = cb_fiber[v]
    BY ZenonT(40) DEF Miss, FiberInv, TypeOK
  <1>8. \A v \in Threads, g \in Fibers : Holds(v, g)' <=> Holds(v, g)
    BY ZenonT(40), <1>1, <1>4, <1>5, <1>7 DEF Holds
  <1>9. ASSUME NEW g \in Fibers, g = cb_fiber[w] PROVE Left(g)'
    <2>1. g \in CbFibers
      BY ZenonT(40), <1>9, SchedulerAssumption DEF FiberInv, TypeOK
    <2>2. m_state[g] = "INIT"
      BY ZenonT(40), <1>5, <1>9, <2>1 DEF FiberInv, SpareInv
    <2>3. m_state'[g] \in {"FREE", "INIT"}
      BY Zenon, <1>6, <1>9, <2>2
    <2> QED BY ZenonT(40), <2>3 DEF Left
  <1> QED BY ZenonT(40), <1>2, <1>4, <1>5, <1>6, <1>8, <1>9, LeftAllBut

\* a fiber that is switched to is EXEC, in the hands of a worker on its stack
LEMMA LeftRun ==
  ASSUME FiberInv, FiberInv', LeftInv, NEW w \in Threads, RunFiber(w) \/ RunCallback(w)
  PROVE  LeftInv'
  <1>1. /\ pc[w] = "took" /\ pc' = [pc EXCEPT ![w] = "exec"]
        /\ UNCHANGED <<m_fibers, ft, armed, cbs>>
    BY ZenonT(40) DEF RunFiber, RunCallback, Goto
  <1>2. PICK f \in Fibers :
          /\ m_state' = [m_state EXCEPT ![f] = "EXEC"]
          /\ \A v \in Threads : v # w => cb_fiber'[v] = cb_fiber[v]
          /\ f = Cur(w)'
          /\ ft[w] \notin Callbacks => f = ft[w]
    <2>1. CASE RunFiber(w)
      BY ZenonT(40), <2>1, SchedulerAssumption DEF RunFiber, Cur
    <2>2. CASE RunCallback(w)
      <3>1. PICK f \in CbFibers : /\ cb_fiber' = [cb_fiber EXCEPT ![w] = f]
                                  /\ m_state' = [m_state EXCEPT ![f] = "EXEC"]
        BY ZenonT(40), <2>2 DEF RunCallback
      <3>2. f \in Fibers /\ ft'[w] \in Callbacks /\ ft[w] \in Callbacks
        BY ZenonT(40), <2>2 DEF RunCallback, Fibers
      <3> QED BY ZenonT(40), <3>1, <3>2 DEF Cur, FiberInv, TypeOK
    <2> QED BY ZenonT(40), <2>1, <2>2
  <1>3. pc'[w] = "exec" /\ \A v \in Threads : v # w => pc'[v] = pc[v]
    BY ZenonT(40), <1>1 DEF FiberInv, TypeOK
  <1>4. m_state'[f] = "EXEC" /\ \A g \in Fibers : g # f => m_state'[g] = m_state[g]
    BY ZenonT(40), <1>2 DEF FiberInv, TypeOK
  <1>5. \A g \in Fibers : /\ Holds(w, g)' <=> g = f
                          /\ Holds(w, g) => g = f
    <2>1. \A g \in Fibers : Holds(w, g)' <=> g = f
      BY ZenonT(40), <1>2, <1>3 DEF Holds, Cur, Holding, Busy
    <2>2. \A g \in Fibers : Holds(w, g) => g = f
      BY ZenonT(40), <1>1, <1>2 DEF Holds
    <2> QED BY Zenon, <2>1, <2>2
  <1>6. ASSUME NEW g \in Fibers, g # f
        PROVE  /\ m_state'[g] = m_state[g] /\ (Token(g) => Token(g)')
               /\ ~Holds(w, g)
               /\ \A v \in Threads : Holds(v, g)' <=> Holds(v, g)
    <2>1. Token(g) => Token(g)'
      BY ZenonT(40), <1>1 DEF Token, Expired
    <2>2. \A v \in Threads : v # w => (Holds(v, g)' <=> Holds(v, g))
      BY ZenonT(40), <1>1, <1>2, <1>3 DEF Holds
    <2> QED BY ZenonT(40), <1>4, <1>5, <1>6, <2>1, <2>2
  <1>7. Left(f)'
    <2>1. \A v \in Threads : Holds(v, f)' => v = w
      BY ZenonT(40), <1>4, <1>5 DEF FiberInv, HoldOnce, Ended
    <2> QED BY ZenonT(40), <1>3, <1>4, <2>1 DEF Left
  <1> QED BY ZenonT(40), <1>3, <1>6, <1>7, LeftAllBut

\* a dropped fiber has ended
LEMMA LeftDrop ==
  ASSUME FiberInv, LeftInv, NEW w \in Threads, DropFiber(w)
  PROVE  LeftInv'
  <1>1. /\ pc[w] = "took" /\ pc' = [pc EXCEPT ![w] = "scan"]
        /\ ft' = [ft EXCEPT ![w] = nullptr]
        /\ UNCHANGED <<m_fibers, m_state, cb_fiber, armed, cbs>>
        /\ ft[w] \in Fibers /\ m_state[ft[w]] \in Ended
    BY ZenonT(40) DEF DropFiber, Goto
  <1>2. /\ pc'[w] = "scan"
        /\ \A v \in Threads : v # w => pc'[v] = pc[v] /\ ft'[v] = ft[v]
    BY ZenonT(40), <1>1 DEF FiberInv, TypeOK
  <1>3. PICK x \in Fibers : x = ft[w]
    BY Zenon, <1>1
  <1>4. Left(x)'
    BY ZenonT(40), <1>1, <1>3 DEF Left, Ended
  <1>5. ASSUME NEW g \in Fibers, g # x
        PROVE  /\ m_state'[g] = m_state[g] /\ (Token(g) => Token(g)')
               /\ ~Holds(w, g)
               /\ \A v \in Threads : Holds(v, g)' <=> Holds(v, g)
    <2>1. Token(g) => Token(g)'
      BY ZenonT(40), <1>1 DEF Token, Expired
    <2>2. ~Holds(w, g) /\ ~Holds(w, g)'
      BY ZenonT(40), <1>1, <1>2, <1>3, <1>5 DEF Holds, Holding, Busy
    <2>3. \A v \in Threads : v # w => (Holds(v, g)' <=> Holds(v, g))
      BY ZenonT(40), <1>1, <1>2 DEF Holds
    <2> QED BY ZenonT(40), <1>1, <2>1, <2>2, <2>3
  <1> QED BY ZenonT(40), <1>2, <1>4, <1>5, LeftAllBut

\* the running task: it registers its wake-up, is READY or has ended
LEMMA LeftTaskStep ==
  ASSUME FiberInv, FiberInv', LeftInv, NEW w \in Threads, TaskStep(w)
  PROVE  LeftInv'
  <1>1. pc[w] = "exec" /\ pc' = [pc EXCEPT ![w] = "out"] /\ UNCHANGED <<ft, cb_fiber, cbs>>
    BY ZenonT(40) DEF TaskStep, Arm, switchTo, YieldToReady, Finish, Goto
  <1>2. PICK f \in Fibers :
           /\ f = Cur(w) /\ m_state[f] = "EXEC"
           /\ \A v \in Threads : Holds(v, f) <=> v = w
           /\ \A g \in Fibers : Holds(w, g) <=> g = f
    BY ZenonT(40), <1>1, RunningFiber
  <1>3. pc'[w] = "out" /\ \A v \in Threads : v # w => pc'[v] = pc[v]
    BY ZenonT(40), <1>1 DEF FiberInv, TypeOK
  <1>4. \A v \in Threads, g \in Fibers : Holds(v, g)' <=> Holds(v, g)
    BY ZenonT(40), <1>1, <1>3 DEF Holds, Holding, Busy
  <1>5. \A g \in Fibers : Expired(g)' <=> Expired(g)
    BY ZenonT(40), <1>1 DEF Expired
  <1>6. /\ \A g \in Fibers : g # f => m_state'[g] = m_state[g] /\ (Token(g) => Token(g)')
        /\ m_state'[f] = "EXEC" => Token(f)'
    <2>1. ASSUME NEW kind \in {"timer", "event"}, Arm(w, kind)
          PROVE  /\ \A g \in Fibers : g # f => m_state'[g] = m_state[g] /\ (Token(g) => Token(g)')
                 /\ Token(f)'
      <3>1. armed' = [armed EXCEPT ![f] = kind] /\ UNCHANGED <<m_state, m_fibers>>
        BY ZenonT(40), <1>2, <2>1 DEF Arm
      <3>2. armed'[f] # "no" /\ \A g \in Fibers : g # f => armed'[g] = armed[g]
        BY ZenonT(40), <3>1 DEF FiberInv, TypeOK
      <3> QED BY ZenonT(40), <1>5, <3>1, <3>2 DEF Token
    <2>2. ASSUME NEW thr \in Pins, switchTo(w, thr)
          PROVE  /\ \A g \in Fibers : g # f => m_state'[g] = m_state[g] /\ (Token(g) => Token(g)')
                 /\ Token(f)'
      <3> DEFINE e == [task |-> f, thread |-> thr]
      <3>1. e \in Entry /\ e.task = f /\ m_fibers \in Seq(Entry)
        BY ZenonT(40), SchedulerAssumption DEF Entry, FiberInv, TypeOK, Task
      <3>2. m_fibers' = Append(m_fibers, e) /\ UNCHANGED <<m_state, armed>>
        BY ZenonT(40), <1>2, <2>2 DEF switchTo, schedule
      <3> HIDE DEF e
      <3>3. \A g : InQueue(m_fibers', g) <=> InQueue(m_fibers, g) \/ g = f
        BY ZenonT(40), <3>1, <3>2, AppendFacts
      <3> QED BY ZenonT(40), <1>5, <3>2, <3>3 DEF Token
    <2>3. ASSUME NEW s \in {"READY"} \cup Ended, m_state' = [m_state EXCEPT ![f] = s],
                 UNCHANGED <<m_fibers, armed>>
          PROVE  /\ \A g \in Fibers : g # f => m_state'[g] = m_state[g] /\ (Token(g) => Token(g)')
                 /\ m_state'[f] # "EXEC"
      <3>1. m_state'[f] = s /\ \A g \in Fibers : g # f => m_state'[g] = m_state[g]
        BY ZenonT(40), <2>3 DEF FiberInv, TypeOK
      <3>2. s # "EXEC"
        BY ZenonT(40) DEF Ended
      <3> QED BY ZenonT(40), <1>5, <2>3, <3>1, <3>2 DEF Token
    <2>4. CASE YieldToReady(w)
      BY ZenonT(40), <1>2, <2>3, <2>4 DEF YieldToReady
    <2>5. ASSUME NEW s \in Ended, Finish(w, s)
          PROVE  /\ \A g \in Fibers : g # f => m_state'[g] = m_state[g] /\ (Token(g) => Token(g)')
                 /\ m_state'[f] # "EXEC"
      BY ZenonT(40), <1>2, <2>3, <2>5 DEF Finish
    <2> QED BY ZenonT(40), <2>1, <2>2, <2>4, <2>5 DEF TaskStep
  <1>7. Left(f)'
    BY ZenonT(40), <1>2, <1>4, <1>6 DEF Left
  <1> QED BY ZenonT(40), <1>2, <1>3, <1>4, <1>6, <1>7, LeftAllBut

\* run() queues a READY fiber again; one it leaves on HOLD is registered
LEMMA LeftPost ==
  ASSUME FiberInv, FiberInv', LeftInv, NEW w \in Threads, Post(w)
  PROVE  LeftInv'
  <1>1. PICK f \in Fibers : Holds(w, f)
    BY ZenonT(40) DEF FiberInv, HolderInv, Post, Holding
  <1>2. /\ f = Cur(w) /\ pc[w] = "post" /\ pc' = [pc EXCEPT ![w] = "scan"]
        /\ ft' = [ft EXCEPT ![w] = nullptr]
        /\ UNCHANGED <<armed, cbs>>
        /\ m_state' = [m_state EXCEPT ![f] = PostState(w, f)]
        /\ m_state[f] = "READY" => schedule(f, AnyThread)
        /\ m_state[f] # "READY" => m_fibers' = m_fibers
    <2>1. f = Cur(w)
      BY ZenonT(40), <1>1 DEF Holds, Cur
    <2> QED BY ZenonT(40), <2>1 DEF Post, Goto
  <1>3. /\ pc'[w] = "scan"
        /\ \A v \in Threads : v # w =>
             pc'[v] = pc[v] /\ ft'[v] = ft[v] /\ cb_fiber'[v] = cb_fiber[v]
    BY ZenonT(40), <1>2 DEF FiberInv, TypeOK, Post
  <1>4. /\ m_state'[f] = PostState(w, f)
        /\ \A g \in Fibers : g # f => m_state'[g] = m_state[g]
    BY ZenonT(40), <1>2 DEF FiberInv, TypeOK
  <1>5. \A g : InQueue(m_fibers, g) \/ (g = f /\ m_state[f] = "READY") =>
                 InQueue(m_fibers', g)
    <2> DEFINE e == [task |-> f, thread |-> AnyThread]
    <2>1. e \in Entry /\ e.task = f /\ m_fibers \in Seq(Entry)
      BY ZenonT(40) DEF Entry, FiberInv, TypeOK, Task
    <2>2. m_state[f] = "READY" => m_fibers' = Append(m_fibers, e)
      BY ZenonT(40), <1>2 DEF schedule
    <2> HIDE DEF e
    <2>3. CASE m_state[f] = "READY"
      <3>1. \A g : InQueue(Append(m_fibers, e), g) <=> InQueue(m_fibers, g) \/ g = f
        BY ZenonT(40), <2>1, AppendFacts
      <3>2. m_fibers' = Append(m_fibers, e)
        BY Zenon, <2>2, <2>3
      <3> QED BY ZenonT(40), <3>1, <3>2
    <2>4. CASE m_state[f] # "READY"
      BY ZenonT(40), <1>2, <2>4
    <2> QED BY Zenon, <2>3, <2>4
  <1>6. \A g \in Fibers : Token(g) \/ (g = f /\ m_state[f] = "READY") => Token(g)'
    BY ZenonT(40), <1>2, <1>5 DEF Token, Expired
  <1>7. \A g \in Fibers : ~Holds(w, g)' /\ (Holds(w, g) => g = f)
    BY ZenonT(40), <1>1, <1>3 DEF Holds, Holding, Busy
  <1>8. \A v \in Threads, g \in Fibers : v # w => (Holds(v, g)' <=> Holds(v, g))
    BY ZenonT(40), <1>3 DEF Holds
  <1>9. Left(f)'
    <2>1. m_state[f] \in {"EXEC", "READY"} \cup Ended
      BY ZenonT(40), <1>1, <1>2 DEF FiberInv, HolderInv
    <2>2. CASE m_state[f] \in {"EXEC", "READY"}
      <3>1. Token(f)'
        BY ZenonT(40), <1>1, <1>2, <1>6, <2>2 DEF LeftInv, Left
      <3> QED BY ZenonT(40), <3>1 DEF Left
    <2>3. CASE m_state[f] \in Ended
      <3>1. m_state'[f] \in {"INIT", "FREE"} \cup Ended
        BY ZenonT(40), <1>4, <2>3 DEF PostState, Ended
      <3> QED BY ZenonT(40), <3>1 DEF Left, Ended
    <2> QED BY Zenon, <2>1, <2>2, <2>3
  <1>10. ASSUME NEW g \in Fibers, g # f
         PROVE  /\ m_state'[g] = m_state[g] /\ (Token(g) => Token(g)')
                /\ ~Holds(w, g)
                /\ \A v \in Threads : Holds(v, g)' <=> Holds(v, g)
    BY ZenonT(40), <1>4, <1>6, <1>7, <1>8, <1>10
  <1> QED BY ZenonT(40), <1>3, <1>9, <1>10, LeftAllBut

\* every step keeps LeftInv
LEMMA NextLeft == FiberInv /\ FiberInv' /\ LeftInv /\ [Next]_vars => LeftInv'
  <1> SUFFICES ASSUME FiberInv, FiberInv', LeftInv, [Next]_vars PROVE LeftInv'
    OBVIOUS
  <1>1. CASE UNCHANGED vars
    BY ZenonT(40), <1>1, LeftQuiet DEF vars, Token, Expired
  <1>2. ASSUME NEW w \in Threads, Worker(w) PROVE LeftInv'
    BY ZenonT(40), <1>2, LeftBeside, LeftTake, LeftMiss, LeftRun, LeftDrop, LeftPost,
       LeftListExpiredCb, LeftScheduleExpired DEF Worker
  <1>3. ASSUME NEW w \in Threads, TaskStep(w) PROVE LeftInv'
    BY ZenonT(40), <1>3, LeftTaskStep
  <1>4. ASSUME NEW f \in Fibers, triggerEvent(f) PROVE LeftInv'
    <2>1. f \in Task /\ AnyThread \in Threads \cup {AnyThread}
      BY ZenonT(40) DEF Task
    <2>2. /\ schedule(f, AnyThread) /\ UNCHANGED <<m_state, pc, ft, cb_fiber, cbs>>
          /\ \A g \in Fibers : g # f => armed'[g] = armed[g]
      BY ZenonT(40), <1>4 DEF triggerEvent, FiberInv, TypeOK
    <2> QED BY ZenonT(40), <2>1, <2>2, LeftQueued
  <1>5. ASSUME NEW t \in UserFibers \cup Callbacks, NEW thr \in Pins,
               ClientSchedule(t, thr) \/ (t \in UserFibers /\ ScheduleEnded(t, thr))
        PROVE  LeftInv'
    <2>1. t \in Task /\ thr \in Threads \cup {AnyThread}
      BY ZenonT(40), SchedulerAssumption DEF Task, Fibers
    <2>2. schedule(t, thr) /\ UNCHANGED <<m_state, pc, ft, cb_fiber, cbs, armed>>
      BY ZenonT(40), <1>5 DEF ClientSchedule, ScheduleEnded
    <2> QED BY ZenonT(40), <2>1, <2>2, LeftQueued
  <1>6. CASE stop
    BY ZenonT(40), <1>6, LeftStop
  <1> QED BY ZenonT(40), <1>1, <1>2, <1>3, <1>4, <1>5, <1>6 DEF Next

-----------------------------------------------------------------------------
(* Every callback is in one place, and moves from one to the next.         *)

\* a step that leaves callback c where it is
CallbackStays(c) ==
  /\ c \in unscheduled' <=> c \in unscheduled
  /\ InQueue(m_fibers', c) <=> InQueue(m_fibers, c)
  /\ OnceInQueue(m_fibers, c) => OnceInQueue(m_fibers', c)
  /\ \A w \in Threads : Taken(w, c)' <=> Taken(w, c)
  /\ \A f \in CbFibers : BodyOf(f, c)' <=> BodyOf(f, c)
  /\ c \in finished' <=> c \in finished

\* a step that moves at most the callback x, and settles it
LEMMA CallbackAllBut ==
  ASSUME CallbackInv, EmptyInv', NEW x,
         \A c \in Callbacks : c # x => CallbackStays(c),
         x \in Callbacks => CallbackSomewhere(x)' /\ CallbackOnce(x)'
  PROVE  CallbackInv'
  <1> SUFFICES ASSUME NEW c \in Callbacks, c # x
               PROVE  CallbackSomewhere(c)' /\ CallbackOnce(c)'
    BY ZenonT(40) DEF CallbackInv
  <1>1. CallbackStays(c) /\ CallbackSomewhere(c) /\ CallbackOnce(c)
    BY ZenonT(40) DEF CallbackInv
  <1>2. CallbackSomewhere(c)'
    BY ZenonT(40), <1>1 DEF CallbackStays, CallbackSomewhere
  <1>3. CallbackOnce(c)'
    BY ZenonT(40), <1>1 DEF CallbackStays, CallbackOnce
  <1> QED BY Zenon, <1>2, <1>3

\* a step that moves none
LEMMA CallbackQuiet ==
  ASSUME CallbackInv, EmptyInv', \A c \in Callbacks : CallbackStays(c)
  PROVE  CallbackInv'
  BY ZenonT(40), CallbackAllBut, SchedulerAssumption

\* no body changes when the states only move among those that mean the same
LEMMA BodiesStay ==
  ASSUME EmptyInv, m_cb' = m_cb,
         \A f \in CbFibers : \/ m_state'[f] = m_state[f]
                             \/ /\ m_state[f] # "EXCEPT" /\ m_state'[f] # "EXCEPT"
                                /\ m_state'[f] \in {"FREE", "INIT", "TERM"} =>
                                     m_state[f] \in {"FREE", "INIT", "TERM"}
  PROVE  EmptyInv' /\ \A f \in CbFibers, c \in Callbacks : BodyOf(f, c)' <=> BodyOf(f, c)
  <1>1. EmptyInv'
    BY ZenonT(40) DEF EmptyInv
  <1>2. \A f \in CbFibers, c \in Callbacks : BodyOf(f, c)' <=> BodyOf(f, c)
    BY ZenonT(40) DEF BodyOf
  <1> QED BY Zenon, <1>1, <1>2

\* queueing a fiber moves no callback
LEMMA FiberQueued ==
  ASSUME FiberInv, NEW f \in Fibers, NEW thr \in Threads \cup {AnyThread}, schedule(f, thr)
  PROVE  \A c \in Callbacks :
           /\ InQueue(m_fibers', c) <=> InQueue(m_fibers, c)
           /\ OnceInQueue(m_fibers, c) => OnceInQueue(m_fibers', c)
  <1> DEFINE e == [task |-> f, thread |-> thr]
  <1>1. e \in Entry /\ e.task = f /\ m_fibers \in Seq(Entry)
    BY Zenon DEF Entry, FiberInv, TypeOK, Task
  <1>2. m_fibers' = Append(m_fibers, e)
    BY Zenon DEF schedule
  <1> HIDE DEF e
  <1>3. /\ \A g : InQueue(m_fibers', g) <=> InQueue(m_fibers, g) \/ g = f
        /\ \A g : OnceInQueue(m_fibers, g) /\ (g = f => ~InQueue(m_fibers, g))
                    => OnceInQueue(m_fibers', g)
    BY Zenon, <1>1, <1>2, AppendFacts
  <1>4. f \notin Callbacks
    BY Zenon, SchedulerAssumption
  <1> QED BY ZenonT(40), <1>3, <1>4

\* the moves of a worker that concern no callback, outside run()'s branches
LEMMA CallbackBeside ==
  ASSUME FiberInv, CallbackInv, NEW w \in Threads, NEW l \in Label,
         pc' = [pc EXCEPT ![w] = l], pc[w] # "took", l # "took",
         UNCHANGED <<m_cb, ft, unscheduled, finished>>,
         \A c \in Callbacks : /\ InQueue(m_fibers', c) <=> InQueue(m_fibers, c)
                              /\ OnceInQueue(m_fibers, c) => OnceInQueue(m_fibers', c),
         EmptyInv',
         \A f \in CbFibers, c \in Callbacks : BodyOf(f, c)' <=> BodyOf(f, c)
  PROVE  CallbackInv'
  <1>1. \A v \in Threads, c \in Callbacks : Taken(v, c)' <=> Taken(v, c)
    BY ZenonT(40) DEF Taken, FiberInv, TypeOK
  <1> QED BY ZenonT(40), <1>1, CallbackQuiet DEF CallbackStays

\* switching out, the reads of stopping(), idle()
LEMMA CallbackIdle ==
  ASSUME FiberInv, CallbackInv, NEW w \in Threads,
         \/ swapOut(w) \/ Back(w) \/ readTimers(w) \/ readEvents(w) \/ readQueue(w)
         \/ IdleYield(w) \/ listExpiredCb(w)
  PROVE  CallbackInv'
  <1>1. UNCHANGED <<m_fibers, m_state, m_cb, ft, unscheduled, finished>>
    BY ZenonT(40) DEF swapOut, Back, readTimers, readEvents, readQueue, IdleYield,
         listExpiredCb
  <1>2. /\ pc[w] \in {"out", "back", "readTimers", "readEvents", "readQueue", "epoll", "yield"}
        /\ \E l \in {"back", "post", "readEvents", "readQueue", "scan", "epoll", "exit",
                     "expired"} : pc' = [pc EXCEPT ![w] = l]
    BY ZenonT(40) DEF swapOut, Back, readTimers, readEvents, readQueue, IdleYield,
         listExpiredCb, GoOn, Goto
  <1>3. PICK l \in Label : l # "took" /\ pc' = [pc EXCEPT ![w] = l]
    BY ZenonT(40), <1>2 DEF Label
  <1>4. EmptyInv' /\ \A f \in CbFibers, c \in Callbacks : BodyOf(f, c)' <=> BodyOf(f, c)
    BY ZenonT(40), <1>1, BodiesStay DEF CallbackInv
  <1>5. pc[w] # "took"
    BY ZenonT(40), <1>2
  <1> QED BY ZenonT(40), <1>1, <1>3, <1>4, <1>5, CallbackBeside

\* the batch of expired timers is a batch of fibers
LEMMA CallbackScheduleExpired ==
  ASSUME FiberInv, CallbackInv, NEW w \in Threads, scheduleExpired(w)
  PROVE  CallbackInv'
  <1>1. PICK S \in SUBSET Fibers : S = cbs[w]
    BY ZenonT(40) DEF FiberInv, TypeOK
  <1>2. PICK n \in Nat : n = Cardinality(S)
    <2>1. IsFiniteSet(Fibers)
      BY Zenon, SchedulerAssumption, FS_Union DEF Fibers
    <2> QED BY ZenonT(40), <2>1, FS_Subset, FS_CardinalityType
  <1>3. PICK b \in Bijection(1..n, S) :
           m_fibers' = m_fibers \o [i \in 1..n |-> [task |-> b[i], thread |-> AnyThread]]
    BY ZenonT(40), <1>1, <1>2 DEF scheduleExpired
  <1>4. /\ pc[w] = "expired" /\ pc' = [pc EXCEPT ![w] = "yield"] /\ "yield" \in Label
        /\ UNCHANGED <<m_state, m_cb, ft, unscheduled, finished>>
    BY ZenonT(40) DEF scheduleExpired, Goto, Label
  <1>5. /\ \A t : InQueue(m_fibers', t) <=> InQueue(m_fibers, t) \/ t \in S
        /\ \A t : OnceInQueue(m_fibers, t) /\ (t \in S => ~InQueue(m_fibers, t))
                    => OnceInQueue(m_fibers', t)
    <2>1. m_fibers \in Seq(Entry)
      BY ZenonT(40) DEF FiberInv, TypeOK
    <2> QED BY <1>3, <2>1, ConcatFacts
  <1>6. \A c \in Callbacks : c \notin S
    BY ZenonT(40), SchedulerAssumption
  <1>7. EmptyInv' /\ \A f \in CbFibers, c \in Callbacks : BodyOf(f, c)' <=> BodyOf(f, c)
    BY ZenonT(40), <1>4, BodiesStay DEF CallbackInv
  <1>8. pc[w] # "took" /\ "yield" # "took"
    BY Zenon, <1>4
  <1> QED BY ZenonT(40), <1>4, <1>5, <1>6, <1>7, <1>8, CallbackBeside

\* the running task yields, switches threads or registers a wake-up
LEMMA CallbackYields ==
  ASSUME FiberInv, CallbackInv, NEW w \in Threads,
         \/ \E kind \in {"timer", "event"} : Arm(w, kind)
         \/ \E thr \in Pins : switchTo(w, thr)
         \/ YieldToReady(w)
  PROVE  CallbackInv'
  <1>1. /\ pc[w] = "exec" /\ pc' = [pc EXCEPT ![w] = "out"] /\ "out" \in Label
        /\ UNCHANGED <<m_cb, ft, unscheduled, finished>>
        /\ pc[w] # "took" /\ "out" # "took"
    BY ZenonT(40) DEF Arm, switchTo, YieldToReady, Goto, Label
  <1>2. PICK f \in Fibers : f = Cur(w) /\ m_state[f] = "EXEC"
    BY ZenonT(40), <1>1, RunningFiber
  <1>3. m_state' = m_state \/ m_state' = [m_state EXCEPT ![f] = "READY"]
    BY ZenonT(40), <1>2 DEF Arm, switchTo, YieldToReady
  <1>4. \A g \in CbFibers : m_state'[g] = m_state[g] \/
          (m_state[g] = "EXEC" /\ m_state'[g] = "READY")
    BY ZenonT(40), <1>2, <1>3 DEF FiberInv, TypeOK, Fibers
  <1>5. EmptyInv' /\ \A g \in CbFibers, c \in Callbacks : BodyOf(g, c)' <=> BodyOf(g, c)
    BY ZenonT(40), <1>1, <1>4, BodiesStay DEF CallbackInv
  <1>6. \A c \in Callbacks : /\ InQueue(m_fibers', c) <=> InQueue(m_fibers, c)
                             /\ OnceInQueue(m_fibers, c) => OnceInQueue(m_fibers', c)
    <2>1. CASE m_fibers' = m_fibers
      BY ZenonT(40), <2>1
    <2>2. ASSUME NEW thr \in Pins, switchTo(w, thr)
          PROVE  schedule(f, thr) /\ thr \in Threads \cup {AnyThread}
      BY ZenonT(40), <1>2, <2>2, SchedulerAssumption DEF switchTo
    <2>3. m_fibers' = m_fibers \/ \E thr \in Pins : switchTo(w, thr)
      BY ZenonT(40) DEF Arm, YieldToReady
    <2> QED BY ZenonT(40), <2>1, <2>2, <2>3, FiberQueued
  <1> QED BY ZenonT(40), <1>1, <1>5, <1>6, CallbackBeside

\* what other threads do to the queue, and stop()
LEMMA CallbackClients ==
  ASSUME FiberInv, CallbackInv,
         \/ \E f \in Fibers : triggerEvent(f)
         \/ \E f \in UserFibers, thr \in Pins : ScheduleEnded(f, thr)
         \/ stop
  PROVE  CallbackInv'
  <1>1. UNCHANGED <<m_state, m_cb, ft, unscheduled, finished>>
    BY ZenonT(40) DEF triggerEvent, ScheduleEnded, stop
  <1>2. EmptyInv' /\ \A f \in CbFibers, c \in Callbacks : BodyOf(f, c)' <=> BodyOf(f, c)
    BY ZenonT(40), <1>1, BodiesStay DEF CallbackInv
  <1>3. \A v \in Threads : pc'[v] = "took" <=> pc[v] = "took"
    <2>1. CASE stop
      BY ZenonT(40), <2>1 DEF stop
    <2>2. ~stop => pc' = pc
      BY ZenonT(40) DEF triggerEvent, ScheduleEnded
    <2> QED BY ZenonT(40), <2>1, <2>2
  <1>4. \A v \in Threads, c \in Callbacks : Taken(v, c)' <=> Taken(v, c)
    BY ZenonT(40), <1>1, <1>3 DEF Taken
  <1>5. \A c \in Callbacks : /\ InQueue(m_fibers', c) <=> InQueue(m_fibers, c)
                             /\ OnceInQueue(m_fibers, c) => OnceInQueue(m_fibers', c)
    <2>1. CASE stop
      BY ZenonT(40), <2>1 DEF stop
    <2>2. ~stop => \E f \in Fibers, thr \in Threads \cup {AnyThread} : schedule(f, thr)
      BY ZenonT(40), SchedulerAssumption DEF triggerEvent, ScheduleEnded, Fibers
    <2> QED BY ZenonT(40), <2>1, <2>2, FiberQueued
  <1> QED BY ZenonT(40), <1>1, <1>2, <1>4, <1>5, CallbackQuiet DEF CallbackStays

\* schedule(): a callback goes from its client to the queue
LEMMA CallbackClientSchedule ==
  ASSUME FiberInv, CallbackInv, NEW t \in UserFibers \cup Callbacks, NEW thr \in Pins,
         ClientSchedule(t, thr)
  PROVE  CallbackInv'
  <1>1. /\ t \in unscheduled /\ unscheduled' = unscheduled \ {t}
        /\ UNCHANGED <<m_state, m_cb, pc, ft, finished>>
        /\ schedule(t, thr)
    BY ZenonT(40) DEF ClientSchedule
  <1> DEFINE e == [task |-> t, thread |-> thr]
  <1>2. e \in Entry /\ e.task = t /\ m_fibers \in Seq(Entry)
    BY ZenonT(40), SchedulerAssumption DEF Entry, FiberInv, TypeOK, Task, Fibers
  <1>3. m_fibers' = Append(m_fibers, e)
    BY Zenon, <1>1 DEF schedule
  <1> HIDE DEF e
  <1>4. /\ \A g : InQueue(m_fibers', g) <=> InQueue(m_fibers, g) \/ g = t
        /\ \A g : OnceInQueue(m_fibers, g) /\ (g = t => ~InQueue(m_fibers, g))
                    => OnceInQueue(m_fibers', g)
    BY Zenon, <1>2, <1>3, AppendFacts
  <1>5. EmptyInv' /\ \A f \in CbFibers, c \in Callbacks : BodyOf(f, c)' <=> BodyOf(f, c)
    BY ZenonT(40), <1>1, BodiesStay DEF CallbackInv
  <1>6. \A v \in Threads, c \in Callbacks : Taken(v, c)' <=> Taken(v, c)
    BY ZenonT(40), <1>1 DEF Taken
  <1>7. \A c \in Callbacks : c # t => CallbackStays(c)
    BY ZenonT(40), <1>1, <1>4, <1>5, <1>6 DEF CallbackStays
  <1>8. ASSUME t \in Callbacks PROVE CallbackSomewhere(t)' /\ CallbackOnce(t)'
    <2>1. CallbackOnce(t)
      BY ZenonT(40), <1>8 DEF CallbackInv
    <2>2. /\ ~InQueue(m_fibers, t) /\ t \notin finished
          /\ \A v \in Threads : ~Taken(v, t)
          /\ \A f \in CbFibers : ~BodyOf(f, t)
      BY ZenonT(40), <1>1, <2>1 DEF CallbackOnce
    <2>3. /\ InQueue(m_fibers', t) /\ OnceInQueue(m_fibers', t)
          /\ t \notin unscheduled' /\ t \notin finished'
          /\ \A v \in Threads : ~Taken(v, t)'
          /\ \A f \in CbFibers : ~BodyOf(f, t)'
      BY ZenonT(40), <1>1, <1>4, <1>5, <1>6, <1>8, <2>1, <2>2 DEF CallbackOnce
    <2> QED BY ZenonT(40), <2>3 DEF CallbackSomewhere, CallbackOnce
  <1> QED BY ZenonT(40), <1>5, <1>7, <1>8, CallbackAllBut

\* run() takes it from the queue
LEMMA CallbackTake ==
  ASSUME FiberInv, CallbackInv, NEW w \in Threads, Take(w)
  PROVE  CallbackInv'
  <1>1. PICK i \in 1..Len(m_fibers) :
           /\ ft' = [ft EXCEPT ![w] = m_fibers[i].task]
           /\ m_fibers' = erase(m_fibers, i)
    BY Zenon DEF Take
  <1>2. /\ pc[w] = "scan" /\ pc' = [pc EXCEPT ![w] = "took"]
        /\ UNCHANGED <<m_state, m_cb, unscheduled, finished>>
    BY Zenon DEF Take, Goto
  <1>3. m_fibers \in Seq(Entry) /\ m_fibers[i] \in Entry
    BY ZenonT(40), ElementOfSeq DEF FiberInv, TypeOK
  <1>4. PICK t \in Task : t = m_fibers[i].task
    BY ZenonT(40), <1>3 DEF Entry
  <1>5. /\ \A g : InQueue(m_fibers', g) => InQueue(m_fibers, g)
        /\ \A g : OnceInQueue(m_fibers, g) => OnceInQueue(m_fibers', g)
        /\ OnceInQueue(m_fibers, t) => ~InQueue(m_fibers', t)
        /\ \A g : InQueue(m_fibers, g) /\ g # t => InQueue(m_fibers', g)
    BY ZenonT(40), <1>1, <1>3, <1>4, EraseFacts
  <1>6. /\ pc'[w] = "took" /\ ft'[w] = t
        /\ \A v \in Threads : v # w => pc'[v] = pc[v] /\ ft'[v] = ft[v]
    BY ZenonT(40), <1>1, <1>2, <1>4 DEF FiberInv, TypeOK
  <1>7. \A v \in Threads, c \in Callbacks :
          Taken(v, c)' <=> Taken(v, c) \/ (v = w /\ c = t)
    <2>1. \A c \in Callbacks : ~Taken(w, c) /\ (Taken(w, c)' <=> c = t)
      BY ZenonT(40), <1>2, <1>6 DEF Taken
    <2>2. \A v \in Threads, c \in Callbacks : v # w => (Taken(v, c)' <=> Taken(v, c))
      BY ZenonT(40), <1>6 DEF Taken
    <2> QED BY ZenonT(40), <2>1, <2>2
  <1>8. EmptyInv' /\ \A f \in CbFibers, c \in Callbacks : BodyOf(f, c)' <=> BodyOf(f, c)
    BY ZenonT(40), <1>2, BodiesStay DEF CallbackInv
  <1>9. \A c \in Callbacks : c # t => CallbackStays(c)
    BY ZenonT(40), <1>2, <1>5, <1>7, <1>8 DEF CallbackStays
  <1>10. ASSUME t \in Callbacks PROVE CallbackSomewhere(t)' /\ CallbackOnce(t)'
    <2>1. CallbackOnce(t)
      BY ZenonT(40), <1>10 DEF CallbackInv
    <2>2. InQueue(m_fibers, t)
      BY ZenonT(40), <1>4 DEF InQueue
    <2>3. /\ OnceInQueue(m_fibers, t) /\ t \notin unscheduled /\ t \notin finished
          /\ \A v \in Threads : ~Taken(v, t)
          /\ \A f \in CbFibers : ~BodyOf(f, t)
      BY ZenonT(40), <2>1, <2>2 DEF CallbackOnce
    <2>4. /\ ~InQueue(m_fibers', t) /\ OnceInQueue(m_fibers', t)
          /\ t \notin unscheduled' /\ t \notin finished'
          /\ \A v \in Threads : Taken(v, t)' <=> v = w
          /\ \A f \in CbFibers : ~BodyOf(f, t)'
      BY ZenonT(40), <1>2, <1>5, <1>7, <1>8, <1>10, <2>3
    <2> QED BY ZenonT(40), <2>4 DEF CallbackSomewhere, CallbackOnce
  <1> QED BY ZenonT(40), <1>8, <1>9, <1>10, CallbackAllBut

\* ... gives it to the worker's callback fiber, which had none
LEMMA CallbackRun ==
  ASSUME FiberInv, CallbackInv, NEW w \in Threads, RunCallback(w)
  PROVE  CallbackInv'
  <1>1. PICK f \in CbFibers :
           /\ IF cb_fiber[w] # nullptr THEN f = cb_fiber[w] ELSE m_state[f] = "FREE"
           /\ m_cb' = [m_cb EXCEPT ![f] = ft[w]]
           /\ m_state' = [m_state EXCEPT ![f] = "EXEC"]
    BY ZenonT(40) DEF RunCallback
  <1>2. /\ pc[w] = "took" /\ pc' = [pc EXCEPT ![w] = "exec"]
        /\ ft[w] \in Callbacks /\ f \in Fibers
        /\ UNCHANGED <<m_fibers, ft, unscheduled, finished>>
    BY ZenonT(40) DEF RunCallback, Goto, Fibers
  <1>3. PICK x \in Callbacks : x = ft[w]
    BY Zenon, <1>2
  <1>4. m_state[f] \in {"INIT", "FREE"}
    <2>1. ~Holds(w, f)
      BY ZenonT(40), <1>2 DEF Holds
    <2> QED BY ZenonT(40), <1>1, <2>1 DEF FiberInv, SpareInv
  <1>5. m_cb[f] = nullptr
    BY ZenonT(40), <1>4 DEF CallbackInv, EmptyInv
  <1>6. /\ m_cb'[f] = x /\ m_state'[f] = "EXEC"
        /\ \A g \in CbFibers : g # f => m_cb'[g] = m_cb[g] /\ m_state'[g] = m_state[g]
    BY ZenonT(40), <1>1, <1>2, <1>3 DEF FiberInv, TypeOK, Fibers
  <1>7. EmptyInv'
    BY ZenonT(40), <1>6 DEF CallbackInv, EmptyInv
  <1>8. \A g \in CbFibers, c \in Callbacks :
          BodyOf(g, c)' <=> BodyOf(g, c) \/ (g = f /\ c = x)
    <2>1. \A c \in Callbacks : ~BodyOf(f, c) /\ (BodyOf(f, c)' <=> c = x)
      BY ZenonT(40), <1>5, <1>6, SchedulerAssumption DEF BodyOf
    <2>2. \A g \in CbFibers, c \in Callbacks : g # f => (BodyOf(g, c)' <=> BodyOf(g, c))
      BY ZenonT(40), <1>6 DEF BodyOf
    <2> QED BY ZenonT(40), <2>1, <2>2
  <1>9. \A v \in Threads, c \in Callbacks : Taken(v, c)' <=> Taken(v, c) /\ v # w
    <2>1. pc'[w] = "exec" /\ \A v \in Threads : v # w => pc'[v] = pc[v]
      BY ZenonT(40), <1>2 DEF FiberInv, TypeOK
    <2> QED BY ZenonT(40), <1>2, <2>1 DEF Taken
  <1>10. Taken(w, x) /\ \A c \in Callbacks : c # x => ~Taken(w, c)
    BY ZenonT(40), <1>2, <1>3 DEF Taken
  <1>11. \A c \in Callbacks : c # x => CallbackStays(c)
    BY ZenonT(40), <1>2, <1>8, <1>9, <1>10 DEF CallbackStays
  <1>12. CallbackSomewhere(x)' /\ CallbackOnce(x)'
    <2>1. CallbackOnce(x)
      BY ZenonT(40) DEF CallbackInv
    <2>2. /\ OnceInQueue(m_fibers, x) /\ ~InQueue(m_fibers, x)
          /\ x \notin unscheduled /\ x \notin finished
          /\ \A v \in Threads : Taken(v, x) => v = w
          /\ \A g \in CbFibers : ~BodyOf(g, x)
      BY ZenonT(40), <1>10, <2>1 DEF CallbackOnce
    <2>3. /\ OnceInQueue(m_fibers', x) /\ ~InQueue(m_fibers', x)
          /\ x \notin unscheduled' /\ x \notin finished'
          /\ \A v \in Threads : ~Taken(v, x)'
          /\ \A g \in CbFibers : BodyOf(g, x)' <=> g = f
      BY ZenonT(40), <1>2, <1>8, <1>9, <2>2
    <2> QED BY ZenonT(40), <2>3 DEF CallbackSomewhere, CallbackOnce
  <1> QED BY ZenonT(40), <1>7, <1>11, <1>12, CallbackAllBut

\* a scheduled fiber is resumed or dropped; the spare fiber is destroyed
LEMMA CallbackRunFiber ==
  ASSUME FiberInv, CallbackInv, NEW w \in Threads,
         RunFiber(w) \/ DropFiber(w) \/ Miss(w)
  PROVE  CallbackInv'
  <1>1. UNCHANGED <<m_fibers, m_cb, unscheduled, finished>>
    BY ZenonT(40) DEF RunFiber, DropFiber, Miss
  <1>2. \A v \in Threads, c \in Callbacks : Taken(v, c)' <=> Taken(v, c)
    <2>1. \A v \in Threads : v # w => pc'[v] = pc[v] /\ ft'[v] = ft[v]
      BY ZenonT(40) DEF RunFiber, DropFiber, Miss, Goto, FiberInv, TypeOK
    <2>2. \A c \in Callbacks : ~Taken(w, c)
      BY ZenonT(40), SchedulerAssumption DEF RunFiber, DropFiber, Miss, Taken
    <2>3. pc'[w] # "took"
      BY ZenonT(40) DEF RunFiber, DropFiber, Miss, Goto, FiberInv, TypeOK
    <2> QED BY ZenonT(40), <2>1, <2>2, <2>3 DEF Taken
  <1>3. \A f \in CbFibers :
          \/ m_state'[f] = m_state[f]
          \/ /\ m_state[f] # "EXCEPT" /\ m_state'[f] # "EXCEPT"
             /\ m_state'[f] \in {"FREE", "INIT", "TERM"} =>
                  m_state[f] \in {"FREE", "INIT", "TERM"}
    <2> SUFFICES ASSUME NEW f \in CbFibers, m_state'[f] # m_state[f]
                 PROVE  /\ m_state[f] # "EXCEPT" /\ m_state'[f] # "EXCEPT"
                        /\ m_state'[f] \in {"FREE", "INIT", "TERM"} =>
                             m_state[f] \in {"FREE", "INIT", "TERM"}
      BY Zenon
    <2>1. f \in Fibers
      BY Zenon DEF Fibers
    <2>2. CASE RunFiber(w)
      <3>1. f = ft[w] /\ m_state'[f] = "EXEC" /\ m_state[ft[w]] \notin Ended
        BY ZenonT(40), <2>1, <2>2 DEF RunFiber, FiberInv, TypeOK
      <3> QED BY ZenonT(40), <3>1 DEF Ended
    <2>3. CASE Miss(w)
      <3>1. f = cb_fiber[w] /\ m_state'[f] = "FREE" /\ pc[w] = "scan"
        BY ZenonT(40), <2>1, <2>3 DEF Miss
      <3>2. ~Holds(w, f)
        BY ZenonT(40), <3>1 DEF Holds, Holding, Busy
      <3>3. m_state[f] = "INIT"
        BY ZenonT(40), <3>1, <3>2 DEF FiberInv, SpareInv
      <3> QED BY Zenon, <3>1, <3>3
    <2>4. CASE DropFiber(w)
      BY ZenonT(40), <2>4 DEF DropFiber
    <2> QED BY Zenon, <2>2, <2>3, <2>4
  <1>4. EmptyInv' /\ \A f \in CbFibers, c \in Callbacks : BodyOf(f, c)' <=> BodyOf(f, c)
    BY ZenonT(40), <1>1, <1>3, BodiesStay DEF CallbackInv
  <1> QED BY ZenonT(40), <1>1, <1>2, <1>4, CallbackQuiet DEF CallbackStays

\* the callback returns or throws: its fiber is no longer running it
LEMMA CallbackFinish ==
  ASSUME FiberInv, CallbackInv, NEW w \in Threads, NEW s \in Ended, Finish(w, s)
  PROVE  CallbackInv'
  <1>1. /\ pc[w] = "exec" /\ pc' = [pc EXCEPT ![w] = "out"]
        /\ UNCHANGED <<m_fibers, ft, unscheduled>>
    BY ZenonT(40) DEF Finish, Goto
  <1>2. PICK f \in Fibers : f = Cur(w) /\ m_state[f] = "EXEC"
    BY ZenonT(40), <1>1, RunningFiber
  <1>3. /\ m_state' = [m_state EXCEPT ![f] = s]
        /\ finished' = IF f \in CbFibers THEN finished \cup {m_cb[f]} ELSE finished
        /\ m_cb' = IF f \in CbFibers /\ s = "TERM" THEN [m_cb EXCEPT ![f] = nullptr] ELSE m_cb
    BY ZenonT(40), <1>2 DEF Finish
  <1>4. \A v \in Threads, c \in Callbacks : Taken(v, c)' <=> Taken(v, c)
    <2>1. pc'[w] = "out" /\ \A v \in Threads : v # w => pc'[v] = pc[v]
      BY ZenonT(40), <1>1 DEF FiberInv, TypeOK
    <2> QED BY ZenonT(40), <1>1, <2>1 DEF Taken
  <1>5. m_state'[f] = s /\ \A g \in Fibers : g # f => m_state'[g] = m_state[g]
    BY ZenonT(40), <1>3 DEF FiberInv, TypeOK
  <1>6. CASE f \notin CbFibers
    <2>1. m_cb' = m_cb /\ finished' = finished /\ \A g \in CbFibers : m_state'[g] = m_state[g]
      BY ZenonT(40), <1>3, <1>5, <1>6 DEF Fibers
    <2>2. EmptyInv' /\ \A g \in CbFibers, c \in Callbacks : BodyOf(g, c)' <=> BodyOf(g, c)
      BY ZenonT(40), <2>1, BodiesStay DEF CallbackInv
    <2> QED BY ZenonT(40), <1>1, <1>4, <2>1, <2>2, CallbackQuiet DEF CallbackStays
  <1>7. CASE f \in CbFibers
    <2>1. PICK x \in Callbacks : x = m_cb[f]
      BY ZenonT(40), <1>2, <1>7 DEF FiberInv, FreeInv
    <2>2. /\ finished' = finished \cup {x}
          /\ s = "TERM" => m_cb'[f] = nullptr
          /\ s = "EXCEPT" => m_state'[f] = "EXCEPT"
          /\ \A g \in CbFibers : g # f => m_cb'[g] = m_cb[g] /\ m_state'[g] = m_state[g]
      BY ZenonT(40), <1>3, <1>5, <1>7, <2>1 DEF FiberInv, TypeOK, Fibers
    <2>3. s = "TERM" \/ s = "EXCEPT"
      BY ZenonT(40) DEF Ended
    <2>4. EmptyInv'
      BY ZenonT(40), <1>5, <2>2, <2>3 DEF CallbackInv, EmptyInv
    <2>5. \A g \in CbFibers, c \in Callbacks : BodyOf(g, c)' <=> BodyOf(g, c) /\ g # f
      <3>1. \A c \in Callbacks : ~BodyOf(f, c)'
        BY ZenonT(40), <2>2, <2>3, SchedulerAssumption DEF BodyOf
      <3>2. \A g \in CbFibers, c \in Callbacks : g # f => (BodyOf(g, c)' <=> BodyOf(g, c))
        BY ZenonT(40), <2>2 DEF BodyOf
      <3> QED BY ZenonT(40), <1>7, <3>1, <3>2
    <2>6. BodyOf(f, x) /\ \A c \in Callbacks : c # x => ~BodyOf(f, c)
      BY ZenonT(40), <1>2, <2>1 DEF BodyOf
    <2>7. \A c \in Callbacks : c # x => CallbackStays(c)
      BY ZenonT(40), <1>1, <1>4, <2>2, <2>5, <2>6 DEF CallbackStays
    <2>8. CallbackSomewhere(x)' /\ CallbackOnce(x)'
      <3>1. CallbackOnce(x)
        BY ZenonT(40) DEF CallbackInv
      <3>2. /\ OnceInQueue(m_fibers, x) /\ ~InQueue(m_fibers, x) /\ x \notin unscheduled
            /\ \A v \in Threads : ~Taken(v, x)
            /\ \A g \in CbFibers : BodyOf(g, x) => g = f
        BY ZenonT(40), <1>7, <2>6, <3>1 DEF CallbackOnce
      <3>3. /\ OnceInQueue(m_fibers', x) /\ ~InQueue(m_fibers', x)
            /\ x \notin unscheduled' /\ x \in finished'
            /\ \A v \in Threads : ~Taken(v, x)'
            /\ \A g \in CbFibers : ~BodyOf(g, x)'
        BY ZenonT(40), <1>1, <1>4, <2>2, <2>5, <3>2
      <3> QED BY ZenonT(40), <3>3 DEF CallbackSomewhere, CallbackOnce
    <2> QED BY ZenonT(40), <2>4, <2>7, <2>8, CallbackAllBut
  <1> QED BY Zenon, <1>6, <1>7

\* run() looks at the fiber that came back: an ended one is running nothing
LEMMA CallbackPost ==
  ASSUME FiberInv, CallbackInv, NEW w \in Threads, Post(w)
  PROVE  CallbackInv'
  <1>1. PICK f \in Fibers : Holds(w, f)
    BY ZenonT(40) DEF FiberInv, HolderInv, Post, Holding
  <1>2. f = Cur(w) /\ m_state[f] \in {"EXEC", "READY"} \cup Ended
    <2>1. f = Cur(w)
      BY ZenonT(40), <1>1 DEF Holds, Cur
    <2> QED BY ZenonT(40), <1>1, <2>1 DEF FiberInv, HolderInv, Post
  <1>3. /\ pc[w] = "post" /\ pc' = [pc EXCEPT ![w] = "scan"]
        /\ ft' = [ft EXCEPT ![w] = nullptr]
        /\ UNCHANGED <<unscheduled, finished>>
        /\ m_state' = [m_state EXCEPT ![f] = PostState(w, f)]
        /\ m_cb' = IF f \in CbFibers /\ m_state[f] \in Ended
                     THEN [m_cb EXCEPT ![f] = nullptr] ELSE m_cb
        /\ m_state[f] = "READY" => schedule(f, AnyThread)
        /\ m_state[f] # "READY" => m_fibers' = m_fibers
    BY ZenonT(40), <1>2 DEF Post, Goto
  <1>4. \A c \in Callbacks : /\ InQueue(m_fibers', c) <=> InQueue(m_fibers, c)
                             /\ OnceInQueue(m_fibers, c) => OnceInQueue(m_fibers', c)
    <2>1. AnyThread \in Threads \cup {AnyThread}
      OBVIOUS
    <2> QED BY ZenonT(40), <1>3, <2>1, FiberQueued
  <1>5. \A v \in Threads, c \in Callbacks : Taken(v, c)' <=> Taken(v, c)
    <2>1. pc'[w] = "scan" /\ \A v \in Threads : v # w => pc'[v] = pc[v] /\ ft'[v] = ft[v]
      BY ZenonT(40), <1>3 DEF FiberInv, TypeOK
    <2> QED BY ZenonT(40), <1>3, <2>1 DEF Taken
  <1>6. m_state'[f] = PostState(w, f) /\ \A g \in Fibers : g # f => m_state'[g] = m_state[g]
    BY ZenonT(40), <1>3 DEF FiberInv, TypeOK
  <1>7. EmptyInv' /\ \A g \in CbFibers, c \in Callbacks : BodyOf(g, c)' <=> BodyOf(g, c)
    <2>1. CASE f \in CbFibers /\ m_state[f] \in Ended
      <3>1. m_cb'[f] = nullptr /\ \A g \in CbFibers : g # f => m_cb'[g] = m_cb[g]
        BY ZenonT(40), <1>3, <2>1 DEF FiberInv, TypeOK
      <3>2. m_cb[f] = nullptr \/ m_state[f] = "EXCEPT"
        BY ZenonT(40), <2>1 DEF CallbackInv, EmptyInv, Ended
      <3>3. EmptyInv'
        BY ZenonT(40), <1>6, <3>1 DEF CallbackInv, EmptyInv, Fibers
      <3>4. \A c \in Callbacks : ~BodyOf(f, c) /\ ~BodyOf(f, c)'
        BY ZenonT(40), <3>1, <3>2, SchedulerAssumption DEF BodyOf
      <3>5. \A g \in CbFibers, c \in Callbacks : g # f => (BodyOf(g, c)' <=> BodyOf(g, c))
        BY ZenonT(40), <1>6, <3>1 DEF BodyOf, Fibers
      <3> QED BY ZenonT(40), <3>3, <3>4, <3>5
    <2>2. CASE ~(f \in CbFibers /\ m_state[f] \in Ended)
      <3>1. m_cb' = m_cb
        BY ZenonT(40), <1>3, <2>2
      <3>2. f \in CbFibers => m_state[f] \in {"EXEC", "READY"} /\ m_state'[f] \in {"HOLD", "READY"}
        BY ZenonT(40), <1>2, <1>6, <2>2 DEF PostState, Ended
      <3>3. \A g \in CbFibers :
              \/ m_state'[g] = m_state[g]
              \/ /\ m_state[g] # "EXCEPT" /\ m_state'[g] # "EXCEPT"
                 /\ m_state'[g] \notin {"FREE", "INIT", "TERM"}
        BY ZenonT(40), <1>6, <3>2 DEF Fibers
      <3> QED BY ZenonT(40), <3>1, <3>3, BodiesStay DEF CallbackInv
    <2> QED BY Zenon, <2>1, <2>2
  <1> QED BY ZenonT(40), <1>3, <1>4, <1>5, <1>7, CallbackQuiet DEF CallbackStays

\* every step keeps CallbackInv
LEMMA NextCallback == FiberInv /\ CallbackInv /\ [Next]_vars => CallbackInv'
  <1> SUFFICES ASSUME FiberInv, CallbackInv, [Next]_vars PROVE CallbackInv'
    OBVIOUS
  <1>1. CASE UNCHANGED vars
    <2>1. /\ UNCHANGED <<m_fibers, m_cb, m_state, unscheduled, finished>>
          /\ \A v \in Threads, c \in Callbacks : Taken(v, c)' <=> Taken(v, c)
      BY ZenonT(40), <1>1 DEF vars, Taken
    <2>2. EmptyInv' /\ \A g \in CbFibers, c \in Callbacks : BodyOf(g, c)' <=> BodyOf(g, c)
      BY ZenonT(40), <2>1, BodiesStay DEF CallbackInv
    <2> QED BY ZenonT(40), <2>1, <2>2, CallbackQuiet DEF CallbackStays
  <1>2. ASSUME NEW w \in Threads, Worker(w) PROVE CallbackInv'
    BY ZenonT(40), <1>2, CallbackIdle, CallbackScheduleExpired, CallbackTake, CallbackRun,
       CallbackRunFiber, CallbackPost DEF Worker
  <1>3. ASSUME NEW w \in Threads, TaskStep(w) PROVE CallbackInv'
    BY ZenonT(40), <1>3, CallbackYields, CallbackFinish DEF TaskStep
  <1>4. CASE \/ \E f \in Fibers : triggerEvent(f)
             \/ \E f \in UserFibers, thr \in Pins : ScheduleEnded(f, thr)
             \/ stop
    BY ZenonT(40), <1>4, CallbackClients
  <1>5. CASE \E t \in UserFibers \cup Callbacks, thr \in Pins : ClientSchedule(t, thr)
    BY ZenonT(40), <1>5, CallbackClientSchedule
  <1> QED BY ZenonT(40), <1>1, <1>2, <1>3, <1>4, <1>5 DEF Next

-----------------------------------------------------------------------------
(* Nothing is lost and nothing is run twice.                               *)

\* nothing has left a thread before start(), no callback has been scheduled
LEMMA InitPlaces == Init => LeftInv /\ CallbackInv
  <1> SUFFICES ASSUME Init PROVE LeftInv /\ CallbackInv
    OBVIOUS
  <1>1. LeftInv
    <2>1. /\ \A f \in Fibers : m_state[f] \in {"INIT", "FREE"}
      BY ZenonT(40) DEF Init
    <2> QED BY ZenonT(40), <2>1 DEF LeftInv, Left
  <1>2. EmptyInv
    BY ZenonT(40) DEF EmptyInv, Init
  <1>3. ASSUME NEW c \in Callbacks PROVE CallbackSomewhere(c) /\ CallbackOnce(c)
    <2>1. c \in unscheduled /\ c \notin finished /\ c # nullptr
      BY ZenonT(40), SchedulerAssumption DEF Init
    <2>2. \A i \in 1..Len(m_fibers) : FALSE
      BY DEF Init
    <2>3. ~InQueue(m_fibers, c) /\ OnceInQueue(m_fibers, c)
      BY ZenonT(40), <2>2 DEF InQueue, OnceInQueue
    <2>4. \A w \in Threads : ~Taken(w, c)
      BY ZenonT(40), <2>1 DEF Taken, Init
    <2>5. \A f \in CbFibers : ~BodyOf(f, c)
      BY ZenonT(40), <2>1 DEF BodyOf, Init
    <2> QED BY ZenonT(40), <2>1, <2>3, <2>4, <2>5 DEF CallbackSomewhere, CallbackOnce
  <1> QED BY Zenon, <1>1, <1>2, <1>3 DEF CallbackInv

\* a set whose elements are all the same has one element, or none
LEMMA AllTheSame ==
  ASSUME NEW S, \A x, y \in S : x = y
  PROVE  Cardinality(S) <= 1 /\ (S # {} => Cardinality(S) = 1)
  <1>1. CASE S = {}
    <2>1. Cardinality(S) = 0
      BY Zenon, <1>1, FS_EmptySet
    <2> QED BY <1>1, <2>1
  <1>2. CASE S # {}
    <2>1. PICK x : x \in S
      BY Zenon, <1>2
    <2>2. S = {x}
      BY Zenon, <2>1
    <2>3. Cardinality(S) = 1
      BY Zenon, <2>2, FS_Singleton
    <2> QED BY <2>3
  <1> QED BY Zenon, <1>1, <1>2

\* the invariants above hold in every reachable state
THEOREM LeftAndCallbacks == Spec => [](LeftInv /\ CallbackInv)
  <1>1. FiberInv /\ FiberInv' /\ (LeftInv /\ CallbackInv) /\ [Next]_vars =>
          (LeftInv /\ CallbackInv)'
    BY ZenonT(40), NextLeft, NextCallback
  <1> QED BY InitPlaces, FiberInvariant, <1>1, PTL DEF Spec

\* a fiber that has given up its thread has exactly one wake-up: a queue
\* entry, a registration, or a place in a list of expired timers
THEOREM WakeUpIsUnique == Spec => []OneWakeUp
  <1>1. FiberInv /\ LeftInv => OneWakeUp
    <2> SUFFICES ASSUME FiberInv, LeftInv, NEW f \in Fibers
                 PROVE  /\ m_state[f] \in {"HOLD", "READY"}
                             /\ (\A w \in Threads : pc[w] \in Holding => Cur(w) # f)
                             => Cardinality(WakeUps(f)) = 1
                        /\ m_state[f] \notin Ended => Cardinality(WakeUps(f)) <= 1
      BY ZenonT(40) DEF OneWakeUp
    <2>1. \A x : x \in WakeUps(f) <=>
            \/ \E i \in 1..Len(m_fibers) : m_fibers[i].task = f /\ x = <<"queue", i>>
            \/ armed[f] # "no" /\ x = <<"armed", 0>>
            \/ \E w \in Threads : f \in cbs[w] /\ x = <<"expired", w>>
      BY ZenonT(40) DEF WakeUps
    <2>2. m_state[f] \notin Ended => \A x, y \in WakeUps(f) : x = y
      <3> SUFFICES ASSUME m_state[f] \notin Ended
                   PROVE  \E v : \A x \in WakeUps(f) : x = v
        BY ZenonT(40)
      <3>1. TokenOnce(f)
        BY ZenonT(40) DEF FiberInv, TokenInv
      <3>2. CASE InQueue(m_fibers, f)
        <4>1. PICK i \in 1..Len(m_fibers) : m_fibers[i].task = f
          BY ZenonT(40), <3>2 DEF InQueue
        <4>2. /\ armed[f] = "no" /\ \A w \in Threads : f \notin cbs[w]
              /\ \A j \in 1..Len(m_fibers) : m_fibers[j].task = f => j = i
          BY ZenonT(40), <3>1, <3>2, <4>1 DEF TokenOnce, Expired, OnceInQueue
        <4>3. \A x \in WakeUps(f) : x = <<"queue", i>>
          BY ZenonT(40), <2>1, <4>2
        <4> QED BY Zenon, <4>3
      <3>3. CASE ~InQueue(m_fibers, f) /\ armed[f] # "no"
        <4>1. \A w \in Threads : f \notin cbs[w]
          BY ZenonT(40), <3>1, <3>3 DEF TokenOnce, Expired
        <4>2. \A x \in WakeUps(f) : x = <<"armed", 0>>
          BY ZenonT(40), <2>1, <3>3, <4>1 DEF InQueue
        <4> QED BY Zenon, <4>2
      <3>4. CASE ~InQueue(m_fibers, f) /\ armed[f] = "no"
        <4>1. PICK u : \A w \in Threads : f \in cbs[w] => w = u
          BY ZenonT(40), <3>1 DEF TokenOnce
        <4>2. \A x \in WakeUps(f) : x = <<"expired", u>>
          BY ZenonT(40), <2>1, <3>4, <4>1 DEF InQueue
        <4> QED BY Zenon, <4>2
      <3> QED BY Zenon, <3>2, <3>3, <3>4
    <2>3. Token(f) => WakeUps(f) # {}
      BY ZenonT(40), <2>1 DEF Token, InQueue, Expired
    <2>4. ASSUME m_state[f] \in {"HOLD", "READY"},
                 \A w \in Threads : pc[w] \in Holding => Cur(w) # f
          PROVE  Token(f) /\ m_state[f] \notin Ended
      <3>1. \A w \in Threads : ~Holds(w, f)
        BY ZenonT(40), <2>4 DEF Holds, Cur
      <3> QED BY ZenonT(40), <2>4, <3>1 DEF LeftInv, Left, Ended
    <2> QED BY ZenonT(40), <2>2, <2>3, <2>4, AllTheSame
  <1> QED BY FiberInvariant, LeftAndCallbacks, <1>1, PTL

\* a scheduled callback is neither lost nor run twice, through the queue, the
\* worker that takes it, the fiber that runs it and its yields
THEOREM CallbacksRunOnce == Spec => []CallbackRunsOnce
  <1>1. CallbackInv => CallbackRunsOnce
    <2> SUFFICES ASSUME CallbackInv, NEW c \in Callbacks
                 PROVE  Cardinality(
                   {<<"client", 0>> : k \in unscheduled \cap {c}}
                   \cup {<<"queue", i>> : i \in {j \in 1..Len(m_fibers) : m_fibers[j].task = c}}
                   \cup {<<"taken", w>> : w \in {v \in Threads : pc[v] = "took" /\ ft[v] = c}}
                   \cup {<<"fiber", f>> : f \in {g \in CbFibers : m_cb[g] = c /\ m_state[g] # "EXCEPT"}}
                   \cup {<<"finished", 0>> : k \in finished \cap {c}}) = 1
      BY ZenonT(40) DEF CallbackRunsOnce
    <2> DEFINE S ==
          {<<"client", 0>> : k \in unscheduled \cap {c}}
          \cup {<<"queue", i>> : i \in {j \in 1..Len(m_fibers) : m_fibers[j].task = c}}
          \cup {<<"taken", w>> : w \in {v \in Threads : pc[v] = "took" /\ ft[v] = c}}
          \cup {<<"fiber", f>> : f \in {g \in CbFibers : m_cb[g] = c /\ m_state[g] # "EXCEPT"}}
          \cup {<<"finished", 0>> : k \in finished \cap {c}}
    <2>1. \A x : x \in S <=>
            \/ c \in unscheduled /\ x = <<"client", 0>>
            \/ \E i \in 1..Len(m_fibers) : m_fibers[i].task = c /\ x = <<"queue", i>>
            \/ \E w \in Threads : Taken(w, c) /\ x = <<"taken", w>>
            \/ \E f \in CbFibers : BodyOf(f, c) /\ x = <<"fiber", f>>
            \/ c \in finished /\ x = <<"finished", 0>>
      BY ZenonT(40) DEF Taken, BodyOf
    <2> HIDE DEF S
    <2>2. CallbackSomewhere(c) /\ CallbackOnce(c)
      BY ZenonT(40) DEF CallbackInv
    <2>3. S # {}
      BY ZenonT(40), <2>1, <2>2 DEF CallbackSomewhere, InQueue
    <2>4. \E v : \A x \in S : x = v
      <3>1. CASE c \in unscheduled
        <4>1. /\ ~InQueue(m_fibers, c) /\ c \notin finished
              /\ \A w \in Threads : ~Taken(w, c)
              /\ \A f \in CbFibers : ~BodyOf(f, c)
          BY ZenonT(40), <2>2, <3>1 DEF CallbackOnce
        <4>2. \A x \in S : x = <<"client", 0>>
          BY ZenonT(40), <2>1, <4>1 DEF InQueue
        <4> QED BY SMT, <4>2
      <3>2. CASE InQueue(m_fibers, c)
        <4>1. PICK i \in 1..Len(m_fibers) : m_fibers[i].task = c
          BY ZenonT(40), <3>2 DEF InQueue
        <4>2. /\ c \notin unscheduled /\ c \notin finished
              /\ \A w \in Threads : ~Taken(w, c)
              /\ \A f \in CbFibers : ~BodyOf(f, c)
              /\ \A j \in 1..Len(m_fibers) : m_fibers[j].task = c => j = i
          BY ZenonT(40), <2>2, <3>2, <4>1 DEF CallbackOnce, OnceInQueue
        <4>3. \A x \in S : x = <<"queue", i>>
          BY ZenonT(40), <2>1, <4>2
        <4> QED BY SMT, <4>3
      <3>3. CASE \E w \in Threads : Taken(w, c)
        <4>1. PICK u \in Threads : Taken(u, c)
          BY ZenonT(40), <3>3
        <4>2. /\ c \notin unscheduled /\ ~InQueue(m_fibers, c) /\ c \notin finished
              /\ \A f \in CbFibers : ~BodyOf(f, c)
              /\ \A w \in Threads : Taken(w, c) => w = u
          BY ZenonT(40), <2>2, <4>1 DEF CallbackOnce
        <4>3. \A x \in S : x = <<"taken", u>>
          BY ZenonT(40), <2>1, <4>2 DEF InQueue
        <4> QED BY SMT, <4>3
      <3>4. CASE \E f \in CbFibers : BodyOf(f, c)
        <4>1. PICK g \in CbFibers : BodyOf(g, c)
          BY ZenonT(40), <3>4
        <4>2. /\ c \notin unscheduled /\ ~InQueue(m_fibers, c) /\ c \notin finished
              /\ \A w \in Threads : ~Taken(w, c)
              /\ \A f \in CbFibers : BodyOf(f, c) => f = g
          BY ZenonT(40), <2>2, <4>1 DEF CallbackOnce
        <4>3. \A x \in S : x = <<"fiber", g>>
          BY ZenonT(40), <2>1, <4>2 DEF InQueue
        <4> QED BY SMT, <4>3
      <3>5. CASE c \in finished
        <4>1. /\ c \notin unscheduled /\ ~InQueue(m_fibers, c)
              /\ \A w \in Threads : ~Taken(w, c)
              /\ \A f \in CbFibers : ~BodyOf(f, c)
          BY ZenonT(40), <2>2, <3>5 DEF CallbackOnce
        <4>2. \A x \in S : x = <<"finished", 0>>
          BY ZenonT(40), <2>1, <4>1 DEF InQueue
        <4> QED BY SMT, <4>2
      <3> QED BY Zenon, <2>2, <3>1, <3>2, <3>3, <3>4, <3>5 DEF CallbackSomewhere
    <2>5. Cardinality(S) = 1
      BY ZenonT(40), <2>3, <2>4, AllTheSame
    <2> QED BY Zenon, <2>5 DEF S
  <1> QED BY LeftAndCallbacks, <1>1, PTL

=============================================================================
