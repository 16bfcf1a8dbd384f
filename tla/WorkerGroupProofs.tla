------------------------- MODULE WorkerGroupProofs -------------------------
(***************************************************************************)
(* Proofs about FiberSemaphore and WorkerGroup, for any number of fibers,  *)
(* permits and jobs.  The semaphore: the permit/waiter exclusion, and that *)
(* wait() and notify() implement the counting semaphore of Semaphore.tla.  *)
(* The group: every permit is accounted for, so that no more than          *)
(* m_batchSize callbacks are with the scheduler, and none is when          *)
(* waitAll() has returned.                                                 *)
(***************************************************************************)
EXTENDS WorkerGroup, SequenceTheorems, FiniteSetTheorems, TLAPS

-----------------------------------------------------------------------------
(* FiberSemaphore                                                          *)

\* what erase(it) of run() leaves of a queue
LEMMA RemoveFacts ==
  ASSUME NEW q \in Seq(Fibers), NEW i \in 1..Len(q)
  PROVE  RemoveAt(q, i) \in Seq(Fibers) /\ Len(RemoveAt(q, i)) = Len(q) - 1
  <1> DEFINE a == SubSeq(q, 1, i-1)
             b == SubSeq(q, i+1, Len(q))
  <1>1. a \in Seq(Fibers) /\ Len(a) = i-1
    OBVIOUS
  <1>2. b \in Seq(Fibers) /\ Len(b) = Len(q) - i
    OBVIOUS
  <1> HIDE DEF a, b
  <1>3. (a \o b) \in Seq(Fibers) /\ Len(a \o b) = Len(a) + Len(b)
    BY ZenonT(40), <1>1, <1>2, ConcatProperties
  <1>4. RemoveAt(q, i) = a \o b
    BY Zenon DEF RemoveAt, a, b
  <1>5. Len(q) \in Nat /\ i \in Nat
    OBVIOUS
  <1>6. Len(a \o b) = Len(q) - 1
    BY <1>1, <1>2, <1>3, <1>5
  <1> QED BY ZenonT(40), <1>3, <1>4, <1>6

Inv == TypeOK /\ NoPermitWithWaiters

\* the operations under the spinlock keep the exclusion, and each step is one
\* of the abstract semaphore, or none
LEMMA StepInv ==
  ASSUME Inv, [Next]_vars
  PROVE  Inv' /\ [Sem!SNext]_(Sem!svars)
  <1> DEFINE permits == m_concurrency + Len(m_fibers)
             blocked == {f \in Fibers : place[f] # "run"}
  <1> USE DEF Inv, TypeOK, NoPermitWithWaiters
  <1>0. Len(m_fibers) \in Nat /\ permits \in Nat
    OBVIOUS
  <1>1. CASE UNCHANGED vars
    BY Zenon, <1>1 DEF vars, Sem!svars
  <1>2. ASSUME NEW f \in Fibers, takePermit(f)
        PROVE  Inv' /\ Sem!Acquire(f)
    <2>1. m_concurrency > 0 /\ m_concurrency' = m_concurrency - 1 /\ place[f] = "run"
          /\ UNCHANGED <<m_waiters, m_fibers, place>>
      BY ZenonT(40), <1>2 DEF takePermit
    <2>2. Inv'
      BY <2>1
    <2> QED BY <1>0, <2>1, <2>2 DEF Sem!Acquire
  <1>3. ASSUME NEW f \in Fibers, joinWaiters(f)
        PROVE  Inv' /\ Sem!Block(f)
    <2>1. /\ place[f] = "run" /\ ~(m_concurrency > 0)
          /\ m_waiters' = Append(m_waiters, f)
          /\ place' = [place EXCEPT ![f] = "leaving"]
          /\ UNCHANGED <<m_concurrency, m_fibers>>
      BY ZenonT(40), <1>3 DEF joinWaiters
    <2>2. Inv'
      BY <2>1
    <2>3. blocked' = blocked \cup {f} /\ f \notin blocked /\ permits' = permits
      BY Zenon, <2>1
    <2> QED BY Zenon, <2>2, <2>3 DEF Sem!Block
  <1>4. ASSUME NEW f \in Fibers, YieldToHold(f)
        PROVE  Inv' /\ UNCHANGED Sem!svars
    <2>1. /\ place[f] = "leaving" /\ place' = [place EXCEPT ![f] = "hold"]
          /\ UNCHANGED <<m_concurrency, m_waiters, m_fibers>>
      BY Zenon, <1>4 DEF YieldToHold
    <2>2. Inv'
      BY ZenonT(40), <2>1
    <2>3. blocked' = blocked /\ permits' = permits
      BY ZenonT(40), <2>1
    <2> QED BY ZenonT(40), <2>2, <2>3 DEF Sem!svars
  <1>5. ASSUME Notify
        PROVE  Inv' /\ Sem!Release
    <2>1. CASE m_waiters # <<>>
      <3>1. /\ m_fibers' = Append(m_fibers, Head(m_waiters))
            /\ m_waiters' = Tail(m_waiters)
            /\ UNCHANGED <<m_concurrency, place>>
        BY ZenonT(40), <1>5, <2>1 DEF Notify, notify
      <3>2. Head(m_waiters) \in Fibers /\ Tail(m_waiters) \in Seq(Fibers)
        BY Zenon, <2>1, HeadTailProperties
      <3>3. m_fibers' \in Seq(Fibers) /\ Len(m_fibers') = Len(m_fibers) + 1
        BY ZenonT(40), <3>1, <3>2, AppendProperties
      <3>4. Inv'
        BY ZenonT(40), <2>1, <3>1, <3>2, <3>3
      <3>5. permits' = permits + 1 /\ blocked' = blocked
        BY <3>1, <3>3
      <3> QED BY ZenonT(40), <3>4, <3>5 DEF Sem!Release
    <2>2. CASE m_waiters = <<>>
      <3>1. m_concurrency' = m_concurrency + 1 /\ UNCHANGED <<m_waiters, m_fibers, place>>
        BY ZenonT(40), <1>5, <2>2 DEF Notify, notify
      <3>2. Inv'
        BY <2>2, <3>1
      <3>3. permits' = permits + 1 /\ blocked' = blocked
        BY <3>1
      <3> QED BY Zenon, <3>2, <3>3 DEF Sem!Release
    <2> QED BY Zenon, <2>1, <2>2
  <1>6. ASSUME NEW i \in 1..Len(m_fibers), resume(i)
        PROVE  Inv' /\ Sem!SNext
    <2>1. /\ place[m_fibers[i]] = "hold"
          /\ m_fibers' = RemoveAt(m_fibers, i)
          /\ place' = [place EXCEPT ![m_fibers[i]] = "run"]
          /\ UNCHANGED <<m_concurrency, m_waiters>>
      BY ZenonT(40), <1>6 DEF resume
    <2>2. m_fibers' \in Seq(Fibers) /\ Len(m_fibers') = Len(m_fibers) - 1
      BY Zenon, <2>1, RemoveFacts
    <2>3. PICK f \in Fibers : f = m_fibers[i]
      BY ZenonT(40), ElementOfSeq
    <2>4. Inv'
      BY ZenonT(40), <2>1, <2>2, <2>3
    <2>5. blocked' = blocked \ {f} /\ f \in blocked
      BY Zenon, <2>1, <2>3
    <2>6. permits > 0 /\ permits' = permits - 1
      BY <2>1, <2>2
    <2>7. Sem!Grant(f)
      BY ZenonT(40), <2>5, <2>6 DEF Sem!Grant
    <2> QED BY Zenon, <2>4, <2>7 DEF Sem!SNext
  <1>7. CASE Resume
    <2>1. PICK i \in 1..Len(m_fibers) : resume(i)
      BY Zenon, <1>7 DEF Resume
    <2> QED BY Zenon, <1>6, <2>1
  <1> QED BY ZenonT(40), <1>1, <1>2, <1>3, <1>4, <1>5, <1>7 DEF Next, Sem!SNext

\* initially nobody waits and every permit is free
LEMMA InitInv == Init => Inv /\ Sem!SInit
  <1> SUFFICES ASSUME Init PROVE Inv /\ Sem!SInit
    OBVIOUS
  <1>1. Len(m_fibers) = 0 /\ m_concurrency = InitialConcurrency /\ InitialConcurrency \in Nat
    BY Zenon, FiberSemaphoreAssumption DEF Init
  <1>2. Inv
    BY <1>1 DEF Init, Inv, TypeOK, NoPermitWithWaiters
  <1>3. {f \in Fibers : place[f] # "run"} = {}
    BY Zenon DEF Init
  <1> QED BY <1>1, <1>2, <1>3 DEF Sem!SInit

\* wait() leaves a waiter behind only when m_concurrency is zero and notify()
\* adds to m_concurrency only when nobody waits, in every reachable state
THEOREM PermitXorWaiters == Spec => []NoPermitWithWaiters
  <1>1. Inv => NoPermitWithWaiters
    BY Zenon DEF Inv
  <1> QED BY <1>1, InitInv, StepInv, PTL DEF Spec

\* the fibers' wait() and notify() implement the abstract counting semaphore:
\* no permit is lost or invented between notify() and the resumed fiber
THEOREM SemaphoreImplemented == Spec => ImplementsSemaphore
  BY InitInv, StepInv, PTL DEF Spec, ImplementsSemaphore, Sem!SSafe

-----------------------------------------------------------------------------
(* WorkerGroup                                                              *)

JobStates == {"new", "wait", "queued", "run", "done", "threw"}

\* jobs that hold a permit
Busy == InJob("queued") \cup InJob("run") \cup InJob("threw")

\* fibers whose wait() has returned and who have not gone on
Granted == {f \in Fibers : granted[f]}

\* permits that waitAll() has collected
Collected == IF left > m_batchSize THEN 0 ELSE m_batchSize - left

GTypes ==
  /\ TypeOK
  /\ job \in [Jobs -> JobStates]
  /\ doing \in [Fibers -> Jobs \cup {"none"}]
  /\ granted \in [Fibers -> BOOLEAN]
  /\ left \in 0..(m_batchSize + 1)

\* who is inside m_sem.wait(), or has just returned from it, and why
CallersInv ==
  /\ \A f \in Fibers : granted[f] => place[f] = "run"
  /\ \A f \in Fibers \ {Waiter} : granted[f] \/ place[f] # "run" => doing[f] # "none"
  /\ doing[Waiter] = "none"
  /\ granted[Waiter] \/ place[Waiter] # "run" => left \in 1..m_batchSize

\* a job that waits for its permit has one submitter
SubmitInv ==
  /\ \A f \in Fibers : doing[f] # "none" => job[doing[f]] = "wait"
  /\ \A f, g \in Fibers : doing[f] # "none" /\ doing[f] = doing[g] => f = g

GInv == GTypes /\ CallersInv /\ SubmitInv /\ PermitsConserved

-----------------------------------------------------------------------------
(* Counting                                                                *)

\* the sets that are counted are finite
LEMMA CountsFinite ==
  /\ IsFiniteSet(Busy) /\ IsFiniteSet(Granted)
  /\ Cardinality(Busy) \in Nat /\ Cardinality(Granted) \in Nat
  /\ m_batchSize \in Nat
  <1>1. IsFiniteSet(Busy)
    <2>1. Busy \subseteq Jobs
      BY ZenonT(40) DEF Busy, InJob
    <2> QED BY ZenonT(40), <2>1, FS_Subset, WorkerGroupAssumption
  <1>2. IsFiniteSet(Granted)
    <2>1. Granted \subseteq Fibers
      BY Zenon DEF Granted
    <2> QED BY ZenonT(40), <2>1, FS_Subset, FiberSemaphoreAssumption
  <1> QED BY ZenonT(40), <1>1, <1>2, FS_CardinalityType, FiberSemaphoreAssumption DEF m_batchSize

\* PermitsConserved in these words
LEMMA PermitWords ==
  /\ PermitsConserved <=>
       m_concurrency + Len(m_fibers) + Cardinality(Granted) + Cardinality(Busy)
         + Collected = m_batchSize
  /\ PermitsConserved' <=>
       m_concurrency' + Len(m_fibers') + Cardinality(Granted') + Cardinality(Busy')
         + Collected' = m_batchSize
  BY ZenonT(40) DEF PermitsConserved, Granted, Busy, Collected, InJob, m_batchSize

\* a fiber more, or a fiber less, has a permit in hand
LEMMA GrantedChanges ==
  ASSUME GTypes, NEW f \in Fibers
  PROVE  /\ granted' = [granted EXCEPT ![f] = TRUE] /\ ~granted[f]
              => Cardinality(Granted') = Cardinality(Granted) + 1
         /\ granted' = [granted EXCEPT ![f] = FALSE] /\ granted[f]
              => Cardinality(Granted') = Cardinality(Granted) - 1
         /\ granted' = granted => Granted' = Granted
  <1>1. ASSUME granted' = [granted EXCEPT ![f] = TRUE], ~granted[f]
        PROVE  Cardinality(Granted') = Cardinality(Granted) + 1
    <2>1. Granted' = Granted \cup {f} /\ f \notin Granted
      BY ZenonT(40), <1>1 DEF Granted, GTypes
    <2> QED BY ZenonT(40), <2>1, CountsFinite, FS_AddElement
  <1>2. ASSUME granted' = [granted EXCEPT ![f] = FALSE], granted[f]
        PROVE  Cardinality(Granted') = Cardinality(Granted) - 1
    <2>1. Granted' = Granted \ {f} /\ f \in Granted
      BY Zenon, <1>2 DEF Granted, GTypes
    <2> QED BY ZenonT(40), <2>1, CountsFinite, FS_RemoveElement
  <1> QED BY ZenonT(40), <1>1, <1>2 DEF Granted

\* a job more, or a job less, holds a permit
LEMMA BusyChanges ==
  ASSUME GTypes, NEW j \in Jobs, NEW s \in JobStates,
         job' = [job EXCEPT ![j] = s]
  PROVE  /\ job[j] = "wait" /\ s = "queued" => Cardinality(Busy') = Cardinality(Busy) + 1
         /\ job[j] = "run" /\ s = "done" => Cardinality(Busy') = Cardinality(Busy) - 1
         /\ job[j] \in {"new", "done"} /\ s = "wait" => Busy' = Busy
         /\ job[j] = "queued" /\ s = "run" => Busy' = Busy
         /\ job[j] = "run" /\ s = "threw" => Busy' = Busy
  <1>1. job \in [Jobs -> JobStates]
    BY ZenonT(40) DEF GTypes
  <1>2. ASSUME job[j] = "wait", s = "queued"
        PROVE  Cardinality(Busy') = Cardinality(Busy) + 1
    <2>1. Busy' = Busy \cup {j} /\ j \notin Busy
      BY ZenonT(40), <1>1, <1>2 DEF Busy, InJob
    <2> QED BY Zenon, <2>1, CountsFinite, FS_AddElement
  <1>3. ASSUME job[j] = "run", s = "done"
        PROVE  Cardinality(Busy') = Cardinality(Busy) - 1
    <2>1. Busy' = Busy \ {j} /\ j \in Busy
      BY Zenon, <1>1, <1>3 DEF Busy, InJob
    <2> QED BY ZenonT(40), <2>1, CountsFinite, FS_RemoveElement
  <1>4. ASSUME \/ job[j] \in {"new", "done"} /\ s = "wait"
               \/ job[j] = "queued" /\ s = "run"
               \/ job[j] = "run" /\ s = "threw"
        PROVE  Busy' = Busy
    BY ZenonT(40), <1>1, <1>4 DEF Busy, InJob
  <1> QED BY ZenonT(40), <1>2, <1>3, <1>4

-----------------------------------------------------------------------------
(* The semaphore's operations                                              *)

\* m_sem.wait() takes a permit for f, or has it wait
LEMMA SemWaitStep ==
  ASSUME GTypes, NEW f \in Fibers, ~granted[f], semWait(f)
  PROVE  /\ TypeOK' /\ granted' \in [Fibers -> BOOLEAN]
         /\ place[f] = "run"
         /\ granted'[f] => place'[f] = "run"
         /\ \A g \in Fibers \ {f} : place'[g] = place[g] /\ granted'[g] = granted[g]
         /\ m_concurrency' + Len(m_fibers') + Cardinality(Granted')
              = m_concurrency + Len(m_fibers) + Cardinality(Granted)
  <1> USE DEF GTypes, TypeOK
  <1>1. Len(m_fibers) \in Nat /\ Cardinality(Granted) \in Nat
    BY CountsFinite
  <1>2. CASE takePermit(f) /\ granted' = [granted EXCEPT ![f] = TRUE]
    <2>1. /\ place[f] = "run" /\ m_concurrency > 0 /\ m_concurrency' = m_concurrency - 1
          /\ UNCHANGED <<m_waiters, m_fibers, place>>
      BY Zenon, <1>2 DEF takePermit
    <2>2. Cardinality(Granted') = Cardinality(Granted) + 1
      BY Zenon, <1>2, GrantedChanges
    <2>3. TypeOK'
      BY <2>1
    <2>4. granted' \in [Fibers -> BOOLEAN] /\ \A g \in Fibers \ {f} : granted'[g] = granted[g]
      BY ZenonT(40), <1>2
    <2>5. m_concurrency' + Len(m_fibers') + Cardinality(Granted')
            = m_concurrency + Len(m_fibers) + Cardinality(Granted)
      BY <1>1, <2>1, <2>2
    <2> QED BY ZenonT(40), <2>1, <2>3, <2>4, <2>5
  <1>3. CASE joinWaiters(f) /\ granted' = granted
    <2>1. /\ place[f] = "run" /\ m_waiters' = Append(m_waiters, f)
          /\ place' = [place EXCEPT ![f] = "leaving"]
          /\ UNCHANGED <<m_concurrency, m_fibers>>
      BY ZenonT(40), <1>3 DEF joinWaiters
    <2>2. Granted' = Granted
      BY ZenonT(40), <1>3, GrantedChanges
    <2>3. TypeOK'
      BY <2>1
    <2> QED BY ZenonT(40), <1>3, <2>1, <2>2, <2>3
  <1> QED BY ZenonT(40), <1>2, <1>3 DEF semWait

\* m_sem.notify() gives a permit back, to a waiter or to nobody
LEMMA NotifyStep ==
  ASSUME TypeOK, notify
  PROVE  /\ TypeOK' /\ place' = place
         /\ m_concurrency' + Len(m_fibers') = m_concurrency + Len(m_fibers) + 1
  <1> USE DEF TypeOK
  <1>1. CASE m_waiters # <<>>
    <2>1. /\ m_fibers' = Append(m_fibers, Head(m_waiters))
          /\ m_waiters' = Tail(m_waiters)
          /\ UNCHANGED <<m_concurrency, place>>
      BY Zenon, <1>1 DEF notify
    <2>2. Head(m_waiters) \in Fibers /\ Tail(m_waiters) \in Seq(Fibers)
      BY ZenonT(40), <1>1, HeadTailProperties
    <2>3. m_fibers' \in Seq(Fibers) /\ Len(m_fibers') = Len(m_fibers) + 1
      BY ZenonT(40), <2>1, <2>2, AppendProperties
    <2> QED BY <2>1, <2>2, <2>3
  <1>2. CASE m_waiters = <<>>
    BY <1>2 DEF notify
  <1> QED BY ZenonT(40), <1>1, <1>2

-----------------------------------------------------------------------------
(* The steps                                                               *)

\* schedule() begins: f submits j
LEMMA StepSchedule ==
  ASSUME GInv, NEW f \in Fibers, NEW j \in Jobs, schedule(f, j)
  PROVE  GInv'
  <1> USE DEF GInv
  <1>1. /\ f # Waiter /\ doing[f] = "none" /\ job[j] \in {"new", "done"} /\ semWait(f)
        /\ job' = [job EXCEPT ![j] = "wait"]
        /\ doing' = [doing EXCEPT ![f] = j]
        /\ left' = left
    BY Zenon DEF schedule
  <1>2. ~granted[f]
    BY ZenonT(40), <1>1 DEF CallersInv
  <1>3. /\ TypeOK' /\ granted' \in [Fibers -> BOOLEAN]
        /\ granted'[f] => place'[f] = "run"
        /\ \A g \in Fibers \ {f} : place'[g] = place[g] /\ granted'[g] = granted[g]
        /\ m_concurrency' + Len(m_fibers') + Cardinality(Granted')
              = m_concurrency + Len(m_fibers) + Cardinality(Granted)
    BY ZenonT(40), <1>1, <1>2, SemWaitStep
  <1>4. job \in [Jobs -> JobStates] /\ doing \in [Fibers -> Jobs \cup {"none"}]
    BY Zenon DEF GTypes
  <1>5. GTypes'
    BY ZenonT(40), <1>1, <1>3, <1>4 DEF GTypes, JobStates, m_batchSize
  <1>6. CallersInv'
    <2>1. \A g \in Fibers : granted'[g] => place'[g] = "run"
      BY Zenon, <1>3 DEF CallersInv
    <2>2. doing'[f] # "none" /\ \A g \in Fibers \ {f} : doing'[g] = doing[g]
      BY ZenonT(40), <1>1, <1>4, WorkerGroupAssumption
    <2> QED BY ZenonT(40), <1>1, <1>3, <2>1, <2>2, WorkerGroupAssumption DEF CallersInv, m_batchSize
  <1>7. SubmitInv'
    <2>1. doing'[f] = j /\ \A g \in Fibers \ {f} : doing'[g] = doing[g]
      BY Zenon, <1>1, <1>4
    <2>2. \A g \in Fibers : doing[g] # j
      BY ZenonT(40), <1>1, WorkerGroupAssumption DEF SubmitInv
    <2>3. job'[j] = "wait" /\ \A i \in Jobs \ {j} : job'[i] = job[i]
      BY ZenonT(40), <1>1, <1>4
    <2>4. \A g \in Fibers : doing'[g] # "none" => job'[doing'[g]] = "wait"
      BY <1>4, <2>1, <2>2, <2>3 DEF SubmitInv
    <2>5. \A g, h \in Fibers : doing'[g] # "none" /\ doing'[g] = doing'[h] => g = h
      BY <2>1, <2>2 DEF SubmitInv
    <2> QED BY ZenonT(40), <2>4, <2>5 DEF SubmitInv
  <1>8. PermitsConserved'
    <2>1. Busy' = Busy /\ Collected' = Collected
      BY Zenon, <1>1, BusyChanges DEF JobStates, Collected, m_batchSize
    <2> QED BY ZenonT(40), <1>3, <2>1, PermitWords
  <1> QED BY ZenonT(40), <1>5, <1>6, <1>7, <1>8

\* schedule() goes on: the job of f is queued
LEMMA StepDispatch ==
  ASSUME GInv, NEW f \in Fibers, dispatch(f)
  PROVE  GInv'
  <1> USE DEF GInv
  <1>1. /\ granted[f] /\ doing[f] # "none"
        /\ granted' = [granted EXCEPT ![f] = FALSE]
        /\ doing' = [doing EXCEPT ![f] = "none"]
        /\ UNCHANGED <<m_concurrency, m_waiters, m_fibers, place, left>>
    BY ZenonT(40) DEF dispatch, vars
  <1>2. PICK j \in Jobs : j = doing[f]
    BY ZenonT(40), <1>1 DEF GTypes
  <1>3. job' = [job EXCEPT ![j] = "queued"] /\ job[j] = "wait"
    BY Zenon, <1>1, <1>2 DEF dispatch, SubmitInv
  <1>4. /\ job \in [Jobs -> JobStates] /\ doing \in [Fibers -> Jobs \cup {"none"}]
        /\ granted \in [Fibers -> BOOLEAN] /\ left \in 0..(m_batchSize + 1) /\ TypeOK
    BY ZenonT(40) DEF GTypes
  <1>5. TypeOK'
    BY ZenonT(40), <1>1, <1>4 DEF TypeOK
  <1>6. GTypes'
    BY ZenonT(40), <1>1, <1>3, <1>4, <1>5 DEF GTypes, JobStates, m_batchSize
  <1>7. f # Waiter
    BY ZenonT(40), <1>1 DEF CallersInv
  <1>8. CallersInv'
    BY ZenonT(40), <1>1, <1>4, <1>7, WorkerGroupAssumption DEF CallersInv, m_batchSize
  <1>9. SubmitInv'
    <2>1. \A g \in Fibers : doing'[g] # "none" => doing'[g] = doing[g] /\ g # f
      BY ZenonT(40), <1>1, <1>4
    <2>2. \A g \in Fibers : doing'[g] # "none" => doing[g] # j
      BY ZenonT(40), <1>1, <1>2, <2>1 DEF SubmitInv
    <2>3. \A g \in Fibers : doing'[g] # "none" => job'[doing'[g]] = "wait"
      BY ZenonT(40), <1>3, <1>4, <2>1, <2>2 DEF SubmitInv
    <2>4. \A g, h \in Fibers : doing'[g] # "none" /\ doing'[g] = doing'[h] => g = h
      BY Zenon, <2>1 DEF SubmitInv
    <2> QED BY Zenon, <2>3, <2>4 DEF SubmitInv
  <1>10. PermitsConserved'
    <2>1. Cardinality(Granted') = Cardinality(Granted) - 1
      BY Zenon, <1>1, GrantedChanges
    <2>2. Cardinality(Busy') = Cardinality(Busy) + 1
      BY ZenonT(40), <1>3, BusyChanges DEF JobStates
    <2>3. Collected' = Collected
      BY ZenonT(40), <1>1 DEF Collected, m_batchSize
    <2>4. m_concurrency \in Nat /\ Len(m_fibers) \in Nat /\ Collected \in Nat
      BY <1>4, CountsFinite DEF TypeOK, Collected
    <2> QED BY SMTT(30), <1>1, <2>1, <2>2, <2>3, <2>4, PermitWords, CountsFinite
  <1> QED BY ZenonT(40), <1>6, <1>8, <1>9, <1>10

\* a callback starts, returns or throws
LEMMA StepWork ==
  ASSUME GInv, NEW j \in Jobs, Work(j)
  PROVE  GInv'
  <1> USE DEF GInv
  <1>1. /\ job \in [Jobs -> JobStates] /\ TypeOK
        /\ m_concurrency \in Nat /\ Len(m_fibers) \in Nat /\ Collected \in Nat
    BY CountsFinite DEF GTypes, TypeOK, Collected
  <1>2. PICK s \in {"run", "done", "threw"} : job' = [job EXCEPT ![j] = s]
    BY Zenon DEF Work, startWork, doWork, throw
  <1>3. job[j] \in {"queued", "run"} /\ UNCHANGED <<doing, granted, left>>
    BY Zenon DEF Work, startWork, doWork, throw
  <1>4. TypeOK' /\ place' = place
    <2>1. CASE doWork(j)
      BY ZenonT(40), <1>1, <2>1, NotifyStep DEF doWork
    <2>2. CASE startWork(j) \/ throw(j)
      BY Zenon, <1>1, <2>2 DEF startWork, throw, vars, TypeOK
    <2> QED BY Zenon, <2>1, <2>2 DEF Work
  <1>5. GTypes'
    BY ZenonT(40), <1>1, <1>2, <1>3, <1>4 DEF GTypes, JobStates, m_batchSize
  <1>6. CallersInv'
    BY ZenonT(40), <1>3, <1>4 DEF CallersInv, m_batchSize
  <1>7. SubmitInv'
    <2>1. \A f \in Fibers : doing[f] # "none" => doing[f] # j /\ doing[f] \in Jobs
      BY ZenonT(40), <1>3 DEF SubmitInv, GTypes
    <2>2. \A f \in Fibers : doing'[f] # "none" => job'[doing'[f]] = "wait"
      BY ZenonT(40), <1>1, <1>2, <1>3, <2>1 DEF SubmitInv
    <2> QED BY ZenonT(40), <1>3, <2>2 DEF SubmitInv
  <1>8. PermitsConserved'
    <2>1. Granted' = Granted /\ Collected' = Collected
      BY ZenonT(40), <1>3 DEF Granted, Collected, m_batchSize
    <2>2. CASE startWork(j) \/ throw(j)
      <3>1. UNCHANGED <<m_concurrency, m_fibers>>
        BY ZenonT(40), <2>2 DEF startWork, throw, vars
      <3>2. Busy' = Busy
        BY ZenonT(40), <2>2, BusyChanges DEF startWork, throw, JobStates
      <3> QED BY Zenon, <2>1, <3>1, <3>2, PermitWords
    <2>3. CASE doWork(j)
      <3>1. m_concurrency' + Len(m_fibers') = m_concurrency + Len(m_fibers) + 1
        BY ZenonT(40), <1>1, <2>3, NotifyStep DEF doWork
      <3>2. Cardinality(Busy') = Cardinality(Busy) - 1
        BY ZenonT(40), <2>3, BusyChanges DEF doWork, JobStates
      <3>3. m_concurrency' \in Nat /\ Len(m_fibers') \in Nat
        BY <1>4 DEF TypeOK
      <3> QED BY SMTT(30), <1>1, <2>1, <3>1, <3>2, <3>3, PermitWords, CountsFinite
    <2> QED BY ZenonT(40), <2>2, <2>3 DEF Work
  <1> QED BY ZenonT(40), <1>5, <1>6, <1>7, <1>8

\* waitAll() begins, calls wait(), and counts what it got
LEMMA StepWaitAll ==
  ASSUME GInv, waitAll \/ Wait
  PROVE  GInv'
  <1> USE DEF GInv
  <1>1. UNCHANGED <<job, doing>>
    BY Zenon DEF waitAll, Wait, waitNext, waitedOne
  <1>2. Busy' = Busy /\ (SubmitInv => SubmitInv')
    BY Zenon, <1>1 DEF Busy, InJob, SubmitInv
  <1>3. /\ m_concurrency \in Nat /\ Len(m_fibers) \in Nat /\ Collected \in Nat
        /\ m_batchSize \in Nat /\ left \in 0..(m_batchSize + 1) /\ Waiter \in Fibers
        /\ granted \in [Fibers -> BOOLEAN]
    BY CountsFinite, WorkerGroupAssumption DEF GTypes, TypeOK, Collected
  <1>4. CASE waitAll
    <2>1. /\ left = m_batchSize + 1 /\ left' = m_batchSize
          /\ UNCHANGED <<m_concurrency, m_waiters, m_fibers, place, granted>>
      BY ZenonT(40), <1>4 DEF waitAll, vars
    <2>2. GTypes'
      BY <1>1, <1>3, <2>1 DEF GTypes, TypeOK, m_batchSize
    <2>3. ~granted[Waiter] /\ place[Waiter] = "run"
      BY <1>3, <2>1 DEF CallersInv
    <2>4. CallersInv'
      BY Zenon, <1>1, <2>1, <2>3 DEF CallersInv
    <2>5. Collected' = Collected /\ Granted' = Granted
      BY <1>3, <2>1 DEF Collected, Granted, m_batchSize
    <2>6. PermitsConserved'
      BY Zenon, <1>2, <2>1, <2>5, PermitWords
    <2> QED BY Zenon, <1>2, <2>2, <2>4, <2>6
  <1>5. CASE waitNext
    <2>1. left \in 1..m_batchSize /\ ~granted[Waiter] /\ semWait(Waiter) /\ left' = left
      BY ZenonT(40), <1>5 DEF waitNext
    <2>2. /\ TypeOK' /\ granted' \in [Fibers -> BOOLEAN]
          /\ granted'[Waiter] => place'[Waiter] = "run"
          /\ \A g \in Fibers \ {Waiter} : place'[g] = place[g] /\ granted'[g] = granted[g]
          /\ m_concurrency' + Len(m_fibers') + Cardinality(Granted')
                = m_concurrency + Len(m_fibers) + Cardinality(Granted)
      BY ZenonT(40), <1>3, <2>1, SemWaitStep
    <2>3. GTypes'
      BY Zenon, <1>1, <2>1, <2>2 DEF GTypes, m_batchSize
    <2>4. CallersInv'
      BY ZenonT(40), <1>1, <2>1, <2>2 DEF CallersInv, m_batchSize
    <2>5. Collected' = Collected
      BY ZenonT(40), <2>1 DEF Collected, m_batchSize
    <2>6. PermitsConserved'
      BY Zenon, <1>2, <2>2, <2>5, PermitWords
    <2> QED BY Zenon, <1>2, <2>3, <2>4, <2>6
  <1>6. CASE waitedOne
    <2>1. /\ granted[Waiter] /\ left' = left - 1
          /\ granted' = [granted EXCEPT ![Waiter] = FALSE]
          /\ UNCHANGED <<m_concurrency, m_waiters, m_fibers, place>>
      BY ZenonT(40), <1>6 DEF waitedOne, vars
    <2>2. left \in 1..m_batchSize /\ place[Waiter] = "run"
      BY ZenonT(40), <1>3, <2>1 DEF CallersInv
    <2>3. GTypes'
      BY <1>1, <1>3, <2>1, <2>2 DEF GTypes, TypeOK, m_batchSize
    <2>4. CallersInv'
      BY Zenon, <1>1, <1>3, <2>1, <2>2 DEF CallersInv
    <2>5. Cardinality(Granted') = Cardinality(Granted) - 1
      BY ZenonT(40), <1>3, <2>1, GrantedChanges
    <2>6. Collected' = Collected + 1
      BY <1>3, <2>1, <2>2 DEF Collected, m_batchSize
    <2>7. PermitsConserved'
      <3>1. m_concurrency + Len(m_fibers) + Cardinality(Granted) + Cardinality(Busy)
              + Collected = m_batchSize
        BY ZenonT(40), PermitWords
      <3>2. Cardinality(Granted) \in Nat /\ Cardinality(Busy) \in Nat
        BY Zenon, CountsFinite
      <3>3. m_concurrency + Len(m_fibers) + (Cardinality(Granted) - 1) + Cardinality(Busy)
              + (Collected + 1) = m_batchSize
        BY SMTT(30), <1>3, <3>1, <3>2
      <3> QED BY ZenonT(40), <1>2, <2>1, <2>5, <2>6, <3>3, PermitWords
    <2> QED BY Zenon, <1>2, <2>3, <2>4, <2>7
  <1> QED BY ZenonT(40), <1>4, <1>5, <1>6 DEF Wait

\* a fiber in wait() switches out
LEMMA StepSwitchOut ==
  ASSUME GInv, NEW f \in Fibers, switchOut(f)
  PROVE  GInv'
  <1> USE DEF GInv
  <1>1. /\ place[f] = "leaving" /\ place' = [place EXCEPT ![f] = "hold"]
        /\ UNCHANGED <<m_concurrency, m_waiters, m_fibers, job, doing, granted, left>>
    BY ZenonT(40) DEF switchOut, YieldToHold
  <1>2. GTypes'
    BY Zenon, <1>1 DEF GTypes, TypeOK, m_batchSize
  <1>3. CallersInv'
    BY <1>1 DEF CallersInv, GTypes, TypeOK, m_batchSize
  <1>4. SubmitInv' /\ PermitsConserved'
    BY ZenonT(40), <1>1 DEF SubmitInv, PermitsConserved, InJob, m_batchSize
  <1> QED BY ZenonT(40), <1>2, <1>3, <1>4

\* a scheduled waiter is resumed and has its permit
LEMMA StepWakeUp ==
  ASSUME GInv, wakeUp
  PROVE  GInv'
  <1> USE DEF GInv
  <1>1. PICK i \in 1..Len(m_fibers) :
          /\ resume(i)
          /\ granted' = [granted EXCEPT ![m_fibers[i]] = TRUE]
          /\ UNCHANGED <<job, doing, left>>
    BY ZenonT(40) DEF wakeUp
  <1>2. m_fibers \in Seq(Fibers) /\ Len(m_fibers) \in Nat /\ m_concurrency \in Nat
    BY DEF GTypes, TypeOK
  <1>3. PICK f \in Fibers : f = m_fibers[i]
    BY Zenon, <1>2, ElementOfSeq
  <1>4. /\ place[f] = "hold" /\ place' = [place EXCEPT ![f] = "run"]
        /\ granted' = [granted EXCEPT ![f] = TRUE]
        /\ m_fibers' = RemoveAt(m_fibers, i)
        /\ UNCHANGED <<m_concurrency, m_waiters>>
    BY ZenonT(40), <1>1, <1>3 DEF resume
  <1>5. m_fibers' \in Seq(Fibers) /\ Len(m_fibers') = Len(m_fibers) - 1
    BY Zenon, <1>2, <1>4, RemoveFacts
  <1>6. GTypes'
    BY Zenon, <1>1, <1>4, <1>5 DEF GTypes, TypeOK, m_batchSize
  <1>7. ~granted[f]
    BY ZenonT(40), <1>4 DEF CallersInv
  <1>8. CallersInv'
    BY ZenonT(40), <1>1, <1>4, WorkerGroupAssumption DEF CallersInv, GTypes, TypeOK, m_batchSize
  <1>9. SubmitInv'
    BY Zenon, <1>1 DEF SubmitInv
  <1>10. PermitsConserved'
    <2>1. Cardinality(Granted') = Cardinality(Granted) + 1
      BY Zenon, <1>4, <1>7, GrantedChanges
    <2>2. Busy' = Busy /\ Collected' = Collected
      BY Zenon, <1>1 DEF Busy, InJob, Collected, m_batchSize
    <2>3. Collected \in Nat
      BY CountsFinite DEF Collected, GTypes
    <2> QED BY SMTT(30), <1>2, <1>4, <1>5, <2>1, <2>2, <2>3, PermitWords, CountsFinite
  <1> QED BY ZenonT(40), <1>6, <1>8, <1>9, <1>10

-----------------------------------------------------------------------------
(* Theorems                                                                *)

\* initially every permit is free
LEMMA InitGInv == GInit => GInv
  <1> SUFFICES ASSUME GInit PROVE GInv
    OBVIOUS
  <1>1. m_batchSize \in Nat /\ Waiter \in Fibers /\ Inv
    BY Zenon, InitInv, CountsFinite, WorkerGroupAssumption DEF GInit
  <1>2. GTypes
    BY <1>1 DEF GInit, GTypes, Inv, JobStates
  <1>3. CallersInv /\ SubmitInv
    BY ZenonT(40), <1>1 DEF GInit, Init, CallersInv, SubmitInv
  <1>4. Granted = {} /\ Busy = {} /\ Collected = 0 /\ Len(m_fibers) = 0
        /\ m_concurrency = m_batchSize
    BY <1>1 DEF GInit, Init, Granted, Busy, InJob, Collected, m_batchSize
  <1>5. Cardinality(Granted) = 0 /\ Cardinality(Busy) = 0
    BY Zenon, <1>4, FS_EmptySet
  <1> QED BY SMTT(30), <1>1, <1>2, <1>3, <1>4, <1>5, PermitWords DEF GInv

\* GInv holds of every state of a group
LEMMA GInvariant == GInit /\ [][GNext]_gvars => []GInv
  <1>1. GInv /\ UNCHANGED gvars => GInv'
    BY DEF gvars, GInv, GTypes, TypeOK, CallersInv, SubmitInv, PermitsConserved, InJob,
           m_batchSize
  <1>2. GInv /\ [GNext]_gvars => GInv'
    BY ZenonT(40), <1>1, StepSchedule, StepDispatch, StepWork, StepWaitAll, StepSwitchOut, StepWakeUp
       DEF GNext, Run
  <1> QED BY <1>2, InitGInv, PTL

(* However many fibers call schedule() and waitAll() at a time, and whatever
   callbacks throw, no more than m_batchSize callbacks of a group are with
   the scheduler: a permit of m_sem that schedule() took is given back by
   doWork() and by nobody else.                                             *)
THEOREM AtMostBatchSize == GSpec => []BatchLimit
  <1>1. GInv => BatchLimit
    <2> SUFFICES ASSUME GInv PROVE BatchLimit
      OBVIOUS
    <2>1. InJob("queued") \cup InJob("run") \subseteq Busy
      BY Zenon DEF Busy
    <2>2. /\ Cardinality(InJob("queued") \cup InJob("run")) <= Cardinality(Busy)
          /\ Cardinality(InJob("queued") \cup InJob("run")) \in Nat
      BY ZenonT(40), <2>1, CountsFinite, FS_Subset, FS_CardinalityType
    <2>3. m_concurrency \in Nat /\ Len(m_fibers) \in Nat /\ Collected \in Nat
      BY CountsFinite DEF GInv, GTypes, TypeOK, Collected
    <2> QED BY <2>2, <2>3, CountsFinite, PermitWords DEF GInv, BatchLimit
  <1> QED BY <1>1, GInvariant, PTL DEF GSpec

(* When the m_batchSize calls of wait() in waitAll() have returned, no
   callback is queued or running, for any batch size and any number of
   callers: waitAll() has every permit.                                     *)
THEOREM WaitAllMeansAll == GSpec => []AllDoneAfterWaitAll
  <1>1. GInv => AllDoneAfterWaitAll
    <2> SUFFICES ASSUME GInv, left = 0 PROVE InJob("queued") \cup InJob("run") = {}
      BY ZenonT(40) DEF AllDoneAfterWaitAll
    <2>1. m_concurrency \in Nat /\ Len(m_fibers) \in Nat
      BY DEF GInv, GTypes, TypeOK
    <2>2. Collected = m_batchSize
      BY CountsFinite DEF Collected
    <2>3. Cardinality(Busy) = 0
      BY <2>1, <2>2, CountsFinite, PermitWords DEF GInv
    <2>4. Busy = {}
      BY Zenon, <2>3, CountsFinite, FS_EmptySet
    <2> QED BY Zenon, <2>4 DEF Busy
  <1> QED BY <1>1, GInvariant, PTL DEF GSpec

=============================================================================
