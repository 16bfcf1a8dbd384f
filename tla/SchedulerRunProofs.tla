------------------------- MODULE SchedulerRunProofs -------------------------
(***************************************************************************)
(* FiberInv and the steps of Scheduler::run(): taking a task from the      *)
(* queue, running it, and what follows when it has switched out.  Before   *)
(* them the lemmas that the steps rest on: the queue operations, the count *)
(* of active threads, and steps that leave the fibers in hand alone.       *)
(***************************************************************************)
EXTENDS Scheduler, FiniteSetTheorems, SequenceTheorems, TLAPS

-----------------------------------------------------------------------------
(* What the queue operations do to the tasks in the queue.                 *)

\* push_back in scheduleNoLock: one more entry, at the end
LEMMA AppendFacts ==
  ASSUME NEW q \in Seq(Entry), NEW e \in Entry
  PROVE  /\ Append(q, e) \in Seq(Entry)
         /\ \A t : InQueue(Append(q, e), t) <=> InQueue(q, t) \/ t = e.task
         /\ \A t : OnceInQueue(q, t) /\ (t = e.task => ~InQueue(q, t))
                     => OnceInQueue(Append(q, e), t)
  <1>1. /\ Append(q, e) \in Seq(Entry)
        /\ Len(Append(q, e)) = Len(q) + 1
        /\ \A i \in 1..Len(q) : Append(q, e)[i] = q[i]
        /\ Append(q, e)[Len(q) + 1] = e
        /\ Len(q) \in Nat
    OBVIOUS
  <1> DEFINE r == Append(q, e)
  <1> HIDE DEF r
  <1>2. /\ r \in Seq(Entry) /\ Len(r) = Len(q) + 1 /\ Len(q) \in Nat
        /\ \A i \in 1..Len(q) : r[i] = q[i]
        /\ r[Len(q) + 1] = e
    BY Zenon, <1>1 DEF r
  <1>3. \A t : InQueue(r, t) <=> InQueue(q, t) \/ t = e.task
    <2> TAKE t
    <2>1. InQueue(r, t) => InQueue(q, t) \/ t = e.task
      BY <1>2 DEF InQueue
    <2>2. InQueue(q, t) => InQueue(r, t)
      BY <1>2 DEF InQueue
    <2>3. t = e.task => InQueue(r, t)
      BY <1>2 DEF InQueue
    <2> QED BY Zenon, <2>1, <2>2, <2>3
  <1>4. \A t : OnceInQueue(q, t) /\ (t = e.task => ~InQueue(q, t))
                 => OnceInQueue(r, t)
    BY <1>2 DEF InQueue, OnceInQueue
  <1> QED BY Zenon, <1>2, <1>3, <1>4 DEF r

\* erase in run(): entry i is gone, the others keep their order
LEMMA EraseFacts ==
  ASSUME NEW q \in Seq(Entry), NEW i \in 1..Len(q)
  PROVE  /\ erase(q, i) \in Seq(Entry)
         /\ \A t : InQueue(erase(q, i), t) => InQueue(q, t)
         /\ \A t : OnceInQueue(q, t) => OnceInQueue(erase(q, i), t)
         /\ OnceInQueue(q, q[i].task) => ~InQueue(erase(q, i), q[i].task)
         /\ \A t : InQueue(q, t) /\ t # q[i].task => InQueue(erase(q, i), t)
  <1> DEFINE r == erase(q, i)
  <1>1. /\ r \in Seq(Entry)
        /\ Len(r) = Len(q) - 1
        /\ \A j \in 1..Len(r) : r[j] = IF j < i THEN q[j] ELSE q[j+1]
    <2> DEFINE a == SubSeq(q, 1, i-1)
               b == SubSeq(q, i+1, Len(q))
    <2>1. a \in Seq(Entry) /\ Len(a) = i-1 /\ \A j \in 1..(i-1) : a[j] = q[j]
      OBVIOUS
    <2>2. b \in Seq(Entry) /\ Len(b) = Len(q) - i
                /\ \A j \in 1..(Len(q) - i) : b[j] = q[j+i]
      OBVIOUS
    <2>3. r = a \o b
      BY Zenon DEF erase
    <2> HIDE DEF a, b, r
    <2>4. Len(q) \in Nat
      OBVIOUS
    <2>5. /\ a \o b \in Seq(Entry) /\ Len(a \o b) = Len(a) + Len(b)
          /\ \A j \in 1..(Len(a) + Len(b)) :
               (a \o b)[j] = IF j <= Len(a) THEN a[j] ELSE b[j - Len(a)]
      BY Zenon, <2>1, <2>2, ConcatProperties
    <2>6. Len(a \o b) = Len(q) - 1
      BY <2>1, <2>2, <2>4, <2>5
    <2>7. \A j \in 1..(Len(q) - 1) : (a \o b)[j] = IF j < i THEN q[j] ELSE q[j+1]
      BY <2>1, <2>2, <2>4, <2>5
    <2> QED BY Zenon, <2>3, <2>5, <2>6, <2>7
  <1> HIDE DEF r
  <1>2. \A t : InQueue(r, t) => InQueue(q, t)
    BY <1>1 DEF InQueue
  <1>3. ASSUME NEW t, OnceInQueue(q, t)
        PROVE  OnceInQueue(r, t)
    <2> SUFFICES ASSUME NEW j \in 1..Len(r), NEW k \in 1..Len(r),
                        r[j].task = t, r[k].task = t
                 PROVE  j = k
      BY Zenon DEF OnceInQueue
    <2> DEFINE J == IF j < i THEN j ELSE j+1
               K == IF k < i THEN k ELSE k+1
    <2>1. J \in 1..Len(q) /\ K \in 1..Len(q) /\ q[J] = r[j] /\ q[K] = r[k]
      BY <1>1
    <2>2. J = K
      BY Zenon, <1>3, <2>1 DEF OnceInQueue
    <2> QED BY <2>2
  <1>4. OnceInQueue(q, q[i].task) => ~InQueue(r, q[i].task)
    BY <1>1 DEF OnceInQueue, InQueue
  <1>5. ASSUME NEW t, InQueue(q, t), t # q[i].task
        PROVE  InQueue(r, t)
    <2>1. PICK k \in 1..Len(q) : q[k].task = t
      BY Zenon, <1>5 DEF InQueue
    <2>2. k # i /\ Len(q) \in Nat
      BY <1>5, <2>1
    <2>3. PICK j \in 1..Len(r) : r[j] = q[k]
      <3>1. CASE k < i
        BY <1>1, <2>2, <3>1
      <3>2. CASE k > i
        <4>1. k - 1 \in 1..Len(r) /\ r[k - 1] = q[k]
          BY <1>1, <2>2, <3>2
        <4> QED BY Zenon, <4>1
      <3> QED BY <2>2, <3>1, <3>2
    <2> QED BY Zenon, <2>1, <2>3 DEF InQueue
  <1> QED BY ZenonT(40), <1>1, <1>2, <1>3, <1>4, <1>5 DEF r

\* the batch schedule(begin, end): all of S at the end, in some order
LEMMA ConcatFacts ==
  ASSUME NEW q \in Seq(Entry), NEW n \in Nat,
         NEW S \in SUBSET Fibers, NEW b \in Bijection(1..n, S)
  PROVE  LET r == q \o [i \in 1..n |-> [task |-> b[i], thread |-> AnyThread]]
         IN  /\ r \in Seq(Entry)
             /\ \A t : InQueue(r, t) <=> InQueue(q, t) \/ t \in S
             /\ \A t : OnceInQueue(q, t) /\ (t \in S => ~InQueue(q, t))
                         => OnceInQueue(r, t)
  <1> DEFINE p == [i \in 1..n |-> [task |-> b[i], thread |-> AnyThread]]
             r == q \o p
  <1>1. /\ b \in [1..n -> S]
        /\ \A i, j \in 1..n : b[i] = b[j] => i = j
        /\ \A t \in S : \E i \in 1..n : b[i] = t
    BY Zenon DEF Bijection, Injection, Surjection, IsInjective
  <1>2. p \in Seq(Entry) /\ Len(p) = n /\ \A i \in 1..n : p[i].task = b[i]
    BY <1>1 DEF Entry, Task
  <1> HIDE DEF p
  <1>3. /\ r \in Seq(Entry) /\ Len(r) = Len(q) + n /\ Len(q) \in Nat
        /\ \A i \in 1..(Len(q) + n) : r[i] = IF i <= Len(q) THEN q[i] ELSE p[i - Len(q)]
    <2>1. /\ q \o p \in Seq(Entry) /\ Len(q \o p) = Len(q) + Len(p)
          /\ \A i \in 1..(Len(q) + Len(p)) :
               (q \o p)[i] = IF i <= Len(q) THEN q[i] ELSE p[i - Len(q)]
      BY Zenon, <1>2, ConcatProperties
    <2> QED BY <1>2, <2>1
  <1> HIDE DEF r
  <1>4. \A i \in 1..n : r[Len(q) + i].task = b[i] /\ Len(q) + i \in 1..Len(r)
    BY <1>2, <1>3
  <1>5. \A i \in 1..Len(q) : r[i] = q[i] /\ i \in 1..Len(r)
    BY <1>3
  <1>6. \A i \in 1..Len(r) : \/ i \in 1..Len(q)
                             \/ i - Len(q) \in 1..n /\ r[i].task = b[i - Len(q)]
    BY <1>2, <1>3
  <1>7. ASSUME NEW t PROVE InQueue(r, t) <=> InQueue(q, t) \/ t \in S
    <2>1. InQueue(r, t) => InQueue(q, t) \/ t \in S
      BY <1>1, <1>5, <1>6 DEF InQueue
    <2>2. InQueue(q, t) => InQueue(r, t)
      BY Zenon, <1>5 DEF InQueue
    <2>3. t \in S => InQueue(r, t)
      BY ZenonT(40), <1>1, <1>4 DEF InQueue
    <2> QED BY Zenon, <2>1, <2>2, <2>3
  <1>8. ASSUME NEW t, OnceInQueue(q, t), t \in S => ~InQueue(q, t)
        PROVE  OnceInQueue(r, t)
    <2> SUFFICES ASSUME NEW i \in 1..Len(r), NEW j \in 1..Len(r),
                        r[i].task = t, r[j].task = t
                 PROVE  i = j
      BY Zenon DEF OnceInQueue
    <2>1. CASE i \in 1..Len(q) /\ j \in 1..Len(q)
      BY Zenon, <1>5, <1>8, <2>1 DEF OnceInQueue
    <2>2. CASE i \notin 1..Len(q) /\ j \notin 1..Len(q)
      <3>1. i - Len(q) \in 1..n /\ j - Len(q) \in 1..n /\ b[i - Len(q)] = b[j - Len(q)]
        BY Zenon, <1>6, <2>2
      <3>2. i - Len(q) = j - Len(q)
        BY Zenon, <1>1, <3>1
      <3> QED BY <1>3, <3>2
    <2>3. CASE i \in 1..Len(q) /\ j \notin 1..Len(q)
      <3>1. InQueue(q, t)
        BY Zenon, <1>5, <2>3 DEF InQueue
      <3>2. t \in S
        BY <1>1, <1>6, <2>3
      <3> QED BY Zenon, <1>8, <3>1, <3>2
    <2>4. CASE i \notin 1..Len(q) /\ j \in 1..Len(q)
      <3>1. InQueue(q, t)
        BY Zenon, <1>5, <2>4 DEF InQueue
      <3>2. t \in S
        BY <1>1, <1>6, <2>4
      <3> QED BY Zenon, <1>8, <3>1, <3>2
    <2> QED BY Zenon, <2>1, <2>2, <2>3, <2>4
  <1> QED BY Zenon, <1>3, <1>7, <1>8 DEF r, p

-----------------------------------------------------------------------------
(* m_activeThreadCount                                                     *)

BusyThreads == {v \in Threads : pc[v] \in Busy}

\* moving one worker into, out of or within the busy labels
LEMMA ActiveMoves ==
  ASSUME TypeOK, ActiveInv, NEW w \in Threads, NEW l \in Label,
         pc' = [pc EXCEPT ![w] = l]
  PROVE  /\ pc[w] \in Busy /\ l \notin Busy =>
              /\ Cardinality(BusyThreads') = m_activeThreadCount - 1
              /\ m_activeThreadCount - 1 \in Nat
         /\ pc[w] \notin Busy /\ l \in Busy =>
              Cardinality(BusyThreads') = m_activeThreadCount + 1
         /\ (pc[w] \in Busy <=> l \in Busy) =>
              Cardinality(BusyThreads') = m_activeThreadCount
  <1>1. IsFiniteSet(BusyThreads)
    BY Zenon, SchedulerAssumption, FS_Subset DEF BusyThreads
  <1>2. m_activeThreadCount = Cardinality(BusyThreads)
    BY Zenon DEF ActiveInv, BusyThreads
  <1>3. CASE pc[w] \in Busy /\ l \notin Busy
    <2>1. BusyThreads' = BusyThreads \ {w} /\ w \in BusyThreads
      BY Zenon, <1>3 DEF BusyThreads, TypeOK
    <2>2. /\ IsFiniteSet(BusyThreads \ {w})
          /\ Cardinality(BusyThreads \ {w}) = Cardinality(BusyThreads) - 1
      BY Zenon, <1>1, <2>1, FS_RemoveElement
    <2>3. Cardinality(BusyThreads \ {w}) \in Nat
      BY Zenon, <2>2, FS_CardinalityType
    <2> QED BY Zenon, <1>2, <1>3, <2>1, <2>2, <2>3
  <1>4. CASE pc[w] \notin Busy /\ l \in Busy
    <2>1. BusyThreads' = BusyThreads \cup {w} /\ w \notin BusyThreads
      BY Zenon, <1>4 DEF BusyThreads, TypeOK
    <2> QED BY Zenon, <1>1, <1>2, <1>4, <2>1, FS_AddElement
  <1>5. CASE pc[w] \in Busy <=> l \in Busy
    <2>1. BusyThreads' = BusyThreads
      BY Zenon, <1>5 DEF BusyThreads, TypeOK
    <2> QED BY Zenon, <1>2, <1>5, <2>1
  <1> QED BY Zenon, <1>3, <1>4, <1>5

-----------------------------------------------------------------------------
(* Steps that leave the fibers in hand alone, and enqueue one.             *)

\* HoldOnce survives a step in which nobody takes a fiber in hand, no state
\* changes and whoever is about to look at a fiber still is
LEMMA HoldOnceKept ==
  ASSUME HoldOnce, m_state' = m_state,
         \A v \in Threads, g \in Fibers : Holds(v, g)' =>
           Holds(v, g) /\ (pc[v] = "took" => pc'[v] = "took")
  PROVE  HoldOnce'
  <1> SUFFICES ASSUME NEW g \in Fibers, NEW u \in Threads, NEW v \in Threads,
                      u # v, Holds(u, g)', Holds(v, g)'
               PROVE  /\ m_state'[g] \in Ended /\ g \in UserFibers
                      /\ pc'[u] = "took" \/ pc'[v] = "took"
    BY Zenon DEF HoldOnce
  <1>1. /\ Holds(u, g) /\ Holds(v, g)
        /\ pc[u] = "took" => pc'[u] = "took"
        /\ pc[v] = "took" => pc'[v] = "took"
    OBVIOUS
  <1> QED BY Zenon, <1>1 DEF HoldOnce

\* the workers' own moves outside the tasks change none of the fibers
LEMMA QuietStep ==
  ASSUME FiberInv, NEW w \in Threads, NEW l \in Label,
         pc' = [pc EXCEPT ![w] = l],
         pc[w] \notin Holding <=> l \notin Holding,
         pc[w] \in Holding => pc[w] # "took" /\ pc[w] # "exec" /\ l # "took" /\ l # "exec",
         pc[w] # "expired",
         UNCHANGED <<m_fibers, m_state, m_cb, ft, cb_fiber, armed, cbs, unscheduled>>
  PROVE  HolderInv' /\ HoldOnce' /\ TokenInv' /\ SpareInv' /\ FreeInv'
  <1> USE DEF FiberInv
  <1>1. \A v \in Threads, f \in Fibers : Holds(v, f)' <=> Holds(v, f)
    BY Zenon DEF Holds, TypeOK, Holding, Busy
  <1>2. \A f \in Fibers : (Token(f)' <=> Token(f)) /\ (TokenOnce(f)' <=> TokenOnce(f))
                            /\ (Expired(f)' <=> Expired(f))
    BY Zenon DEF Token, TokenOnce, Expired
  <1>3. HolderInv'
    BY ZenonT(40), <1>1 DEF HolderInv, TypeOK, Holding, Busy
  <1>4. HoldOnce'
    BY <1>1 DEF HoldOnce, TypeOK, Holding, Busy, Holds
  <1>5. TokenInv'
    BY <1>1, <1>2 DEF TokenInv, TypeOK, Holding, Busy, Holds
  <1>6. SpareInv'
    BY Zenon, <1>1 DEF SpareInv, Fibers
  <1>7. FreeInv'
    BY Zenon, <1>1 DEF FreeInv
  <1> QED BY Zenon, <1>3, <1>4, <1>5, <1>6, <1>7

\* a task gets an entry at the end of the queue; no fiber changes hands
LEMMA EnqueueStep ==
  ASSUME FiberInv, NEW t \in Task, NEW thr \in Threads \cup {AnyThread},
         schedule(t, thr),
         UNCHANGED <<m_state, m_cb, ft, cb_fiber, cbs>>,
         \A v \in Threads, g \in Fibers : Holds(v, g)' <=> Holds(v, g),
         \A v \in Threads : pc'[v] = pc[v] \/ (pc[v] = "exec" /\ pc'[v] = "out"),
         \A g \in Fibers : armed'[g] = armed[g] \/ (g = t /\ armed'[g] = "no"),
         unscheduled' \in SUBSET unscheduled,
         t \in Fibers => t \notin unscheduled',
         \* t had no entry yet, and its holder is on the way out
         t \in Fibers /\ m_state[t] \notin Ended =>
           /\ ~InQueue(m_fibers, t) /\ ~Expired(t) /\ armed'[t] = "no"
           /\ m_state[t] # "FREE"
           /\ t \in CbFibers => m_state[t] # "INIT"
           /\ \A v \in Threads : Holds(v, t) =>
                m_state[t] = "EXEC" /\ pc'[v] \in {"out", "back", "post"},
         t \in CbFibers => m_state[t] \notin Ended
  PROVE  m_fibers' \in Seq(Entry) /\ HolderInv' /\ HoldOnce' /\ TokenInv'
           /\ SpareInv' /\ FreeInv'
  <1> USE DEF FiberInv
  <1> DEFINE e == [task |-> t, thread |-> thr]
  <1>1. e \in Entry /\ e.task = t /\ m_fibers \in Seq(Entry)
    BY Zenon DEF Entry, TypeOK
  <1>2. m_fibers' = Append(m_fibers, e)
    BY Zenon DEF schedule
  <1> HIDE DEF e
  <1>3. /\ m_fibers' \in Seq(Entry)
        /\ \A g : InQueue(m_fibers', g) <=> InQueue(m_fibers, g) \/ g = t
        /\ \A g : OnceInQueue(m_fibers, g) /\ (g = t => ~InQueue(m_fibers, g))
                    => OnceInQueue(m_fibers', g)
    BY Zenon, <1>1, <1>2, AppendFacts
  <1>4. \A g \in Fibers : (Expired(g)' <=> Expired(g))
    BY Zenon DEF Expired
  <1>5. \A g \in Fibers : g # t => (Token(g)' <=> Token(g)) /\ (TokenOnce(g) => TokenOnce(g)')
    BY Zenon, <1>3, <1>4 DEF Token, TokenOnce
  <1>6. t \in Fibers /\ m_state[t] \notin Ended => Token(t)' /\ TokenOnce(t)'
    BY Zenon, <1>3, <1>4 DEF Token, TokenOnce, TokenInv
  <1>7. HolderInv'
    BY DEF HolderInv, Holding, Busy, TypeOK, Ended
  <1>8. HoldOnce'
    <2>1. \A v \in Threads : pc[v] = "took" => pc'[v] = "took"
      OBVIOUS
    <2> QED BY Zenon, <2>1, HoldOnceKept
  <1>9. TokenInv'
    <2> SUFFICES ASSUME NEW g \in Fibers
                 PROVE  /\ m_state'[g] \notin Ended => TokenOnce(g)'
                        /\ m_state'[g] \in Ended => armed'[g] = "no" /\ ~Expired(g)'
                        /\ m_state'[g] \in Ended /\ g \in CbFibers => ~Token(g)'
                        /\ m_state'[g] \notin Ended /\ Token(g)' =>
                             /\ \A w \in Threads : Holds(w, g)' =>
                                  m_state'[g] = "EXEC" /\ pc'[w] \in {"out", "back", "post"}
                             /\ g \notin unscheduled'
                             /\ m_state'[g] # "FREE"
                             /\ g \in CbFibers => m_state'[g] # "INIT"
                        /\ g \in unscheduled' => m_state'[g] = "INIT"
      BY Zenon DEF TokenInv
    <2>1. CASE g = t
      BY ZenonT(40), <1>4, <1>6, <2>1 DEF TokenInv
    <2>2. CASE g # t
      BY ZenonT(40), <1>4, <1>5, <2>2 DEF TokenInv
    <2> QED BY Zenon, <2>1, <2>2
  <1>10. SpareInv' /\ FreeInv'
    BY ZenonT(40) DEF SpareInv, FreeInv, Fibers
  <1> QED BY Zenon, <1>3, <1>7, <1>8, <1>9, <1>10

\* the fiber a worker is running, and what is known of it
LEMMA RunningFiber ==
  ASSUME FiberInv, NEW w \in Threads, pc[w] = "exec"
  PROVE  \E f \in Fibers :
           /\ f = Cur(w) /\ m_state[f] = "EXEC" /\ f \notin unscheduled
           /\ ~Token(f) /\ TokenOnce(f)
           /\ \A v \in Threads : Holds(v, f) <=> v = w
           /\ \A g \in Fibers : Holds(w, g) <=> g = f
  <1> USE DEF FiberInv
  <1>1. PICK f \in Fibers : Holds(w, f)
    BY Zenon DEF HolderInv, Holding, Busy
  <1>2. f = Cur(w) /\ \A g \in Fibers : Holds(w, g) <=> g = f
    BY Zenon, <1>1 DEF Holds, Cur
  <1>3. m_state[f] = "EXEC" /\ f \notin unscheduled
    BY Zenon, <1>1 DEF HolderInv
  <1>4. ~Token(f) /\ TokenOnce(f)
    BY Zenon, <1>1, <1>3 DEF TokenInv, Ended
  <1>5. \A v \in Threads : Holds(v, f) <=> v = w
    BY Zenon, <1>1, <1>3 DEF HoldOnce, Ended
  <1> QED BY Zenon, <1>2, <1>3, <1>4, <1>5

-----------------------------------------------------------------------------
(* The steps of run().                                                     *)

\* a worker takes an entry: only an ended fiber can be in other hands
LEMMA StepTake ==
  ASSUME FiberInv, NEW w \in Threads, Take(w)
  PROVE  FiberInv'
  <1> USE DEF FiberInv
  <1>1. PICK i \in 1..Len(m_fibers) :
           /\ Takeable(w, i)
           /\ ft' = [ft EXCEPT ![w] = m_fibers[i].task]
           /\ m_fibers' = erase(m_fibers, i)
    BY Zenon DEF Take
  <1>2. /\ pc[w] = "scan" /\ pc' = [pc EXCEPT ![w] = "took"]
        /\ m_activeThreadCount' = m_activeThreadCount + 1
        /\ UNCHANGED <<m_stopping, m_state, m_cb, cb_fiber, idle_fiber, armed, cbs,
             unscheduled, finished, yields>>
    BY Zenon DEF Take, Goto
  <1>3. PICK t \in Task : t = m_fibers[i].task
    <2>1. m_fibers[i] \in Entry
      BY ZenonT(40), ElementOfSeq DEF TypeOK
    <2> QED BY ZenonT(40), <2>1 DEF Entry
  <1>4. /\ m_fibers' \in Seq(Entry)
        /\ \A g : InQueue(m_fibers', g) => InQueue(m_fibers, g)
        /\ \A g : OnceInQueue(m_fibers, g) => OnceInQueue(m_fibers', g)
        /\ OnceInQueue(m_fibers, t) => ~InQueue(m_fibers', t)
        /\ InQueue(m_fibers, t)
    <2>1. m_fibers \in Seq(Entry)
      BY Zenon DEF TypeOK
    <2>2. InQueue(m_fibers, t)
      BY Zenon, <1>3 DEF InQueue
    <2> QED BY Zenon, <1>1, <1>3, <2>1, <2>2, EraseFacts
  <1>5. "took" \in Label /\ t # nullptr /\ (t \in Fibers => t \notin Callbacks)
    BY Zenon, SchedulerAssumption DEF Label, Task
  <1>6. \A v \in Threads, g \in Fibers : Holds(v, g)' <=> (Holds(v, g) \/ (v = w /\ g = t))
    BY ZenonT(40), <1>1, <1>2, <1>3, <1>5 DEF Holds, Holding, Busy, TypeOK, Task
  <1>7. \A g \in Fibers : /\ Expired(g)' <=> Expired(g)
                          /\ Token(g)' => Token(g)
                          /\ TokenOnce(g) => TokenOnce(g)'
    BY Zenon, <1>2, <1>4 DEF Token, TokenOnce, Expired
  <1>8. ~\E g \in Fibers : Holds(w, g)
    BY Zenon, <1>2 DEF Holds, Holding, Busy
  <1>9. t \in Fibers => /\ Token(t)
                        /\ m_state[t] # "EXEC"
                        /\ m_state[t] \notin Ended =>
                             /\ ~Token(t)' /\ \A v \in Threads : ~Holds(v, t)
    <2> SUFFICES ASSUME t \in Fibers
                 PROVE  /\ Token(t)
                        /\ m_state[t] # "EXEC"
                        /\ m_state[t] \notin Ended =>
                             /\ ~Token(t)' /\ \A v \in Threads : ~Holds(v, t)
      OBVIOUS
    <2>1. Token(t) /\ m_state[t] # "EXEC"
      BY Zenon, <1>1, <1>3, <1>4 DEF Token, Takeable
    <2>2. m_state[t] \notin Ended => \A v \in Threads : ~Holds(v, t)
      BY ZenonT(40), <2>1 DEF TokenInv
    <2>3. m_state[t] \notin Ended => ~Token(t)'
      BY ZenonT(40), <1>2, <1>4, <1>7 DEF TokenInv, TokenOnce, Token
    <2> QED BY ZenonT(40), <2>1, <2>2, <2>3
  <1>10. HolderInv'
    <2>1. \A v \in Threads : (pc'[v] \in Holding <=> ft'[v] # nullptr)
                               /\ (cbs'[v] # {} => pc'[v] = "expired")
      BY ZenonT(40), <1>1, <1>2, <1>3, <1>5 DEF HolderInv, TypeOK, Holding, Busy
    <2>2. \A v \in Threads : pc'[v] \in Holding \ {"took"} => \E f \in Fibers : Holds(v, f)'
      BY ZenonT(40), <1>2, <1>6 DEF HolderInv, TypeOK
    <2>3. t \in Fibers => /\ m_state[t] \in {"INIT", "HOLD", "READY"} \cup Ended
                          /\ t \in CbFibers => m_state[t] \in {"HOLD", "READY"}
                          /\ t \notin unscheduled
      BY Zenon, <1>9 DEF TokenInv, TypeOK, FiberState, Ended
    <2>4. pc'[w] = "took" /\ \A v \in Threads : v # w => pc'[v] = pc[v]
      BY ZenonT(40), <1>2 DEF TypeOK
    <2> SUFFICES ASSUME NEW v \in Threads, NEW g \in Fibers, Holds(v, g)'
                 PROVE  /\ pc'[v] = "took" => m_state'[g] \in {"INIT", "HOLD", "READY"} \cup Ended
                        /\ pc'[v] = "exec" => m_state'[g] = "EXEC"
                        /\ pc'[v] \in {"out", "back", "post"} =>
                             m_state'[g] \in {"EXEC", "READY"} \cup Ended
                        /\ pc'[v] = "took" /\ g \in CbFibers => m_state'[g] \in {"HOLD", "READY"}
                        /\ g \notin unscheduled'
      BY ZenonT(40), <2>1, <2>2 DEF HolderInv
    <2>5. CASE v = w
      BY Zenon, <1>2, <1>6, <1>8, <2>3, <2>4, <2>5
    <2>6. CASE v # w
      <3>1. Holds(v, g) /\ pc'[v] = pc[v]
        BY ZenonT(40), <1>6, <2>4, <2>6
      <3> QED BY ZenonT(40), <1>2, <3>1 DEF HolderInv
    <2> QED BY Zenon, <2>5, <2>6
  <1>11. HoldOnce'
    <2>1. t \in Fibers /\ m_state[t] \in Ended => t \in UserFibers
      BY Zenon, <1>9 DEF TokenInv, Fibers
    <2>2. /\ pc'[w] = "took"
          /\ \A v \in Threads, g \in Fibers : Holds(v, g) => pc'[v] = pc[v]
      BY Zenon, <1>2, <1>8 DEF TypeOK
    <2> QED BY <1>2, <1>6, <1>8, <1>9, <2>1, <2>2 DEF HoldOnce
  <1>12. TokenInv'
    BY <1>2, <1>6, <1>7, <1>8, <1>9 DEF TokenInv, TypeOK
  <1>13. SpareInv'
    <2>1. \A g \in CbFibers : cb_fiber[w] = g => t # g
      BY Zenon, <1>8, <1>9 DEF SpareInv, TokenInv, Fibers, Ended
    <2>2. \A v \in Threads, g \in CbFibers : cb_fiber[v] = g => ft'[v] # g
      BY ZenonT(40), <1>1, <1>3, <2>1 DEF SpareInv, TypeOK
    <2>3. \A v \in Threads, g \in CbFibers : Holds(v, g)' <=> (Holds(v, g) \/ (v = w /\ g = t))
      BY Zenon, <1>6 DEF Fibers
    <2>4. \A v \in Threads, g \in CbFibers : cb_fiber[v] = g => t # g
      BY Zenon, <1>8, <1>9 DEF SpareInv, TokenInv, Fibers, Ended
    <2> QED BY ZenonT(40), <1>2, <2>2, <2>3, <2>4 DEF SpareInv
  <1>14. FreeInv'
    BY Zenon, <1>2, <1>6, <1>9 DEF FreeInv, TokenInv, Ended
  <1>15. TypeOK' /\ ActiveInv'
    <2>1. ActiveInv'
      BY ZenonT(40), <1>2, <1>5, ActiveMoves DEF ActiveInv, BusyThreads, Busy
    <2>2. ft' \in [Threads -> Task \cup {nullptr}] /\ pc' \in [Threads -> Label]
      BY ZenonT(40), <1>1, <1>2, <1>3, <1>5 DEF TypeOK
    <2>3. m_activeThreadCount' \in Nat
      BY <1>2 DEF TypeOK
    <2> QED BY Zenon, <1>2, <1>4, <2>1, <2>2, <2>3 DEF TypeOK
  <1> QED BY ZenonT(40), <1>10, <1>11, <1>12, <1>13, <1>14, <1>15

\* swapIn() of a scheduled fiber
LEMMA StepRunFiber ==
  ASSUME FiberInv, NEW w \in Threads, RunFiber(w)
  PROVE  FiberInv'
  <1> USE DEF FiberInv
  <1>1. PICK f \in Fibers : f = ft[w]
    BY Zenon DEF RunFiber
  <1>2. /\ pc[w] = "took" /\ pc' = [pc EXCEPT ![w] = "exec"] /\ "exec" \in Label
        /\ m_state' = [m_state EXCEPT ![f] = "EXEC"] /\ m_state[f] \notin Ended
        /\ UNCHANGED <<m_fibers, m_activeThreadCount, m_stopping, m_cb, ft, cb_fiber,
             idle_fiber, armed, cbs, unscheduled, finished, yields>>
    BY Zenon, <1>1 DEF RunFiber, Goto, Label
  <1>3. f \notin Callbacks /\ Holds(w, f)
    BY Zenon, <1>1, <1>2, SchedulerAssumption DEF Holds, Holding, Busy
  <1>4. \A v \in Threads, g \in Fibers : Holds(v, g)' <=> Holds(v, g)
    BY Zenon, <1>1, <1>2, <1>3 DEF Holds, Holding, Busy, TypeOK
  <1>5. \A g \in Fibers : /\ Expired(g)' <=> Expired(g)
                          /\ Token(g)' <=> Token(g)
                          /\ TokenOnce(g)' <=> TokenOnce(g)
    BY ZenonT(40), <1>2 DEF Token, TokenOnce, Expired
  <1>6. /\ \A v \in Threads : Holds(v, f) <=> v = w
        /\ \A g \in Fibers : Holds(w, g) <=> g = f
        /\ ~Token(f) /\ f \notin unscheduled
        /\ f \in CbFibers => m_state[f] \in {"HOLD", "READY"}
    <2>1. \A g \in Fibers : Holds(w, g) <=> g = f
      BY Zenon, <1>1, <1>2, <1>3 DEF Holds, Holding, Busy
    <2>2. \A v \in Threads : Holds(v, f) <=> v = w
      BY Zenon, <1>2, <1>3 DEF HoldOnce
    <2>3. ~Token(f)
      BY ZenonT(40), <1>2, <1>3 DEF TokenInv
    <2>4. f \notin unscheduled /\ (f \in CbFibers => m_state[f] \in {"HOLD", "READY"})
      BY ZenonT(40), <1>2, <1>3 DEF HolderInv
    <2> QED BY Zenon, <2>1, <2>2, <2>3, <2>4
  <1>7. HolderInv'
    BY <1>2, <1>4, <1>6 DEF HolderInv, TypeOK, Holding, Busy
  <1>8. HoldOnce'
    BY <1>2, <1>4, <1>6 DEF HoldOnce, TypeOK
  <1>9. TokenInv'
    BY ZenonT(40), <1>2, <1>4, <1>5, <1>6 DEF TokenInv, TypeOK, Ended
  <1>10. SpareInv'
    BY <1>2, <1>4, <1>6 DEF SpareInv, Fibers, TypeOK
  <1>11. FreeInv'
    BY Zenon, <1>2, <1>4, <1>6 DEF FreeInv, TypeOK
  <1>12. TypeOK' /\ ActiveInv'
    <2>1. ActiveInv'
      BY ZenonT(40), <1>2, ActiveMoves DEF ActiveInv, BusyThreads, Busy
    <2> QED BY Zenon, <1>2, <2>1 DEF TypeOK, FiberState
  <1> QED BY ZenonT(40), <1>7, <1>8, <1>9, <1>10, <1>11, <1>12

\* a taken fiber that had already ended is dropped
LEMMA StepDropFiber ==
  ASSUME FiberInv, NEW w \in Threads, DropFiber(w)
  PROVE  FiberInv'
  <1> USE DEF FiberInv
  <1>1. /\ pc[w] = "took" /\ pc' = [pc EXCEPT ![w] = "scan"] /\ "scan" \in Label
        /\ ft' = [ft EXCEPT ![w] = nullptr]
        /\ m_activeThreadCount' = m_activeThreadCount - 1
        /\ UNCHANGED <<m_fibers, m_stopping, m_state, m_cb, cb_fiber, idle_fiber,
             armed, cbs, unscheduled, finished, yields>>
        /\ ft[w] \in Fibers /\ m_state[ft[w]] \in Ended
    BY ZenonT(40) DEF DropFiber, Goto, Label
  <1>2. \A v \in Threads, g \in Fibers : Holds(v, g)' <=> (Holds(v, g) /\ v # w)
    BY ZenonT(40), <1>1, SchedulerAssumption DEF Holds, Holding, Busy, TypeOK
  <1>3. \A g \in Fibers : /\ Expired(g)' <=> Expired(g)
                          /\ Token(g)' <=> Token(g)
                          /\ TokenOnce(g)' <=> TokenOnce(g)
    BY Zenon, <1>1 DEF Token, TokenOnce, Expired
  <1>4. \A g \in CbFibers : ~Holds(w, g)
    <2>1. \A g \in Fibers : Holds(w, g) => m_state[g] \in Ended
      BY ZenonT(40), <1>1, SchedulerAssumption DEF Holds
    <2> QED BY ZenonT(40), <1>1, <2>1 DEF HolderInv, Ended, Fibers
  <1>5. HolderInv'
    BY ZenonT(40), <1>1, <1>2, SchedulerAssumption DEF HolderInv, TypeOK, Holding, Busy
  <1>6. HoldOnce'
    BY ZenonT(40), <1>1, <1>2 DEF HoldOnce, TypeOK
  <1>7. TokenInv'
    BY Zenon, <1>1, <1>2, <1>3 DEF TokenInv, TypeOK
  <1>8. SpareInv'
    <2>1. \A v \in Threads, g \in CbFibers : cb_fiber[v] = g => ft'[v] # g
      BY <1>1, SchedulerAssumption DEF SpareInv, TypeOK, Fibers
    <2> QED BY ZenonT(40), <1>1, <1>2, <1>4, <2>1 DEF SpareInv, Fibers
  <1>9. FreeInv'
    BY Zenon, <1>1, <1>2 DEF FreeInv
  <1>10. /\ m_activeThreadCount' = Cardinality(BusyThreads')
         /\ m_activeThreadCount' \in Nat
    BY ZenonT(40), <1>1, ActiveMoves DEF Busy
  <1>11. TypeOK'
    BY Zenon, <1>1, <1>10 DEF TypeOK
  <1> QED BY ZenonT(40), <1>5, <1>6, <1>7, <1>8, <1>9, <1>10, <1>11 DEF ActiveInv, BusyThreads

\* a callback starts on the cb fiber of its worker, new or reset
LEMMA StepRunCallback ==
  ASSUME FiberInv, NEW w \in Threads, RunCallback(w)
  PROVE  FiberInv'
  <1> USE DEF FiberInv
  <1>1. PICK f \in CbFibers :
           /\ IF cb_fiber[w] # nullptr THEN f = cb_fiber[w] ELSE m_state[f] = "FREE"
           /\ cb_fiber' = [cb_fiber EXCEPT ![w] = f]
           /\ m_cb' = [m_cb EXCEPT ![f] = ft[w]]
           /\ m_state' = [m_state EXCEPT ![f] = "EXEC"]
    BY Zenon DEF RunCallback
  <1>2. /\ pc[w] = "took" /\ pc' = [pc EXCEPT ![w] = "exec"] /\ "exec" \in Label
        /\ ft[w] \in Callbacks /\ f \in Fibers
        /\ UNCHANGED <<m_fibers, m_activeThreadCount, m_stopping, ft, idle_fiber,
             armed, cbs, unscheduled, finished, yields>>
    BY Zenon DEF RunCallback, Goto, Label, Fibers
  <1>3. \A g \in Fibers : ~Holds(w, g)
    BY Zenon, <1>2 DEF Holds
  <1>4. /\ m_state[f] \in {"INIT", "FREE"}
        /\ \A v \in Threads : ~Holds(v, f)
        /\ \A v \in Threads : v # w => cb_fiber[v] # f
    BY ZenonT(40), <1>1, <1>2, <1>3 DEF SpareInv, FreeInv
  <1>5. ~Token(f) /\ TokenOnce(f) /\ f \notin unscheduled
    <2>1. f \notin unscheduled
      BY Zenon, SchedulerAssumption DEF TypeOK, Fibers
    <2> QED BY ZenonT(40), <1>2, <1>4, <2>1 DEF TokenInv, Ended
  <1>6. \A v \in Threads, g \in Fibers : Holds(v, g)' <=> (Holds(v, g) \/ (v = w /\ g = f))
    <2>1. \A g \in Fibers : Holds(w, g)' <=> g = f
      BY ZenonT(40), <1>1, <1>2 DEF Holds, Holding, Busy, TypeOK
    <2>2. \A v \in Threads, g \in Fibers : v # w => (Holds(v, g)' <=> Holds(v, g))
      BY Zenon, <1>1, <1>2 DEF Holds, TypeOK
    <2> QED BY ZenonT(40), <1>3, <2>1, <2>2
  <1>7. \A g \in Fibers : /\ Expired(g)' <=> Expired(g)
                          /\ Token(g)' <=> Token(g)
                          /\ TokenOnce(g)' <=> TokenOnce(g)
    BY ZenonT(40), <1>2 DEF Token, TokenOnce, Expired
  <1>8. HolderInv'
    BY SMTT(30), <1>1, <1>2, <1>3, <1>4, <1>5, <1>6 DEF HolderInv, TypeOK, Holding, Busy
  <1>9. HoldOnce'
    BY SMTT(30), <1>1, <1>2, <1>3, <1>4, <1>6 DEF HoldOnce, TypeOK
  <1>10. TokenInv'
    BY SMTT(30), <1>1, <1>2, <1>3, <1>4, <1>5, <1>6, <1>7 DEF TokenInv, TypeOK, Ended
  <1>11. SpareInv'
    <2>1. ft[w] \notin CbFibers
      BY Zenon, <1>2, SchedulerAssumption DEF Fibers
    <2> QED BY SMTT(30), <1>1, <1>2, <1>3, <1>4, <1>6, <2>1 DEF SpareInv, TypeOK, Fibers
  <1>12. FreeInv'
    BY Zenon, <1>1, <1>2, <1>4, <1>6 DEF FreeInv, TypeOK
  <1>13. TypeOK' /\ ActiveInv'
    <2>1. ActiveInv'
      BY Zenon, <1>2, ActiveMoves DEF ActiveInv, BusyThreads, Busy
    <2> QED BY ZenonT(40), <1>1, <1>2, <2>1 DEF TypeOK, FiberState
  <1> QED BY Zenon, <1>8, <1>9, <1>10, <1>11, <1>12, <1>13

\* nothing to take: the idle fiber runs, or the worker leaves run()
LEMMA StepMiss ==
  ASSUME FiberInv, NEW w \in Threads, Miss(w)
  PROVE  FiberInv'
  <1> USE DEF FiberInv
  <1>1. /\ pc[w] = "scan"
        /\ UNCHANGED <<m_fibers, m_activeThreadCount, m_stopping, m_cb, ft, armed,
             cbs, unscheduled, finished, yields>>
    BY ZenonT(40) DEF Miss
  <1>2. CASE idle_fiber[w] # "TERM"
    <2>1. /\ pc' = [pc EXCEPT ![w] = "readTimers"] /\ "readTimers" \in Label
          /\ idle_fiber' = [idle_fiber EXCEPT ![w] = "EXEC"]
          /\ UNCHANGED <<m_state, cb_fiber>>
      BY Zenon, <1>2 DEF Miss, Goto, Label
    <2>2. HolderInv' /\ HoldOnce' /\ TokenInv' /\ SpareInv' /\ FreeInv'
      BY ZenonT(40), <1>1, <2>1, QuietStep DEF Holding, Busy
    <2>3. ActiveInv'
      BY ZenonT(40), <1>1, <2>1, ActiveMoves DEF ActiveInv, BusyThreads, Busy
    <2> QED BY ZenonT(40), <1>1, <2>1, <2>2, <2>3 DEF TypeOK
  <1>3. CASE idle_fiber[w] = "TERM"
    <2>1. /\ pc' = [pc EXCEPT ![w] = "exit"] /\ "exit" \in Label
          /\ idle_fiber' = idle_fiber
          /\ m_state' = [f \in Fibers |-> IF f = cb_fiber[w] THEN "FREE" ELSE m_state[f]]
          /\ cb_fiber' = [cb_fiber EXCEPT ![w] = nullptr]
      BY ZenonT(40), <1>3 DEF Miss, Goto, Label
    <2>2. \A v \in Threads, g \in Fibers : Holds(v, g)' <=> Holds(v, g)
      BY Zenon, <1>1, <2>1 DEF Holds, Holding, Busy, TypeOK
    <2>3. \A g \in Fibers : /\ Expired(g)' <=> Expired(g)
                            /\ Token(g)' <=> Token(g)
                            /\ TokenOnce(g)' <=> TokenOnce(g)
      BY Zenon, <1>1 DEF Token, TokenOnce, Expired
    <2>4. \A f \in Fibers : f = cb_fiber[w] =>
             /\ f \in CbFibers /\ f \notin unscheduled /\ m_state[f] = "INIT"
             /\ ~Token(f) /\ TokenOnce(f)
             /\ \A v \in Threads : ~Holds(v, f) /\ (v # w => cb_fiber[v] # f)
      <3> SUFFICES ASSUME NEW f \in Fibers, f = cb_fiber[w]
                   PROVE  /\ f \in CbFibers /\ f \notin unscheduled /\ m_state[f] = "INIT"
                          /\ ~Token(f) /\ TokenOnce(f)
                          /\ \A v \in Threads : ~Holds(v, f) /\ (v # w => cb_fiber[v] # f)
        OBVIOUS
      <3>1. f \in CbFibers /\ f \notin unscheduled
        BY ZenonT(40), SchedulerAssumption DEF TypeOK, Fibers
      <3>2. ~Holds(w, f)
        BY ZenonT(40), <1>1 DEF Holds, Holding, Busy
      <3>3. /\ m_state[f] = "INIT"
            /\ \A v \in Threads : ~Holds(v, f) /\ (v # w => cb_fiber[v] # f)
        BY Zenon, <3>1, <3>2 DEF SpareInv
      <3> QED BY ZenonT(40), <3>1, <3>3 DEF TokenInv, Ended
    <2>5. HolderInv'
      BY SMTT(30), <1>1, <2>1, <2>2, <2>4 DEF HolderInv, TypeOK, Holding, Busy
    <2>6. HoldOnce'
      <3> SUFFICES ASSUME NEW g \in Fibers, NEW u \in Threads, NEW v \in Threads,
                          u # v, Holds(u, g)', Holds(v, g)'
                   PROVE  /\ m_state'[g] \in Ended /\ g \in UserFibers
                          /\ pc'[u] = "took" \/ pc'[v] = "took"
        BY Zenon DEF HoldOnce
      <3>1. Holds(u, g) /\ Holds(v, g)
        BY Zenon, <2>2
      <3>2. g # cb_fiber[w] /\ u # w /\ v # w
        BY Zenon, <1>1, <2>4, <3>1 DEF Holds, Holding, Busy
      <3>3. m_state'[g] = m_state[g] /\ pc'[u] = pc[u] /\ pc'[v] = pc[v]
        BY ZenonT(40), <2>1, <3>2 DEF TypeOK
      <3> QED BY Zenon, <3>1, <3>3 DEF HoldOnce
    <2>7. TokenInv'
      BY SMTT(30), <1>1, <2>1, <2>2, <2>3, <2>4 DEF TokenInv, TypeOK, Ended
    <2>8. SpareInv'
      BY SMTT(30), <1>1, <2>1, <2>2, <2>4, SchedulerAssumption DEF SpareInv, TypeOK, Fibers
    <2>9. FreeInv'
      BY ZenonT(40), <1>1, <2>1, <2>2, <2>4 DEF FreeInv, TypeOK
    <2>10. ActiveInv'
      BY ZenonT(40), <1>1, <2>1, ActiveMoves DEF ActiveInv, BusyThreads, Busy
    <2>11. TypeOK'
      BY Zenon, <1>1, <2>1 DEF TypeOK, FiberState
    <2> QED BY ZenonT(40), <2>5, <2>6, <2>7, <2>8, <2>9, <2>10, <2>11
  <1> QED BY Zenon, <1>2, <1>3

\* run() looks at the fiber that came back: READY is queued again, an ended
\* one is reset or released, any other becomes HOLD
LEMMA StepPost ==
  ASSUME FiberInv, NEW w \in Threads, Post(w)
  PROVE  FiberInv'
  <1> USE DEF FiberInv
  <1>1. PICK f \in Fibers : Holds(w, f)
    BY Zenon DEF HolderInv, Post, Holding
  <1>2. /\ f = Cur(w) /\ pc[w] = "post" /\ pc' = [pc EXCEPT ![w] = "scan"]
        /\ "scan" \in Label /\ ft' = [ft EXCEPT ![w] = nullptr]
        /\ UNCHANGED <<m_activeThreadCount, m_stopping, idle_fiber, armed, cbs,
             unscheduled, finished, yields>>
    BY Zenon, <1>1 DEF Post, Goto, Label, Holds, Cur
  <1>3. PICK s \in FiberState : s = PostState(w, f)
    BY ZenonT(40) DEF PostState, FiberState, TypeOK
  <1>4. /\ m_state' = [m_state EXCEPT ![f] = s]
        /\ cb_fiber' = IF ft[w] \in Callbacks /\ m_state[f] \notin Ended
                         THEN [cb_fiber EXCEPT ![w] = nullptr] ELSE cb_fiber
        /\ m_cb' = IF f \in CbFibers /\ m_state[f] \in Ended
                     THEN [m_cb EXCEPT ![f] = nullptr] ELSE m_cb
        /\ m_state[f] = "READY" => schedule(f, AnyThread)
        /\ m_state[f] # "READY" => m_fibers' = m_fibers
    BY ZenonT(40), <1>2, <1>3 DEF Post
  <1>5. /\ ft[w] \in Callbacks => f = cb_fiber[w]
        /\ ft[w] \notin Callbacks => f = ft[w]
        /\ m_state[f] \in {"EXEC", "READY"} \cup Ended
        /\ f \notin unscheduled
    BY ZenonT(40), <1>1, <1>2 DEF Holds, HolderInv
  <1>6. \A v \in Threads : v # w /\ Holds(v, f) =>
           m_state[f] \in Ended /\ f \in UserFibers /\ f \notin CbFibers
    BY ZenonT(40), <1>1, SchedulerAssumption DEF HoldOnce
  <1>7. /\ m_state[f] = "READY" => ~Token(f) /\ TokenOnce(f)
        /\ m_state[f] \in Ended /\ f \in CbFibers => ~Token(f) /\ TokenOnce(f)
    <2>1. /\ m_state[f] = "READY" => ~Token(f) /\ TokenOnce(f)
          /\ m_state[f] \in Ended /\ f \in CbFibers => ~Token(f)
      BY Zenon, <1>1 DEF TokenInv, Ended
    <2>2. ~Token(f) => TokenOnce(f)
      BY ZenonT(40) DEF Token, TokenOnce, InQueue, OnceInQueue, Expired
    <2> QED BY ZenonT(40), <2>1, <2>2
  <1>8. /\ m_fibers' \in Seq(Entry)
        /\ \A g : InQueue(m_fibers', g) <=>
                    InQueue(m_fibers, g) \/ (g = f /\ m_state[f] = "READY")
        /\ \A g \in Fibers : OnceInQueue(m_fibers, g) => OnceInQueue(m_fibers', g)
    <2>1. CASE m_state[f] = "READY"
      <3> DEFINE e == [task |-> f, thread |-> AnyThread]
      <3>1. e \in Entry /\ e.task = f /\ m_fibers \in Seq(Entry)
        BY ZenonT(40) DEF Entry, TypeOK, Task
      <3>2. m_fibers' = Append(m_fibers, e)
        BY ZenonT(40), <1>4, <2>1 DEF schedule
      <3> HIDE DEF e
      <3>3. ~InQueue(m_fibers, f)
        BY Zenon, <1>7, <2>1 DEF Token
      <3> QED BY ZenonT(40), <2>1, <3>1, <3>2, <3>3, AppendFacts
    <2>2. CASE m_state[f] # "READY"
      BY ZenonT(40), <1>4, <2>2 DEF TypeOK
    <2> QED BY ZenonT(40), <2>1, <2>2
  <1>9. \A v \in Threads, g \in Fibers : Holds(v, g)' <=> (v # w /\ Holds(v, g))
    <2>1. \A g \in Fibers : ~Holds(w, g)'
      BY Zenon, <1>2 DEF Holds, Holding, Busy, TypeOK
    <2>2. \A v \in Threads, g \in Fibers : v # w => (Holds(v, g)' <=> Holds(v, g))
      BY ZenonT(40), <1>2, <1>4 DEF Holds, TypeOK
    <2> QED BY ZenonT(40), <2>1, <2>2
  <1>10. \A g \in Fibers :
            /\ Expired(g)' <=> Expired(g)
            /\ Token(g)' <=> Token(g) \/ (g = f /\ m_state[f] = "READY")
            /\ TokenOnce(g) => TokenOnce(g)'
    <2>1. \A g \in Fibers : Expired(g)' <=> Expired(g)
      BY Zenon, <1>2 DEF Expired
    <2>2. \A g \in Fibers : Token(g)' <=> Token(g) \/ (g = f /\ m_state[f] = "READY")
      BY ZenonT(40), <1>2, <1>8, <2>1 DEF Token
    <2>3. \A g \in Fibers : TokenOnce(g) => TokenOnce(g)'
      BY ZenonT(40), <1>2, <1>7, <1>8, <2>1 DEF TokenOnce, Token
    <2> QED BY ZenonT(40), <2>1, <2>2, <2>3
  <1>11. /\ m_state[f] = "READY" => s = "READY"
         /\ m_state[f] = "EXEC" => s = "HOLD"
         /\ m_state[f] \in Ended =>
              /\ s = IF ft[w] \in Callbacks THEN "INIT"
                     ELSE IF f \in CbFibers THEN "FREE" ELSE m_state[f]
              /\ ft[w] \in Callbacks => f \in CbFibers
    BY <1>3, <1>5, SchedulerAssumption DEF PostState, Ended, TypeOK
  <1>12. HolderInv'
    <2>1. pc'[w] = "scan" /\ ft'[w] = nullptr /\ cbs'[w] = {}
      BY Zenon, <1>2 DEF TypeOK, HolderInv
    <2>2. \A v \in Threads : v # w => pc'[v] = pc[v] /\ ft'[v] = ft[v] /\ cbs'[v] = cbs[v]
      BY ZenonT(40), <1>2 DEF TypeOK
    <2>3. \A v \in Threads, g \in Fibers : v # w /\ Holds(v, g) => m_state'[g] = m_state[g]
      BY ZenonT(40), <1>4, <1>6, <1>11 DEF TypeOK
    <2>4. unscheduled' = unscheduled
      BY ZenonT(40), <1>2
    <2> SUFFICES ASSUME NEW v \in Threads
                 PROVE  /\ pc'[v] \in Holding <=> ft'[v] # nullptr
                        /\ pc'[v] \in Holding \ {"took"} => \E g \in Fibers : Holds(v, g)'
                        /\ \A g \in Fibers : Holds(v, g)' =>
                             /\ pc'[v] = "took" =>
                                  m_state'[g] \in {"INIT", "HOLD", "READY"} \cup Ended
                             /\ pc'[v] = "exec" => m_state'[g] = "EXEC"
                             /\ pc'[v] \in {"out", "back", "post"} =>
                                  m_state'[g] \in {"EXEC", "READY"} \cup Ended
                             /\ pc'[v] = "took" /\ g \in CbFibers =>
                                  m_state'[g] \in {"HOLD", "READY"}
                             /\ g \notin unscheduled'
                        /\ cbs'[v] # {} => pc'[v] = "expired"
      BY ZenonT(40) DEF HolderInv
    <2>5. CASE v = w
      BY Zenon, <1>9, <2>1, <2>5 DEF Holding, Busy
    <2>6. CASE v # w
      BY SMTT(30), <1>9, <2>2, <2>3, <2>4, <2>6 DEF HolderInv
    <2> QED BY ZenonT(40), <2>5, <2>6
  <1>13. HoldOnce'
    <2> SUFFICES ASSUME NEW g \in Fibers, NEW u \in Threads, NEW v \in Threads,
                        u # v, Holds(u, g)', Holds(v, g)'
                 PROVE  /\ m_state'[g] \in Ended /\ g \in UserFibers
                        /\ pc'[u] = "took" \/ pc'[v] = "took"
      BY Zenon DEF HoldOnce
    <2>1. u # w /\ v # w /\ Holds(u, g) /\ Holds(v, g)
      BY Zenon, <1>9
    <2>2. pc'[u] = pc[u] /\ pc'[v] = pc[v]
      BY ZenonT(40), <1>2, <2>1 DEF TypeOK
    <2>3. m_state[g] \in Ended /\ g \in UserFibers /\ (pc[u] = "took" \/ pc[v] = "took")
      BY Zenon, <2>1 DEF HoldOnce
    <2>4. m_state'[g] = m_state[g]
      <3>1. CASE g = f
        BY ZenonT(40), <1>4, <1>6, <1>11, <2>1, <2>3, <3>1 DEF TypeOK, HoldOnce
      <3>2. CASE g # f
        BY ZenonT(40), <1>4, <3>2 DEF TypeOK
      <3> QED BY Zenon, <3>1, <3>2
    <2> QED BY ZenonT(40), <2>2, <2>3, <2>4
  <1>14. TokenInv'
    <2>1. ASSUME NEW g \in Fibers, g # f
          PROVE  m_state'[g] = m_state[g] /\ (Token(g)' <=> Token(g))
      BY ZenonT(40), <1>4, <1>10, <2>1 DEF TypeOK
    <2>2. m_state'[f] = s
      BY ZenonT(40), <1>4 DEF TypeOK
    <2>3. \A v \in Threads : v # w => pc'[v] = pc[v]
      BY Zenon, <1>2 DEF TypeOK
    <2> SUFFICES ASSUME NEW g \in Fibers
                 PROVE  /\ m_state'[g] \notin Ended => TokenOnce(g)'
                        /\ m_state'[g] \in Ended => armed'[g] = "no" /\ ~Expired(g)'
                        /\ m_state'[g] \in Ended /\ g \in CbFibers => ~Token(g)'
                        /\ m_state'[g] \notin Ended /\ Token(g)' =>
                             /\ \A v \in Threads : Holds(v, g)' =>
                                  m_state'[g] = "EXEC" /\ pc'[v] \in {"out", "back", "post"}
                             /\ g \notin unscheduled'
                             /\ m_state'[g] # "FREE"
                             /\ g \in CbFibers => m_state'[g] # "INIT"
                        /\ g \in unscheduled' => m_state'[g] = "INIT"
      BY ZenonT(40) DEF TokenInv
    <2>4. CASE g # f
      BY ZenonT(40), <1>2, <1>9, <1>10, <2>1, <2>3, <2>4 DEF TokenInv
    <2>5. CASE g = f /\ m_state[f] \in {"READY", "EXEC"}
      BY Zenon, <1>2, <1>5, <1>6, <1>9, <1>10, <1>11, <2>2, <2>5 DEF TokenInv, Ended
    <2>6. CASE g = f /\ m_state[f] \in Ended
      BY Zenon, <1>2, <1>5, <1>6, <1>7, <1>9, <1>10, <1>11, <2>2, <2>6 DEF TokenInv, Ended
    <2> QED BY Zenon, <1>5, <2>4, <2>5, <2>6
  <1>15. SpareInv'
    <2>1. \A v \in Threads : cb_fiber[v] = f /\ f \in CbFibers => v = w /\ ft[w] \in Callbacks
      BY ZenonT(40), <1>1, <1>5 DEF SpareInv
    <2>2. \A v \in Threads, g \in CbFibers : cb_fiber'[v] = g => cb_fiber[v] = g
      BY ZenonT(40), <1>4, SchedulerAssumption DEF TypeOK, Fibers
    <2>3. \A v \in Threads, g \in CbFibers : cb_fiber'[v] = g =>
             /\ g # f => m_state'[g] = m_state[g]
             /\ g = f => v = w /\ m_state'[g] = "INIT"
             /\ ft'[v] # g
      <3> SUFFICES ASSUME NEW v \in Threads, NEW g \in CbFibers, cb_fiber'[v] = g
                   PROVE  /\ g # f => m_state'[g] = m_state[g]
                          /\ g = f => v = w /\ m_state'[g] = "INIT"
                          /\ ft'[v] # g
        OBVIOUS
      <3>1. cb_fiber[v] = g /\ ft[v] # g
        BY ZenonT(40), <2>2, <1>1 DEF SpareInv
      <3>2. ft'[v] # g
        BY ZenonT(40), <1>2, <1>4, <3>1, SchedulerAssumption DEF TypeOK, Fibers
      <3>3. g # f => m_state'[g] = m_state[g]
        BY Zenon, <1>4 DEF Fibers, TypeOK
      <3>4. ASSUME g = f PROVE v = w /\ m_state'[g] = "INIT"
        <4>1. v = w /\ ft[w] \in Callbacks
          BY ZenonT(40), <2>1, <3>1, <3>4
        <4>2. m_state[f] \in Ended
          BY ZenonT(40), <1>4, <3>4, <4>1, SchedulerAssumption DEF TypeOK, Fibers
        <4>3. s = "INIT"
          BY ZenonT(40), <1>11, <4>1, <4>2
        <4> QED BY ZenonT(40), <1>4, <3>4, <4>1, <4>3 DEF TypeOK
      <3> QED BY ZenonT(40), <3>2, <3>3, <3>4
    <2>4. \A g \in CbFibers : g \in Fibers /\ (g # f => ~Holds(w, g))
      BY Zenon, <1>1, <1>2 DEF Fibers, Holds
    <2> SUFFICES ASSUME NEW v \in Threads, NEW g \in CbFibers, cb_fiber'[v] = g
                 PROVE  /\ \A u \in Threads : u # v => cb_fiber'[u] # g /\ ~Holds(u, g)'
                        /\ m_state'[g] # "FREE" /\ ft'[v] # g
                        /\ ~Holds(v, g)' => m_state'[g] = "INIT"
      BY ZenonT(40) DEF SpareInv
    <2>5. /\ cb_fiber[v] = g
          /\ \A u \in Threads : u # v => cb_fiber[u] # g /\ ~Holds(u, g)
          /\ m_state[g] # "FREE"
          /\ ~Holds(v, g) => m_state[g] = "INIT"
      BY ZenonT(40), <2>2 DEF SpareInv
    <2>6. \A u \in Threads : u # v => cb_fiber'[u] # g /\ ~Holds(u, g)'
      BY Zenon, <1>9, <2>2, <2>4, <2>5
    <2>7. m_state'[g] # "FREE" /\ ft'[v] # g
      BY ZenonT(40), <2>3, <2>5
    <2>8. ~Holds(v, g)' => m_state'[g] = "INIT"
      BY ZenonT(40), <1>9, <2>3, <2>4, <2>5
    <2> QED BY ZenonT(40), <2>6, <2>7, <2>8
  <1>16. FreeInv'
    <2>1. m_state'[f] = s /\ \A g \in Fibers : g # f => m_state'[g] = m_state[g]
      BY Zenon, <1>4 DEF TypeOK
    <2>2. \A g \in CbFibers : g # f => m_cb'[g] = m_cb[g]
      BY Zenon, <1>4 DEF TypeOK
    <2>3. f \in CbFibers /\ m_state[f] \notin Ended => m_cb'[f] \in Callbacks
      BY ZenonT(40), <1>4, <1>5 DEF FreeInv
    <2>4. s = "FREE" => f \in CbFibers /\ m_state[f] \in Ended
      BY ZenonT(40), <1>5, <1>11 DEF Ended
    <2>5. m_state[f] \in Ended /\ f \in CbFibers => s \notin {"HOLD", "EXEC", "READY"}
      BY Zenon, <1>11
    <2> QED BY ZenonT(40), <1>6, <1>9, <2>1, <2>2, <2>3, <2>4, <2>5 DEF FreeInv
  <1>17. TypeOK' /\ ActiveInv'
    <2>1. ActiveInv'
      BY Zenon, <1>2, ActiveMoves DEF ActiveInv, BusyThreads, Busy
    <2> QED BY ZenonT(40), <1>2, <1>4, <1>8, <2>1 DEF TypeOK
  <1> QED BY ZenonT(40), <1>12, <1>13, <1>14, <1>15, <1>16, <1>17

=============================================================================
