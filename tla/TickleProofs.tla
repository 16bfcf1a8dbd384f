---------------------------- MODULE TickleProofs ----------------------------
(***************************************************************************)
(* Proofs about Tickle, for any number of workers, clients and timers: a   *)
(* timer that waits is watched, although m_tickled lets one tickle stand   *)
(* for many insertions and tickle() writes nothing when no worker is idle. *)
(***************************************************************************)
EXTENDS Tickle, FiniteSetTheorems, SequenceTheorems, WellFoundedInduction, TLAPS

Idle == {w \in Workers : pc[w] \in IdleSection}

Awake == \E w \in Workers : ~Asleep(w)

Earliest(S) == CHOOSE t \in S : \A u \in S : t <= u

\* the choice in getNextTimer() is the first of the times
LEMMA EarliestFacts ==
  ASSUME NEW S \in SUBSET Nat, S # {}
  PROVE  Earliest(S) \in S /\ \A u \in S : Earliest(S) <= u
  <1>1. PICK x \in S : \A y \in S : <<y, x>> \notin OpToRel(<, Nat)
    BY ZenonT(40), NatLessThanWellFounded, WFMin
  <1>2. \A y \in S : ~(y < x)
    BY <1>1 DEF OpToRel
  <1>3. \A y \in S : x <= y
    BY <1>2
  <1> QED BY Zenon, <1>3 DEF Earliest

\* one thread moves: who is idle, and how many
LEMMA IdleMoves ==
  ASSUME TypeOK, NEW p \in Workers \cup Clients, NEW l \in Label,
         pc' = [pc EXCEPT ![p] = l]
  PROVE  /\ pc' \in [Workers \cup Clients -> Label]
         /\ p \in Workers /\ pc[p] \in IdleSection /\ l \notin IdleSection =>
              Cardinality(Idle') = m_idleThreadCount - 1 /\ m_idleThreadCount - 1 \in Nat
         /\ p \in Workers /\ pc[p] \notin IdleSection /\ l \in IdleSection =>
              Cardinality(Idle') = m_idleThreadCount + 1
         /\ (p \in Workers => (pc[p] \in IdleSection <=> l \in IdleSection)) =>
              Cardinality(Idle') = m_idleThreadCount
  <1>1. IsFiniteSet(Idle) /\ m_idleThreadCount = Cardinality(Idle)
    BY ZenonT(40), TickleAssumption, FS_Subset DEF Idle, TypeOK
  <1>2. pc' \in [Workers \cup Clients -> Label]
    BY ZenonT(40) DEF TypeOK
  <1>3. pc'[p] = l /\ \A q \in Workers \cup Clients : q # p => pc'[q] = pc[q]
    BY ZenonT(40) DEF TypeOK
  <1>4. ASSUME p \in Workers, pc[p] \in IdleSection, l \notin IdleSection
        PROVE  Cardinality(Idle') = m_idleThreadCount - 1 /\ m_idleThreadCount - 1 \in Nat
    <2>1. Idle' = Idle \ {p} /\ p \in Idle
      BY ZenonT(40), <1>3, <1>4 DEF Idle
    <2>2. IsFiniteSet(Idle \ {p}) /\ Cardinality(Idle \ {p}) = Cardinality(Idle) - 1
      BY ZenonT(40), <1>1, <2>1, FS_RemoveElement
    <2>3. Cardinality(Idle \ {p}) \in Nat
      BY ZenonT(40), <2>2, FS_CardinalityType
    <2> QED BY Zenon, <1>1, <2>1, <2>2, <2>3
  <1>5. ASSUME p \in Workers, pc[p] \notin IdleSection, l \in IdleSection
        PROVE  Cardinality(Idle') = m_idleThreadCount + 1
    <2>1. Idle' = Idle \cup {p} /\ p \notin Idle
      BY ZenonT(40), <1>3, <1>5 DEF Idle
    <2> QED BY ZenonT(40), <1>1, <2>1, FS_AddElement
  <1>6. ASSUME p \in Workers => (pc[p] \in IdleSection <=> l \in IdleSection)
        PROVE  Cardinality(Idle') = m_idleThreadCount
    <2>1. Idle' = Idle
      BY ZenonT(40), <1>3, <1>6 DEF Idle
    <2> QED BY ZenonT(40), <1>1, <2>1
  <1> QED BY ZenonT(40), <1>2, <1>4, <1>5, <1>6

\* m_idleThreadCount = 0 means that nobody is in epoll_wait, and there is a
\* worker: somebody is awake
LEMMA NobodyIdle ==
  ASSUME TypeOK, m_idleThreadCount = 0
  PROVE  \A w \in Workers : pc[w] \notin IdleSection
  <1>1. IsFiniteSet(Idle) /\ Cardinality(Idle) = 0
    BY ZenonT(40), TickleAssumption, FS_Subset DEF Idle, TypeOK
  <1>2. Idle = {}
    BY ZenonT(40), <1>1, FS_EmptySet
  <1> QED BY ZenonT(40), <1>2 DEF Idle

\* while somebody is awake, or will be woken, there is nothing to show
LEMMA AwakeSuffices ==
  ASSUME Awake \/ TickleDue
  PROVE  TimerIsWatched /\ TickledInv
  BY ZenonT(40) DEF Awake, TimerIsWatched, TickledInv

-----------------------------------------------------------------------------
(* TypeOK, one lemma per kind of step.                                     *)

\* tickle(): nothing but its own place and the pipe
LEMMA TypesTickle ==
  ASSUME TypeOK, NEW p \in Workers \cup Clients, hasIdleThreads(p) \/ writePipe(p)
  PROVE  TypeOK'
  <1>1. /\ UNCHANGED <<m_fibers, m_idleThreadCount, m_timers, m_tickled, until, reading, pushes>>
        /\ pipe' \in BOOLEAN
    BY ZenonT(40) DEF hasIdleThreads, writePipe, TypeOK
  <1>2. PICK l \in Label : /\ pc' = [pc EXCEPT ![p] = l]
                           /\ pc[p] \in IdleSection <=> l \in IdleSection
    <2>1. CASE pc[p] \in {"tickle", "write"}
      <3>1. pc' = [pc EXCEPT ![p] = "ready"] \/ pc' = [pc EXCEPT ![p] = "write"]
        BY <2>1 DEF hasIdleThreads, writePipe, After, Goto
      <3> QED BY ZenonT(40), <2>1, <3>1 DEF Label, InTickle, IdleSection
    <2>2. CASE pc[p] \in {"tickleRun", "writeRun"}
      <3>1. pc' = [pc EXCEPT ![p] = "run"] \/ pc' = [pc EXCEPT ![p] = "writeRun"]
        BY <2>2 DEF hasIdleThreads, writePipe, After, Goto
      <3> QED BY ZenonT(40), <2>2, <3>1 DEF Label, InTickle, IdleSection
    <2>3. CASE pc[p] \in {"tickleEnter", "writeEnter"}
      <3>1. pc' = [pc EXCEPT ![p] = "enter"] \/ pc' = [pc EXCEPT ![p] = "writeEnter"]
        BY <2>3 DEF hasIdleThreads, writePipe, After, Goto
      <3> QED BY ZenonT(40), <2>3, <3>1 DEF Label, InTickle, IdleSection
    <2>4. CASE pc[p] \in {"tickleExpired", "writeExpired"}
      <3>1. pc' = [pc EXCEPT ![p] = "results"] \/ pc' = [pc EXCEPT ![p] = "writeExpired"]
        BY <2>4 DEF hasIdleThreads, writePipe, After, Goto
      <3> QED BY ZenonT(40), <2>4, <3>1 DEF Label, InTickle, IdleSection
    <2> QED BY ZenonT(40), <2>1, <2>2, <2>3, <2>4 DEF hasIdleThreads, writePipe
  <1>3. pc' \in [Workers \cup Clients -> Label] /\ Cardinality(Idle') = m_idleThreadCount
    BY ZenonT(40), <1>2, IdleMoves
  <1> QED BY ZenonT(40), <1>1, <1>3 DEF TypeOK, Idle

\* schedule() and addTimer()
LEMMA TypesClient ==
  ASSUME TypeOK, NEW c \in Clients,
         (\E thr \in Pins : schedule(c, thr)) \/ (\E t \in Times : addTimer(c, t))
  PROVE  TypeOK'
  <1>1. /\ UNCHANGED <<m_idleThreadCount, pipe, until, reading>>
        /\ pc' = [pc EXCEPT ![c] = "tickle"] \/ pc' = [pc EXCEPT ![c] = "ready"]
    BY ZenonT(40) DEF schedule, addTimer, Goto
  <1>2. PICK l \in Label : pc' = [pc EXCEPT ![c] = l]
    BY ZenonT(40), <1>1 DEF Label, InTickle
  <1>3. pc' \in [Workers \cup Clients -> Label] /\ Cardinality(Idle') = m_idleThreadCount
    BY ZenonT(40), <1>2, TickleAssumption, IdleMoves
  <1>4. /\ m_fibers' \in Seq(Workers \cup {AnyThread})
        /\ m_timers' \subseteq Times /\ m_tickled' \in BOOLEAN /\ pushes' \in 0..MaxPushes
    <2>1. ASSUME NEW thr \in Pins, schedule(c, thr)
          PROVE  /\ m_fibers' \in Seq(Workers \cup {AnyThread})
                 /\ m_timers' \subseteq Times /\ m_tickled' \in BOOLEAN
                 /\ pushes' \in 0..MaxPushes
      BY <2>1, TickleAssumption DEF schedule, TypeOK
    <2>2. ASSUME NEW t \in Times, addTimer(c, t)
          PROVE  /\ m_fibers' \in Seq(Workers \cup {AnyThread})
                 /\ m_timers' \subseteq Times /\ m_tickled' \in BOOLEAN
                 /\ pushes' \in 0..MaxPushes
      <3>1. m_tickled' \in BOOLEAN
        BY ZenonT(40), <2>2 DEF addTimer, TypeOK
      <3> QED BY ZenonT(40), <2>2, <3>1 DEF addTimer, TypeOK
    <2> QED BY Zenon, <2>1, <2>2
  <1> QED BY ZenonT(40), <1>1, <1>3, <1>4 DEF TypeOK, Idle

\* run() and the idle fiber
LEMMA TypesWorker ==
  ASSUME TypeOK, NEW w \in Workers,
         \/ take(w) \/ miss(w) \/ finish(w) \/ enterIdle(w) \/ getNextTimer(w)
         \/ tickled(w) \/ timeout(w) \/ listExpiredCb(w) \/ drainPipe(w) \/ leaveIdle(w)
  PROVE  TypeOK'
  <1> USE DEF TypeOK
  <1>1. CASE miss(w) \/ finish(w)
    <2>1. PICK l \in {"tickleEnter", "enter", "scan"} : pc' = [pc EXCEPT ![w] = l]
      BY ZenonT(40), <1>1 DEF miss, finish, Goto
    <2>2. l \in Label /\ l \notin IdleSection /\ pc[w] \notin IdleSection
      BY ZenonT(40), <1>1 DEF miss, finish, Label, InTickle, IdleSection
    <2>3. pc' \in [Workers \cup Clients -> Label] /\ Cardinality(Idle') = m_idleThreadCount
      BY ZenonT(40), <2>1, <2>2, IdleMoves
    <2> QED BY ZenonT(40), <1>1, <2>3 DEF miss, finish, Idle
  <1>2. CASE take(w)
    <2>1. PICK i \in 1..Len(m_fibers) : m_fibers' = RemoveAt(m_fibers, i)
      BY ZenonT(40), <1>2 DEF take
    <2>2. m_fibers' \in Seq(Workers \cup {AnyThread})
      <3> DEFINE a == SubSeq(m_fibers, 1, i-1)
                 b == SubSeq(m_fibers, i+1, Len(m_fibers))
      <3>1. a \in Seq(Workers \cup {AnyThread}) /\ b \in Seq(Workers \cup {AnyThread})
        OBVIOUS
      <3>2. m_fibers' = a \o b
        BY Zenon, <2>1 DEF RemoveAt
      <3> HIDE DEF a, b
      <3> QED BY ZenonT(40), <3>1, <3>2, ConcatProperties
    <2>3. PICK l \in {"tickleRun", "run"} : pc' = [pc EXCEPT ![w] = l]
      BY ZenonT(40), <1>2 DEF take, Goto
    <2>4. l \in Label /\ l \notin IdleSection /\ pc[w] \notin IdleSection
      BY ZenonT(40), <1>2 DEF take, Label, InTickle, IdleSection
    <2>5. pc' \in [Workers \cup Clients -> Label] /\ Cardinality(Idle') = m_idleThreadCount
      BY ZenonT(40), <2>3, <2>4, IdleMoves
    <2> QED BY ZenonT(40), <1>2, <2>2, <2>5 DEF take, Idle
  <1>3. CASE enterIdle(w)
    <2>1. /\ pc' = [pc EXCEPT ![w] = "getNextTimer"] /\ pc[w] \notin IdleSection
          /\ "getNextTimer" \in Label /\ "getNextTimer" \in IdleSection
      BY ZenonT(40), <1>3 DEF enterIdle, Goto, Label, IdleSection
    <2>2. /\ pc' \in [Workers \cup Clients -> Label]
          /\ Cardinality(Idle') = m_idleThreadCount + 1
      BY ZenonT(40), <2>1, IdleMoves
    <2>3. m_idleThreadCount' = m_idleThreadCount + 1 /\ m_idleThreadCount' \in Nat
      BY <1>3 DEF enterIdle
    <2> QED BY ZenonT(40), <1>3, <2>2, <2>3 DEF enterIdle, Idle
  <1>4. CASE leaveIdle(w)
    <2>1. /\ pc' = [pc EXCEPT ![w] = "scan"] /\ pc[w] \in IdleSection
          /\ "scan" \in Label /\ "scan" \notin IdleSection
      BY ZenonT(40), <1>4 DEF leaveIdle, Goto, Label, IdleSection
    <2>2. /\ pc' \in [Workers \cup Clients -> Label]
          /\ Cardinality(Idle') = m_idleThreadCount - 1 /\ m_idleThreadCount - 1 \in Nat
      BY ZenonT(40), <2>1, IdleMoves
    <2> QED BY ZenonT(40), <1>4, <2>2 DEF leaveIdle, Idle
  <1>5. CASE getNextTimer(w) \/ tickled(w) \/ timeout(w) \/ drainPipe(w)
    <2>1. PICK l \in {"epoll", "expire", "leave"} : pc' = [pc EXCEPT ![w] = l]
      BY ZenonT(40), <1>5 DEF getNextTimer, tickled, timeout, drainPipe, Goto
    <2>2. l \in Label /\ l \in IdleSection /\ pc[w] \in IdleSection
      BY ZenonT(40), <1>5 DEF getNextTimer, tickled, timeout, drainPipe, Label, IdleSection
    <2>3. pc' \in [Workers \cup Clients -> Label] /\ Cardinality(Idle') = m_idleThreadCount
      BY ZenonT(40), <2>1, <2>2, IdleMoves
    <2>4. /\ until' \in [Workers -> Times \cup {MaxTimeout}] /\ m_tickled' \in BOOLEAN
          /\ UNCHANGED <<m_fibers, m_idleThreadCount, m_timers, pushes>>
      <3>1. Earliest(m_timers \cup {MaxTimeout}) \in Times \cup {MaxTimeout}
        <4>1. m_timers \cup {MaxTimeout} \in SUBSET Nat /\ m_timers \cup {MaxTimeout} # {}
          BY TickleAssumption
        <4>2. Earliest(m_timers \cup {MaxTimeout}) \in m_timers \cup {MaxTimeout}
          BY Zenon, <4>1, EarliestFacts
        <4> QED BY Zenon, <4>2
      <3> QED BY ZenonT(40), <1>5, <3>1 DEF getNextTimer, tickled, timeout, drainPipe, Earliest
    <2>5. pipe' \in BOOLEAN /\ reading' \subseteq Workers
      BY ZenonT(40), <1>5 DEF getNextTimer, tickled, timeout, drainPipe
    <2> QED BY ZenonT(40), <2>3, <2>4, <2>5 DEF Idle
  <1>6. CASE listExpiredCb(w)
    <2>1. PICK l \in {"tickleExpired", "results"} : pc' = [pc EXCEPT ![w] = l]
      BY ZenonT(40), <1>6 DEF listExpiredCb, Goto
    <2>2. l \in Label /\ l \in IdleSection /\ pc[w] \in IdleSection
      BY ZenonT(40), <1>6 DEF listExpiredCb, Label, IdleSection
    <2>3. pc' \in [Workers \cup Clients -> Label] /\ Cardinality(Idle') = m_idleThreadCount
      BY ZenonT(40), <2>1, <2>2, IdleMoves
    <2>4. PICK E \in SUBSET m_timers :
            /\ m_timers' = m_timers \ E
            /\ m_fibers' = m_fibers \o [i \in 1..Cardinality(E) |-> AnyThread]
      BY ZenonT(40), <1>6 DEF listExpiredCb
    <2>5. Cardinality(E) \in Nat
      BY ZenonT(40), TickleAssumption, FS_Subset, FS_CardinalityType
    <2>6. m_fibers' \in Seq(Workers \cup {AnyThread})
      <3>1. [i \in 1..Cardinality(E) |-> AnyThread] \in Seq(Workers \cup {AnyThread})
        BY <2>5
      <3> QED BY ZenonT(40), <2>4, <3>1, ConcatProperties
    <2> QED BY ZenonT(40), <1>6, <2>3, <2>4, <2>6 DEF listExpiredCb, Idle
  <1> QED BY ZenonT(40), <1>1, <1>2, <1>3, <1>4, <1>5, <1>6

-----------------------------------------------------------------------------
(* The protocol                                                            *)

\* a worker that does anything but go to sleep is awake
LEMMA WorkerAwake ==
  ASSUME TypeOK, NEW w \in Workers, Worker(w), ~getNextTimer(w)
  PROVE  Awake'
  <1>1. PICK l : l # "epoll" /\ pc' = [pc EXCEPT ![w] = l]
    <2>1. CASE hasIdleThreads(w) \/ writePipe(w)
      BY <2>1 DEF hasIdleThreads, writePipe, After, Goto
    <2>2. CASE take(w) \/ miss(w) \/ finish(w) \/ enterIdle(w)
      BY ZenonT(40), <2>2 DEF take, miss, finish, enterIdle, Goto
    <2>3. CASE \/ tickled(w) \/ timeout(w) \/ listExpiredCb(w) \/ drainPipe(w)
               \/ leaveIdle(w)
      BY ZenonT(40), <2>3 DEF tickled, timeout, listExpiredCb, drainPipe, leaveIdle, Goto
    <2> QED BY ZenonT(40), <2>1, <2>2, <2>3 DEF Worker
  <1>2. pc'[w] = l
    BY ZenonT(40), <1>1 DEF TypeOK
  <1> QED BY ZenonT(40), <1>1, <1>2 DEF Awake, Asleep

\* a worker that goes to sleep wakes up in time for every timer there is
LEMMA SleepsInTime ==
  ASSUME TypeOK, NEW w \in Workers, getNextTimer(w)
  PROVE  TimerIsWatched' /\ TickledInv'
  <1>1. /\ ~m_tickled' /\ m_timers' = m_timers
        /\ until' = [until EXCEPT ![w] = Earliest(m_timers \cup {MaxTimeout})]
    BY ZenonT(40) DEF getNextTimer, Earliest
  <1>2. \A t \in m_timers : Earliest(m_timers \cup {MaxTimeout}) <= t
    BY ZenonT(40), TickleAssumption, EarliestFacts DEF TypeOK
  <1>3. until'[w] = Earliest(m_timers \cup {MaxTimeout})
    BY ZenonT(40), <1>1 DEF TypeOK
  <1>4. \A t \in m_timers' : until'[w] <= t
    BY ZenonT(40), <1>1, <1>2, <1>3
  <1> QED BY ZenonT(40), <1>1, <1>4 DEF TimerIsWatched, TickledInv

\* a client that wakes nobody adds a timer that is watched already
LEMMA ClientKeeps ==
  ASSUME TickleInv, NEW c \in Clients, Client(c)
  PROVE  TimerIsWatched' /\ TickledInv'
  <1> USE DEF TickleInv
  <1>1. PICK l : /\ pc' = [pc EXCEPT ![c] = l]
                 /\ pc'[c] = l /\ \A p \in Workers \cup Clients : p # c => pc'[p] = pc[p]
    BY ZenonT(40) DEF Client, schedule, addTimer, hasIdleThreads, writePipe, Goto, TypeOK
  <1>2. /\ until' = until
        /\ \A w \in Workers : Asleep(w)' <=> Asleep(w)
    BY ZenonT(40), <1>1, TickleAssumption DEF Client, schedule, addTimer, hasIdleThreads,
         writePipe, Asleep
  <1>3. CASE pipe'
    BY ZenonT(40), <1>3, AwakeSuffices DEF TickleDue, TimerIsWatched, TickledInv
  <1>4. CASE l \in InTickle
    <2>1. TickleDue'
      BY ZenonT(40), <1>1, <1>4 DEF TickleDue
    <2> QED BY ZenonT(40), <2>1 DEF TimerIsWatched, TickledInv
  <1>5. ASSUME NEW thr \in Pins, schedule(c, thr)
        PROVE  TimerIsWatched' /\ TickledInv'
    <2>1. pc[c] = "ready" /\ UNCHANGED <<m_timers, m_tickled, pipe>>
      BY ZenonT(40), <1>5 DEF schedule
    <2>2. TickleDue => TickleDue'
      BY ZenonT(40), <1>1, <2>1 DEF TickleDue, InTickle
    <2> QED BY ZenonT(40), <1>2, <2>1, <2>2 DEF TimerIsWatched, TickledInv
  <1>6. ASSUME NEW t \in Times, addTimer(c, t)
        PROVE  TimerIsWatched' /\ TickledInv'
    <2>1. /\ pc[c] = "ready" /\ UNCHANGED pipe /\ m_timers' = m_timers \cup {t}
      BY ZenonT(40), <1>6 DEF addTimer
    <2>2. TickleDue => TickleDue'
      BY ZenonT(40), <1>1, <2>1 DEF TickleDue, InTickle
    <2>3. CASE (\A u \in m_timers : t <= u) /\ ~m_tickled
      <3>1. pc' = [pc EXCEPT ![c] = "tickle"]
        BY ZenonT(40), <1>6, <2>3 DEF addTimer, Goto
      <3>2. pc'[c] = "tickle"
        BY ZenonT(40), <3>1 DEF TypeOK
      <3> QED BY ZenonT(40), <1>1, <1>4, <3>2 DEF InTickle
    <2>4. CASE m_tickled
      <3>1. Awake' \/ TickleDue'
        BY ZenonT(40), <1>2, <2>2, <2>4 DEF TickledInv, Awake
      <3> QED BY ZenonT(40), <3>1 DEF TimerIsWatched, TickledInv, Awake
    <2>5. CASE ~m_tickled /\ ~\A u \in m_timers : t <= u
      <3>1. PICK u \in m_timers : ~(t <= u)
        BY ZenonT(40), <2>5
      <3>2. t \in Nat /\ u \in Nat /\ MaxTimeout \in Nat /\ \A w \in Workers : until[w] \in Nat
        BY ZenonT(40), TickleAssumption DEF TypeOK
      <3>3. t <= MaxTimeout => u <= MaxTimeout
        BY <3>1, <3>2
      <3>4. \A w \in Workers : until[w] <= u => until[w] <= t
        BY <3>1, <3>2
      <3>5. t <= MaxTimeout =>
              (\E w \in Workers : ~Asleep(w) \/ until[w] <= t) \/ TickleDue
        BY ZenonT(40), <3>1, <3>3, <3>4 DEF TimerIsWatched
      <3>6. ~m_tickled'
        BY ZenonT(40), <1>6, <2>5 DEF addTimer
      <3>7. TimerIsWatched'
        BY ZenonT(40), <1>2, <2>1, <2>2, <3>5 DEF TimerIsWatched
      <3> QED BY Zenon, <3>6, <3>7 DEF TickledInv
    <2> QED BY Zenon, <2>3, <2>4, <2>5
  <1>7. CASE hasIdleThreads(c)
    <2>1. CASE m_idleThreadCount = 0
      <3>1. \A w \in Workers : pc[w] \notin IdleSection
        BY ZenonT(40), <2>1, NobodyIdle
      <3>2. Awake'
        BY ZenonT(40), <1>2, <3>1, TickleAssumption DEF Awake, Asleep, IdleSection
      <3> QED BY ZenonT(40), <3>2 DEF TimerIsWatched, TickledInv, Awake
    <2>2. CASE m_idleThreadCount # 0
      <3>1. l \in InTickle
        <4>1. PICK k \in InTickle : pc' = [pc EXCEPT ![c] = k]
          BY <1>7, <2>2 DEF hasIdleThreads, Goto, InTickle
        <4>2. k = l
          BY ZenonT(40), <1>1, <4>1 DEF TypeOK
        <4> QED BY Zenon, <4>2
      <3> QED BY Zenon, <1>4, <3>1
    <2> QED BY Zenon, <2>1, <2>2
  <1>8. CASE writePipe(c)
    BY ZenonT(40), <1>3, <1>8 DEF writePipe
  <1> QED BY ZenonT(40), <1>5, <1>6, <1>7, <1>8 DEF Client

\* TickleInv is inductive
LEMMA NextTickle == TickleInv /\ [Next]_vars => TickleInv'
  <1> SUFFICES ASSUME TickleInv, [Next]_vars PROVE TickleInv'
    OBVIOUS
  <1>1. CASE UNCHANGED vars
    <2>1. TypeOK'
      BY ZenonT(40), <1>1 DEF vars, TickleInv, TypeOK
    <2>2. TimerIsWatched' /\ TickledInv'
      BY ZenonT(40), <1>1 DEF vars, TickleInv, TimerIsWatched, TickledInv, TickleDue, Asleep
    <2> QED BY Zenon, <2>1, <2>2 DEF TickleInv
  <1>2. ASSUME NEW c \in Clients, Client(c) PROVE TickleInv'
    <2>1. TypeOK'
      BY ZenonT(40), <1>2, TypesClient, TypesTickle DEF Client, TickleInv
    <2> QED BY ZenonT(40), <1>2, <2>1, ClientKeeps DEF TickleInv
  <1>3. ASSUME NEW w \in Workers, Worker(w) PROVE TickleInv'
    <2>1. TypeOK'
      BY ZenonT(40), <1>3, TypesWorker, TypesTickle DEF Worker, TickleInv
    <2>2. CASE getNextTimer(w)
      BY ZenonT(40), <2>1, <2>2, SleepsInTime DEF TickleInv
    <2>3. CASE ~getNextTimer(w)
      <3>1. Awake'
        BY ZenonT(40), <1>3, <2>3, WorkerAwake DEF TickleInv
      <3>2. TimerIsWatched' /\ TickledInv'
        BY ZenonT(40), <3>1 DEF Awake, TimerIsWatched, TickledInv
      <3> QED BY Zenon, <2>1, <3>2 DEF TickleInv
    <2> QED BY Zenon, <2>2, <2>3
  <1> QED BY ZenonT(40), <1>1, <1>2, <1>3 DEF Next

\* initially there is no timer and everybody is awake
LEMMA InitTickle == Init => TickleInv
  <1> SUFFICES ASSUME Init PROVE TickleInv
    OBVIOUS
  <1>1. pc \in [Workers \cup Clients -> Label] /\ \A w \in Workers : pc[w] = "scan"
    BY ZenonT(40) DEF Init, Label
  <1>2. Cardinality({w \in Workers : pc[w] \in IdleSection}) = 0
    <2>1. {w \in Workers : pc[w] \in IdleSection} = {}
      BY ZenonT(40), <1>1 DEF IdleSection
    <2> QED BY ZenonT(40), <2>1, FS_EmptySet
  <1>3. m_fibers \in Seq(Workers \cup {AnyThread}) /\ pushes \in 0..MaxPushes
    BY TickleAssumption DEF Init
  <1>4. /\ m_idleThreadCount \in Nat /\ pipe \in BOOLEAN /\ m_tickled \in BOOLEAN
        /\ m_timers \subseteq Times /\ until \in [Workers -> Times \cup {MaxTimeout}]
        /\ reading \subseteq Workers
        /\ m_idleThreadCount = Cardinality({w \in Workers : pc[w] \in IdleSection})
    BY ZenonT(40), <1>2 DEF Init
  <1>5. TypeOK
    BY ZenonT(40), <1>1, <1>3, <1>4 DEF TypeOK
  <1>6. TimerIsWatched /\ TickledInv
    BY ZenonT(40) DEF Init, TimerIsWatched, TickledInv
  <1> QED BY Zenon, <1>5, <1>6 DEF TickleInv

\* the variables keep their types, and m_idleThreadCount, a size_t, never
\* wraps around: it is the number of workers between ++ and --
THEOREM IdleCountExact == Spec => []TypeOK
  <1>1. TickleInv => TypeOK
    BY Zenon DEF TickleInv
  <1> QED BY InitTickle, NextTickle, <1>1, PTL DEF Spec

\* a timer that waits is never left to a worker that sleeps past it
THEOREM TimersAreWatched == Spec => []TimerIsWatched
  <1>1. TickleInv => TimerIsWatched
    BY Zenon DEF TickleInv
  <1> QED BY InitTickle, NextTickle, <1>1, PTL DEF Spec

=============================================================================
