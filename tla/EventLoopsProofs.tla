-------------------------- MODULE EventLoopsProofs --------------------------
(***************************************************************************)
(* Proofs about the event loops.  IOManager, for any number of workers and *)
(* descriptors: the counter and the kernel agree with the contexts, and no *)
(* edge is lost except of an fd that is closed while watched.  FoxRedis,   *)
(* for any number of fibers and commands: no callback follows a pointer to *)
(* the stack of a fiber that has returned.                                 *)
(***************************************************************************)
EXTENDS EventLoops, FiniteSetTheorems, TLAPS

-----------------------------------------------------------------------------
(* The contexts and the kernel                                             *)

\* what the provers need to know of the variables
Types ==
  /\ events \in [Fds -> SUBSET Events]
  /\ m_pendingEventCount \in Int
  /\ results \in [Workers -> SUBSET [fd : Fds, events : SUBSET (Events \cup {"ERR"})]]
  /\ interest \in [Fds -> SUBSET Events]
  /\ ready \in [Fds -> SUBSET (Events \cup {"ERR"})]
  /\ edge \in [Fds -> SUBSET (Events \cup {"ERR"})]

\* the pairs an assignment f of events to descriptors stands for
Pairs(f) == {p \in Fds \X Events : p[2] \in f[p[1]]}

\* a set of events is finite
LEMMA EventsFinite == ASSUME NEW D \in SUBSET Events PROVE IsFiniteSet(D)
  <1>1. IsFiniteSet({"READ", "WRITE"})
    <2>1. IsFiniteSet({"READ"})
      BY Zenon, FS_Singleton
    <2>2. IsFiniteSet({"READ"} \cup {"WRITE"})
      BY Zenon, <2>1, FS_AddElement
    <2>3. {"READ"} \cup {"WRITE"} = {"READ", "WRITE"}
      OBVIOUS
    <2> QED BY Zenon, <2>2, <2>3
  <1> QED BY Zenon, <1>1, FS_Subset, IOManagerAssumption

\* there are finitely many registrations
LEMMA PairsFinite == ASSUME NEW f PROVE IsFiniteSet(Pairs(f))
  <1>1. IsFiniteSet(Fds \X Events)
    BY Zenon, EventsFinite, FS_Product, IOManagerAssumption
  <1> QED BY Zenon, <1>1, FS_Subset DEF Pairs

\* one more event on a descriptor is one more pair
LEMMA PairsAdd ==
  ASSUME NEW f \in [Fds -> SUBSET Events], NEW fd \in Fds, NEW e \in Events,
         e \notin f[fd]
  PROVE  Cardinality(Pairs([f EXCEPT ![fd] = @ \cup {e}])) = Cardinality(Pairs(f)) + 1
  <1>1. Pairs([f EXCEPT ![fd] = @ \cup {e}]) = Pairs(f) \cup {<<fd, e>>}
    BY DEF Pairs
  <1>2. <<fd, e>> \notin Pairs(f)
    BY Zenon DEF Pairs
  <1> QED BY Zenon, <1>1, <1>2, PairsFinite, FS_AddElement

\* taking the events D from a descriptor takes as many pairs
LEMMA PairsRemove ==
  ASSUME NEW f \in [Fds -> SUBSET Events], NEW fd \in Fds, NEW D \in SUBSET f[fd]
  PROVE  Cardinality(Pairs([f EXCEPT ![fd] = @ \ D])) = Cardinality(Pairs(f)) - Cardinality(D)
  <1>1. D \in SUBSET {"READ", "WRITE"}
    BY Zenon, IOManagerAssumption
  <1>2. CASE D = {}
    <2>1. [f EXCEPT ![fd] = @ \ D] = f
      BY Zenon, <1>2
    <2>2. Cardinality(D) = 0 /\ Cardinality(Pairs(f)) \in Nat
      BY Zenon, <1>2, FS_EmptySet, PairsFinite, FS_CardinalityType
    <2>3. Pairs([f EXCEPT ![fd] = @ \ D]) = Pairs(f)
      BY Zenon, <2>1
    <2> QED BY <2>2, <2>3
  <1>3. ASSUME NEW e \in {"READ", "WRITE"}, D = {e}
        PROVE  Cardinality(Pairs([f EXCEPT ![fd] = @ \ D])) = Cardinality(Pairs(f)) - Cardinality(D)
    <2>1. Pairs([f EXCEPT ![fd] = @ \ D]) = Pairs(f) \ {<<fd, e>>}
      BY <1>3 DEF Pairs
    <2>2. <<fd, e>> \in Pairs(f)
      BY Zenon, <1>3 DEF Pairs
    <2> QED BY Zenon, <1>3, <2>1, <2>2, PairsFinite, FS_RemoveElement, FS_Singleton
  <1>4. CASE D = {"READ", "WRITE"}
    <2> DEFINE Rest == Pairs(f) \ {<<fd, "READ">>}
    <2>1. Pairs([f EXCEPT ![fd] = @ \ D]) = Rest \ {<<fd, "WRITE">>}
      BY <1>4 DEF Pairs
    <2>2. <<fd, "READ">> \in Pairs(f) /\ <<fd, "WRITE">> \in Rest
      BY Zenon, <1>4 DEF Pairs
    <2>3. IsFiniteSet(Rest) /\ Cardinality(Rest) = Cardinality(Pairs(f)) - 1
      BY Zenon, <2>2, PairsFinite, FS_RemoveElement
    <2> HIDE DEF Rest
    <2>4. Cardinality(Rest \ {<<fd, "WRITE">>}) = Cardinality(Rest) - 1
      <3>1. PICK x : x = <<fd, "WRITE">>
        OBVIOUS
      <3>2. x \in Rest
        BY Zenon, <2>2, <3>1
      <3>3. Cardinality(Rest \ {x}) = Cardinality(Rest) - 1
        BY Zenon, <2>3, <3>2, FS_RemoveElement
      <3> QED BY Zenon, <3>1, <3>3
    <2>5. Cardinality(D) = 2
      <3>1. D = {"READ"} \cup {"WRITE"} /\ "WRITE" \notin {"READ"}
        BY Zenon, <1>4
      <3>2. IsFiniteSet({"READ"}) /\ Cardinality({"READ"}) = 1
        BY Zenon, FS_Singleton
      <3>3. Cardinality({"READ"} \cup {"WRITE"}) = 1 + 1
        BY Zenon, <3>1, <3>2, FS_AddElement
      <3> QED BY <3>1, <3>3
    <2>6. Cardinality(Pairs(f)) \in Nat
      BY Zenon, PairsFinite, FS_CardinalityType
    <2>7. Cardinality(Rest \ {<<fd, "WRITE">>}) = Cardinality(Pairs(f)) - 2
      BY <2>3, <2>4, <2>6
    <2> QED BY Zenon, <2>1, <2>5, <2>7
  <1> QED BY Zenon, <1>1, <1>2, <1>3, <1>4

-----------------------------------------------------------------------------
(* The invariant                                                           *)

IInv == Types /\ PendingIsRegistered /\ KernelAgrees

\* Registered names the pairs of the contexts
LEMMA RegisteredPairs == Registered = Pairs(events) /\ Registered' = Pairs(events')
  BY Zenon DEF Registered, Pairs

\* ending the events D of a descriptor, by whichever function
LEMMA EndsInv ==
  ASSUME IInv, NEW fd \in Fds, NEW D \in SUBSET events[fd],
         events' = [events EXCEPT ![fd] = @ \ D],
         m_pendingEventCount' = m_pendingEventCount - Cardinality(D),
         epoll_ctl(fd, events[fd] \ D),
         results' \in [Workers -> SUBSET [fd : Fds, events : SUBSET (Events \cup {"ERR"})]]
  PROVE  IInv'
  <1> USE DEF IInv
  <1>1. events \in [Fds -> SUBSET Events] /\ m_pendingEventCount \in Int
    BY Zenon DEF Types
  <1>2. D \in SUBSET Events /\ Cardinality(D) \in Nat
    BY Zenon, <1>1, EventsFinite, FS_CardinalityType
  <1>3. Types'
    BY <1>1, <1>2 DEF Types, epoll_ctl, Reported
  <1>4. PendingIsRegistered'
    <2>1. Cardinality(Pairs(events')) = Cardinality(Pairs(events)) - Cardinality(D)
      BY Zenon, <1>1, PairsRemove
    <2> QED BY Zenon, <2>1, RegisteredPairs DEF PendingIsRegistered
  <1>5. KernelAgrees'
    <2>1. interest \in [Fds -> SUBSET Events]
      BY Zenon DEF Types
    <2> QED BY Zenon, <1>1, <2>1 DEF KernelAgrees, epoll_ctl
  <1> QED BY Zenon, <1>3, <1>4, <1>5

\* initially nothing is registered or watched
LEMMA InitIInv == Init => IInv
  <1> SUFFICES ASSUME Init PROVE IInv
    OBVIOUS
  <1>1. Types /\ KernelAgrees
    BY DEF Init, Types, KernelAgrees
  <1>2. Registered = {}
    BY Zenon DEF Init, Registered
  <1>3. PendingIsRegistered
    BY Zenon, <1>2, FS_EmptySet DEF Init, PendingIsRegistered
  <1> QED BY Zenon, <1>1, <1>3 DEF IInv

\* addEvent registers one event more
LEMMA StepAddEvent ==
  ASSUME IInv, NEW fd \in Fds, NEW e \in Events, addEvent(fd, e)
  PROVE  IInv'
  <1> USE DEF IInv
  <1>1. events \in [Fds -> SUBSET Events] /\ m_pendingEventCount \in Int
    BY Zenon DEF Types
  <1>2. events' = [events EXCEPT ![fd] = @ \cup {e}]
    BY Zenon DEF addEvent
  <1>3. Types'
    BY <1>1 DEF Types, addEvent, epoll_ctl, Reported
  <1>4. Cardinality(Pairs(events')) = Cardinality(Pairs(events)) + 1
    <2>1. e \notin events[fd]
      BY Zenon DEF addEvent
    <2>2. Cardinality(Pairs([events EXCEPT ![fd] = @ \cup {e}])) = Cardinality(Pairs(events)) + 1
      BY Zenon, <1>1, <2>1, PairsAdd
    <2> QED BY Zenon, <1>2, <2>2
  <1>5. PendingIsRegistered'
    <2>1. m_pendingEventCount' = m_pendingEventCount + 1
      BY Zenon DEF addEvent
    <2> QED BY Zenon, <1>4, <2>1, RegisteredPairs DEF PendingIsRegistered
  <1>6. KernelAgrees'
    <2>1. interest \in [Fds -> SUBSET Events]
      BY Zenon DEF Types
    <2> QED BY Zenon, <1>1, <2>1 DEF KernelAgrees, addEvent, epoll_ctl
  <1> QED BY Zenon, <1>3, <1>5, <1>6

\* delEvent and cancelEvent end one event, cancelAll all of a descriptor
LEMMA StepEnd ==
  ASSUME IInv, NEW fd \in Fds,
         \/ cancelAll(fd)
         \/ \E e \in Events : delEvent(fd, e) \/ cancelEvent(fd, e)
  PROVE  IInv'
  <1>1. CASE cancelAll(fd)
    <2>1. events[fd] \ events[fd] = {} /\ events[fd] \in SUBSET events[fd]
      OBVIOUS
    <2>2. /\ events' = [events EXCEPT ![fd] = @ \ events[fd]]
          /\ m_pendingEventCount' = m_pendingEventCount - Cardinality(events[fd])
          /\ epoll_ctl(fd, events[fd] \ events[fd])
          /\ results' = results
      BY Zenon, <1>1, <2>1 DEF cancelAll
    <2>3. results \in [Workers -> SUBSET [fd : Fds, events : SUBSET (Events \cup {"ERR"})]]
      BY Zenon DEF IInv, Types
    <2> QED BY Zenon, <2>1, <2>2, <2>3, EndsInv
  <1>2. ASSUME NEW e \in Events, delEvent(fd, e) \/ cancelEvent(fd, e)
        PROVE  IInv'
    <2>1. {e} \in SUBSET events[fd] /\ Cardinality({e}) = 1
      BY Zenon, <1>2, FS_Singleton DEF delEvent, cancelEvent
    <2>2. /\ events' = [events EXCEPT ![fd] = @ \ {e}]
          /\ m_pendingEventCount' = m_pendingEventCount - Cardinality({e})
          /\ epoll_ctl(fd, events[fd] \ {e})
          /\ results' = results
      BY Zenon, <1>2, <2>1 DEF delEvent, cancelEvent
    <2>3. results \in [Workers -> SUBSET [fd : Fds, events : SUBSET (Events \cup {"ERR"})]]
      BY Zenon DEF IInv, Types
    <2> QED BY Zenon, <2>1, <2>2, <2>3, EndsInv
  <1> QED BY Zenon, <1>1, <1>2

\* idle() ends those of the reported events that are still registered
LEMMA StepHandle ==
  ASSUME IInv, NEW w \in Workers, NEW r \in results[w], handle(w, r)
  PROVE  IInv'
  <1> DEFINE D == events[r.fd] \cap real_events(r)
  <1>1. /\ r.fd \in Fds
        /\ results' \in [Workers -> SUBSET [fd : Fds, events : SUBSET (Events \cup {"ERR"})]]
    BY DEF IInv, Types, handle
  <1>2. CASE UNCHANGED <<events, m_pendingEventCount, interest, ready, edge, closed>>
    BY Zenon, <1>1, <1>2 DEF IInv, Types, PendingIsRegistered, Registered, KernelAgrees
  <1>3. CASE /\ epoll_ctl(r.fd, events[r.fd] \ real_events(r))
             /\ events' = [events EXCEPT ![r.fd] = @ \ real_events(r)]
             /\ m_pendingEventCount' = m_pendingEventCount - Cardinality(D)
    <2>1. D \in SUBSET events[r.fd] /\ events[r.fd] \ real_events(r) = events[r.fd] \ D
      OBVIOUS
    <2>2. events' = [events EXCEPT ![r.fd] = @ \ D] /\ epoll_ctl(r.fd, events[r.fd] \ D)
      BY Zenon, <1>3, <2>1
    <2> HIDE DEF D
    <2> QED BY Zenon, <1>1, <1>3, <2>1, <2>2, EndsInv
  <1> QED BY Zenon, <1>2, <1>3 DEF handle, kernel

\* no other step touches a context
LEMMA IInvStep == IInv /\ [Next]_vars => IInv'
  <1> SUFFICES ASSUME IInv, [Next]_vars PROVE IInv'
    OBVIOUS
  <1>1. CASE \E fd \in Fds, e \in Events : addEvent(fd, e)
    BY Zenon, <1>1, StepAddEvent
  <1>2. CASE \E fd \in Fds :
               cancelAll(fd) \/ \E e \in Events : delEvent(fd, e) \/ cancelEvent(fd, e)
    BY Zenon, <1>2, StepEnd
  <1>3. CASE \E w \in Workers : \E r \in results[w] : handle(w, r)
    BY Zenon, <1>3, StepHandle
  <1>4. CASE \E w \in Workers : epoll_wait(w)
    <2>1. PICK w \in Workers : epoll_wait(w)
      BY Zenon, <1>4
    <2>2. {[fd |-> fd, events |-> edge[fd]] : fd \in {x \in Fds : edge[x] # {}}}
            \in SUBSET [fd : Fds, events : SUBSET (Events \cup {"ERR"})]
      BY DEF IInv, Types
    <2>3. Types'
      BY Zenon, <2>1, <2>2 DEF IInv, Types, epoll_wait
    <2> QED BY Zenon, <2>1, <2>3 DEF IInv, epoll_wait, PendingIsRegistered, Registered, KernelAgrees
  <1>5. CASE \/ \E fd \in Fds, e \in Events : Resume(fd, e) \/ Drain(fd, e)
             \/ \E fd \in Fds, e \in Events \cup {"ERR"} : BecomeReady(fd, e)
             \/ UNCHANGED vars
    <2>1. UNCHANGED <<events, m_pendingEventCount, results, interest, closed>>
      BY Zenon, <1>5 DEF Resume, Drain, BecomeReady, vars, kernel
    <2>2. /\ ready' \in [Fds -> SUBSET (Events \cup {"ERR"})]
          /\ edge' \in [Fds -> SUBSET (Events \cup {"ERR"})]
      <3>1. CASE \E fd \in Fds, e \in Events : Resume(fd, e)
        BY Zenon, <3>1 DEF IInv, Types, Resume, kernel
      <3>2. CASE \E fd \in Fds, e \in Events : Drain(fd, e)
        BY <3>2 DEF IInv, Types, Drain
      <3>3. ASSUME NEW fd \in Fds, NEW e \in Events \cup {"ERR"}, BecomeReady(fd, e)
            PROVE  /\ ready' \in [Fds -> SUBSET (Events \cup {"ERR"})]
                   /\ edge' \in [Fds -> SUBSET (Events \cup {"ERR"})]
        <4>1. ready' \in [Fds -> SUBSET (Events \cup {"ERR"})]
          BY Zenon, <3>3 DEF IInv, Types, BecomeReady
        <4>2. Reported(interest[fd], ready[fd] \cup {e}) \in SUBSET (Events \cup {"ERR"})
          BY Zenon DEF IInv, Types, Reported
        <4> QED BY Zenon, <3>3, <4>1, <4>2 DEF IInv, Types, BecomeReady
      <3>4. CASE UNCHANGED vars
        BY Zenon, <3>4 DEF IInv, Types, vars
      <3> QED BY Zenon, <1>5, <3>1, <3>2, <3>3, <3>4
    <2> QED BY Zenon, <2>1, <2>2 DEF IInv, Types, PendingIsRegistered, Registered, KernelAgrees
  <1>6. ASSUME NEW x \in Fds, close_f(x) PROVE IInv'
    <2>1. Types'
      BY <1>6 DEF IInv, Types, close_f
    <2>2. interest \in [Fds -> SUBSET Events] /\ UNCHANGED <<events, m_pendingEventCount>>
      BY Zenon, <1>6 DEF IInv, Types, close_f
    <2>3. KernelAgrees'
      BY Zenon, <1>6, <2>2 DEF IInv, KernelAgrees, close_f
    <2> QED BY Zenon, <2>1, <2>2, <2>3 DEF IInv, PendingIsRegistered, Registered
  <1> QED BY Zenon, <1>1, <1>2, <1>3, <1>4, <1>5, <1>6 DEF Next, Client, Idle

-----------------------------------------------------------------------------
(* No edge is lost                                                         *)

\* what NoEdgeLost says of one registration
Wanted(fd, e) ==
  fd \notin closed /\ e \in events[fd] /\ ready[fd] \cap {e, "ERR"} # {}

InList(fd, e) == edge[fd] \cap {e, "ERR"} # {}

InResults(fd, e) ==
  \E w \in Workers : \E r \in results[w] : r.fd = fd /\ r.events \cap {e, "ERR"} # {}

\* NoEdgeLost, in these words, before and after a step
LEMMA EdgeWords ==
  /\ NoEdgeLost <=> (~asserted => \A fd \in Fds, e \in Events :
                       Wanted(fd, e) => InList(fd, e) \/ InResults(fd, e))
  /\ NoEdgeLost' <=> (~asserted' => \A fd \in Fds, e \in Events :
                        Wanted(fd, e)' => InList(fd, e)' \/ InResults(fd, e)')
  BY Zenon DEF NoEdgeLost, Wanted, InList, InResults

\* epoll_ctl looks at the readiness again: what it still watches is queued,
\* and the other descriptors are as before
LEMMA CtlEdge ==
  ASSUME Types, NEW x \in Fds, NEW new \in SUBSET Events, epoll_ctl(x, new),
         NEW fd \in Fds, NEW e \in Events
  PROVE  /\ fd = x /\ e \in new /\ ready[fd] \cap {e, "ERR"} # {} => InList(fd, e)'
         /\ fd # x => edge'[fd] = edge[fd]
         /\ ready' = ready /\ closed' = closed
  BY Zenon DEF Types, epoll_ctl, Reported, InList

\* a client's call leaves an edge to whoever is still registered
LEMMA EdgeCtl ==
  ASSUME IInv, NEW x \in Fds, NEW new \in SUBSET Events, epoll_ctl(x, new),
         events' = [events EXCEPT ![x] = new], results' = results,
         asserted' = asserted, NoEdgeLost
  PROVE  NoEdgeLost'
  <1> SUFFICES ASSUME ~asserted, NEW fd \in Fds, NEW e \in Events, Wanted(fd, e)'
               PROVE  InList(fd, e)' \/ InResults(fd, e)'
    BY Zenon, EdgeWords
  <1>1. Types
    BY Zenon DEF IInv
  <1>2. ready' = ready /\ events \in [Fds -> SUBSET Events]
    BY Zenon, <1>1, CtlEdge DEF Types
  <1>3. CASE fd = x
    <2>1. e \in new /\ ready[fd] \cap {e, "ERR"} # {}
      BY Zenon, <1>2, <1>3 DEF Wanted
    <2> QED BY Zenon, <1>1, <1>3, <2>1, CtlEdge
  <1>4. CASE fd # x
    <2>1. Wanted(fd, e)
      BY Zenon, <1>1, <1>2, <1>4, CtlEdge DEF Wanted
    <2>2. InList(fd, e) \/ InResults(fd, e)
      BY Zenon, <2>1, EdgeWords
    <2>3. edge'[fd] = edge[fd]
      BY Zenon, <1>1, <1>4, CtlEdge
    <2> QED BY Zenon, <2>2, <2>3 DEF InList, InResults
  <1> QED BY Zenon, <1>3, <1>4

\* idle() hands over what it took, or the kernel looks again
LEMMA EdgeHandle ==
  ASSUME IInv, NoEdgeLost, ~asserted,
         NEW v \in Workers, NEW r \in results[v], handle(v, r)
  PROVE  NoEdgeLost'
  <1> SUFFICES ASSUME NEW fd \in Fds, NEW e \in Events, Wanted(fd, e)'
               PROVE  InList(fd, e)' \/ InResults(fd, e)'
    BY Zenon, EdgeWords
  <1>1. Types /\ r.fd \in Fds /\ events \in [Fds -> SUBSET Events]
    BY DEF IInv, Types
  <1>2. \A w \in Workers : \A q \in results[w] : q # r => q \in results'[w]
    BY Zenon DEF IInv, Types, handle
  <1>3. CASE /\ events[r.fd] \cap real_events(r) = {}
             /\ UNCHANGED <<events, kernel>>
    <2>1. Wanted(fd, e) /\ edge' = edge
      BY Zenon, <1>3 DEF Wanted, kernel
    <2>2. CASE InList(fd, e)
      BY Zenon, <2>1, <2>2 DEF InList
    <2>3. CASE InResults(fd, e)
      <3>1. PICK w \in Workers : \E q \in results[w] :
              q.fd = fd /\ q.events \cap {e, "ERR"} # {}
        BY Zenon, <2>3 DEF InResults
      <3>2. PICK q \in results[w] : q.fd = fd /\ q.events \cap {e, "ERR"} # {}
        BY Zenon, <3>1
      <3>3. q # r
        BY Zenon, <1>3, <2>1, <3>2, IOManagerAssumption DEF real_events, Wanted
      <3> QED BY Zenon, <1>2, <3>2, <3>3 DEF InResults
    <2> QED BY Zenon, <2>1, <2>2, <2>3, EdgeWords
  <1>4. CASE /\ epoll_ctl(r.fd, events[r.fd] \ real_events(r))
             /\ events' = [events EXCEPT ![r.fd] = @ \ real_events(r)]
    <2> DEFINE new == events[r.fd] \ real_events(r)
    <2>1. new \in SUBSET Events /\ epoll_ctl(r.fd, new)
      BY Zenon, <1>1, <1>4
    <2>2. events'[r.fd] = new /\ \A x \in Fds : x # r.fd => events'[x] = events[x]
      BY Zenon, <1>1, <1>4
    <2> HIDE DEF new
    <2>3. ready' = ready
      BY Zenon, <1>1, <2>1, CtlEdge
    <2>4. CASE fd = r.fd
      <3>1. e \in new /\ ready[fd] \cap {e, "ERR"} # {}
        BY Zenon, <2>2, <2>3, <2>4 DEF Wanted
      <3> QED BY Zenon, <1>1, <2>1, <2>4, <3>1, CtlEdge
    <2>5. CASE fd # r.fd
      <3>1. Wanted(fd, e)
        BY Zenon, <1>1, <2>1, <2>2, <2>3, <2>5, CtlEdge DEF Wanted
      <3>2. edge'[fd] = edge[fd]
        BY Zenon, <1>1, <2>1, <2>5, CtlEdge
      <3>3. CASE InList(fd, e)
        BY Zenon, <3>2, <3>3 DEF InList
      <3>4. CASE InResults(fd, e)
        BY Zenon, <1>2, <2>5, <3>4 DEF InResults
      <3> QED BY Zenon, <3>1, <3>3, <3>4, EdgeWords
    <2> QED BY Zenon, <2>4, <2>5
  <1>5. CASE r.fd \in closed /\ UNCHANGED <<events, kernel>>
    <2>1. fd # r.fd /\ Wanted(fd, e) /\ edge' = edge
      BY Zenon, <1>5 DEF kernel, Wanted
    <2>2. CASE InList(fd, e)
      BY Zenon, <2>1, <2>2 DEF InList
    <2>3. CASE InResults(fd, e)
      BY Zenon, <1>2, <2>1, <2>3 DEF InResults
    <2> QED BY Zenon, <2>1, <2>2, <2>3, EdgeWords
  <1> QED BY Zenon, <1>3, <1>4, <1>5 DEF handle

\* epoll_wait hands the ready list over as it is
LEMMA EdgeWait ==
  ASSUME IInv, NoEdgeLost, ~asserted, NEW v \in Workers, epoll_wait(v)
  PROVE  NoEdgeLost'
  <1> SUFFICES ASSUME NEW fd \in Fds, NEW e \in Events, Wanted(fd, e)'
               PROVE  InResults(fd, e)'
    BY Zenon, EdgeWords
  <1>1. Wanted(fd, e)
    BY Zenon DEF epoll_wait, Wanted
  <1>2. results \in [Workers -> SUBSET [fd : Fds, events : SUBSET (Events \cup {"ERR"})]]
    BY Zenon DEF IInv, Types
  <1>3. \A w \in Workers : results[w] \subseteq results'[w]
    BY Zenon, <1>2 DEF epoll_wait
  <1>4. CASE InList(fd, e)
    <2>1. [fd |-> fd, events |-> edge[fd]] \in results'[v]
      BY Zenon, <1>2, <1>4 DEF epoll_wait, InList
    <2> QED BY Zenon, <1>4, <2>1 DEF InList, InResults
  <1>5. CASE InResults(fd, e)
    BY Zenon, <1>3, <1>5 DEF InResults
  <1> QED BY Zenon, <1>1, <1>4, <1>5, EdgeWords

\* every step keeps NoEdgeLost
LEMMA EdgeStep ==
  ASSUME IInv, NoEdgeLost, [Next]_vars
  PROVE  NoEdgeLost'
  <1>1. /\ events \in [Fds -> SUBSET Events]
        /\ \A x \in Fds : x \notin closed => interest[x] = events[x]
    BY Zenon DEF IInv, Types, KernelAgrees
  <1>2. ASSUME NEW x \in Fds, NEW c \in Events, addEvent(x, c)
        PROVE  NoEdgeLost'
    <2>1. PICK new \in SUBSET Events : new = events[x] \cup {c}
      BY Zenon, <1>1
    <2>2. events' = [events EXCEPT ![x] = new] /\ epoll_ctl(x, new)
      BY Zenon, <1>1, <1>2, <2>1 DEF addEvent
    <2> QED BY Zenon, <1>2, <2>2, EdgeCtl DEF addEvent
  <1>3. ASSUME NEW x \in Fds, NEW c \in Events, delEvent(x, c) \/ cancelEvent(x, c)
        PROVE  NoEdgeLost'
    <2>1. PICK new \in SUBSET Events : new = events[x] \ {c}
      BY Zenon, <1>1
    <2>2. events' = [events EXCEPT ![x] = new] /\ epoll_ctl(x, new)
      BY Zenon, <1>1, <1>3, <2>1 DEF delEvent, cancelEvent
    <2>3. results' = results /\ asserted' = asserted
      BY Zenon, <1>3 DEF delEvent, cancelEvent
    <2> QED BY Zenon, <2>2, <2>3, EdgeCtl
  <1>4. ASSUME NEW x \in Fds, cancelAll(x) PROVE NoEdgeLost'
    <2>1. events' = [events EXCEPT ![x] = {}] /\ epoll_ctl(x, {})
      BY Zenon, <1>4 DEF cancelAll
    <2>2. results' = results /\ asserted' = asserted /\ {} \in SUBSET Events
      BY Zenon, <1>4 DEF cancelAll
    <2> QED BY Zenon, <2>1, <2>2, EdgeCtl
  <1>5. ASSUME NEW w \in Workers, Idle(w) PROVE NoEdgeLost'
    BY Zenon, <1>5, EdgeWait, EdgeHandle DEF Idle
  <1>6. ASSUME NEW x \in Fds, NEW c \in Events, Resume(x, c) PROVE NoEdgeLost'
    BY <1>6 DEF Resume, kernel, NoEdgeLost
  <1>7. ASSUME NEW x \in Fds, NEW c \in Events, Drain(x, c) PROVE NoEdgeLost'
    <2> SUFFICES ASSUME ~asserted, NEW fd \in Fds, NEW e \in Events, Wanted(fd, e)'
                 PROVE  InList(fd, e)' \/ InResults(fd, e)'
      BY Zenon, <1>7, EdgeWords DEF Drain
    <2>1. c # "ERR" /\ (fd = x => e # c)
      BY Zenon, <1>7, IOManagerAssumption DEF Drain, Wanted
    <2>2. /\ ready' = [ready EXCEPT ![x] = @ \ {c}]
          /\ edge' = [edge EXCEPT ![x] = @ \ {c}]
          /\ UNCHANGED <<events, results, closed>>
      BY Zenon, <1>7 DEF Drain
    <2>3. Wanted(fd, e)
      BY Zenon, <2>1, <2>2 DEF Wanted, IInv, Types
    <2>4. CASE InList(fd, e)
      BY Zenon, <2>1, <2>2, <2>4 DEF InList, IInv, Types
    <2>5. CASE InResults(fd, e)
      BY Zenon, <2>2, <2>5 DEF InResults
    <2> QED BY Zenon, <2>3, <2>4, <2>5, EdgeWords
  <1>8. ASSUME NEW x \in Fds, NEW c \in Events \cup {"ERR"}, BecomeReady(x, c)
        PROVE  NoEdgeLost'
    <2> SUFFICES ASSUME ~asserted, NEW fd \in Fds, NEW e \in Events, Wanted(fd, e)'
                 PROVE  InList(fd, e)' \/ InResults(fd, e)'
      BY Zenon, <1>8, EdgeWords DEF BecomeReady
    <2>1. /\ ready' = [ready EXCEPT ![x] = @ \cup {c}]
          /\ UNCHANGED <<events, results, closed>>
          /\ edge' = [edge EXCEPT ![x] =
                        IF interest[x] # {} /\ Reported(interest[x], {c}) # {}
                          THEN Reported(interest[x], ready[x] \cup {c}) ELSE @]
      BY Zenon, <1>8 DEF BecomeReady
    <2>2. /\ ready \in [Fds -> SUBSET (Events \cup {"ERR"})]
          /\ edge \in [Fds -> SUBSET (Events \cup {"ERR"})]
      BY Zenon DEF IInv, Types
    <2>3. CASE fd = x /\ Reported(interest[x], {c}) # {}
      <3>1. /\ e \in events[x] /\ interest[x] = events[x]
            /\ (ready[x] \cup {c}) \cap {e, "ERR"} # {}
        BY Zenon, <1>1, <2>1, <2>2, <2>3 DEF Wanted
      <3>2. edge'[x] = Reported(interest[x], ready[x] \cup {c})
        BY Zenon, <2>1, <2>2, <2>3, <3>1
      <3> QED BY Zenon, <2>3, <3>1, <3>2 DEF InList, Reported
    <2>4. CASE ~(fd = x /\ Reported(interest[x], {c}) # {})
      <3>1. edge'[fd] = edge[fd]
        BY Zenon, <2>1, <2>2, <2>4
      <3>2. Wanted(fd, e)
        BY Zenon, <1>1, <2>1, <2>2, <2>4 DEF Wanted, Reported
      <3>3. InList(fd, e) \/ InResults(fd, e)
        BY Zenon, <3>2, EdgeWords
      <3> QED BY Zenon, <2>1, <3>1, <3>3 DEF InList, InResults
    <2> QED BY Zenon, <2>3, <2>4
  <1>9. CASE UNCHANGED vars
    BY <1>9 DEF vars, NoEdgeLost
  <1>10. ASSUME NEW x \in Fds, close_f(x) PROVE NoEdgeLost'
    <2> SUFFICES ASSUME ~asserted, NEW fd \in Fds, NEW e \in Events, Wanted(fd, e)'
                 PROVE  InList(fd, e)' \/ InResults(fd, e)'
      BY Zenon, <1>10, EdgeWords DEF close_f
    <2>1. fd # x /\ Wanted(fd, e) /\ results' = results
      BY Zenon, <1>10 DEF close_f, Wanted
    <2>2. edge'[fd] = edge[fd]
      BY Zenon, <1>10, <2>1 DEF close_f, IInv, Types
    <2> QED BY Zenon, <2>1, <2>2, EdgeWords DEF InList, InResults
  <1> QED BY Zenon, <1>2, <1>3, <1>4, <1>5, <1>6, <1>7, <1>8, <1>9, <1>10 DEF Next, Client

-----------------------------------------------------------------------------
(* Theorems                                                                *)

\* IInv holds of every state of idle() and its clients
LEMMA Invariant == Spec => []IInv
  BY InitIInv, IInvStep, PTL DEF Spec

(* The counter that keeps the scheduler from stopping counts the events in
   the contexts, for any number of threads and descriptors, also when
   epoll_ctl fails as the fd was closed: addEvent, delEvent, cancelEvent,
   cancelAll and triggerEvent keep it between them.                         *)
THEOREM PendingCount == Spec => []PendingIsRegistered
  <1>1. IInv => PendingIsRegistered
    BY Zenon DEF IInv
  <1> QED BY <1>1, Invariant, PTL

(* The kernel watches a descriptor for what its context says, unless it was
   closed while it was watched, for any number of threads and descriptors:
   every EPOLL_CTL_ADD, MOD and DEL goes with the change of fd_ctx->events
   under the same lock.                                                     *)
THEOREM KernelWatches == Spec => []KernelAgrees
  <1>1. IInv => KernelAgrees
    BY Zenon DEF IInv
  <1> QED BY <1>1, Invariant, PTL

(* With edge-triggered epoll no event that is registered and ready is lost
   between epoll_wait and the lock of its context, unless the fd is closed:
   re-arming with EPOLL_CTL_MOD looks again.                                *)
THEOREM EdgesKept == Spec => []NoEdgeLost
  <1>1. Init => NoEdgeLost
    BY Zenon DEF Init, NoEdgeLost
  <1>2. IInv /\ NoEdgeLost /\ [Next]_vars => NoEdgeLost'
    BY Zenon, EdgeStep
  <1> QED BY <1>1, <1>2, Invariant, PTL DEF Spec

-----------------------------------------------------------------------------
(* FoxRedis: no pointer to an FCtx is followed after the FCtx is gone.  R!x *)
(* is the x of FoxRedis.                                                   *)

\* what is taken from the front of a queue without repetitions is gone from it
LEMMA QueueTail ==
  ASSUME NEW S, NEW q \in Seq(S), q # <<>>, R!Distinct(q)
  PROVE  /\ Head(q) \in S /\ Head(q) \in R!Items(q)
         /\ Tail(q) \in Seq(S) /\ R!Distinct(Tail(q))
         /\ R!Items(Tail(q)) = R!Items(q) \ {Head(q)}
  <1>1. /\ Len(q) \in Nat /\ Len(q) >= 1 /\ DOMAIN q = 1..Len(q)
        /\ Head(q) = q[1] /\ Head(q) \in S
        /\ Tail(q) \in Seq(S) /\ DOMAIN Tail(q) = 1..(Len(q) - 1)
        /\ \A i \in 1..(Len(q) - 1) : Tail(q)[i] = q[i+1]
    OBVIOUS
  <1>2. Head(q) \in R!Items(q)
    BY <1>1 DEF R!Items
  <1>3. R!Distinct(Tail(q))
    BY <1>1 DEF R!Distinct
  <1>4. ASSUME NEW c \in R!Items(Tail(q)) PROVE c \in R!Items(q) \ {Head(q)}
    <2>1. PICK i \in 1..(Len(q) - 1) : c = q[i+1]
      BY <1>1, <1>4 DEF R!Items
    <2>2. i+1 \in DOMAIN q /\ 1 \in DOMAIN q /\ i+1 # 1
      BY <1>1
    <2> QED BY ZenonT(40), <1>1, <2>1, <2>2 DEF R!Items, R!Distinct
  <1>5. ASSUME NEW c \in R!Items(q) \ {Head(q)} PROVE c \in R!Items(Tail(q))
    <2>1. PICK i \in 1..Len(q) : c = q[i]
      BY ZenonT(40), <1>1, <1>5 DEF R!Items
    <2>2. i # 1
      BY ZenonT(40), <1>1, <1>5, <2>1
    <2>3. i-1 \in 1..(Len(q) - 1) /\ (i-1)+1 = i
      BY <1>1, <2>2
    <2>4. Tail(q)[i-1] = c
      BY ZenonT(40), <1>1, <2>1, <2>3
    <2> QED BY ZenonT(40), <1>1, <2>3, <2>4 DEF R!Items
  <1> QED BY ZenonT(40), <1>1, <1>2, <1>3, <1>4, <1>5

\* ... and what is put at its end is in it
LEMMA QueueAppend ==
  ASSUME NEW S, NEW q \in Seq(S), NEW c \in S, R!Distinct(q), c \notin R!Items(q)
  PROVE  /\ Append(q, c) \in Seq(S) /\ R!Distinct(Append(q, c))
         /\ R!Items(Append(q, c)) = R!Items(q) \cup {c}
  <1>1. /\ Len(q) \in Nat /\ DOMAIN q = 1..Len(q)
        /\ Append(q, c) \in Seq(S) /\ DOMAIN Append(q, c) = 1..(Len(q) + 1)
        /\ \A i \in 1..Len(q) : Append(q, c)[i] = q[i]
        /\ Append(q, c)[Len(q) + 1] = c
    OBVIOUS
  <1>2. \A i \in 1..(Len(q) + 1) : i \in 1..Len(q) \/ i = Len(q) + 1
    BY <1>1
  <1>3. Len(q) + 1 \in 1..(Len(q) + 1) /\ 1..Len(q) \subseteq 1..(Len(q) + 1)
    BY <1>1
  <1>4. R!Items(Append(q, c)) = R!Items(q) \cup {c}
    BY ZenonT(40), <1>1, <1>2, <1>3 DEF R!Items
  <1>5. R!Distinct(Append(q, c))
    BY ZenonT(40), <1>1, <1>2 DEF R!Distinct, R!Items
  <1> QED BY Zenon, <1>1, <1>4, <1>5

\* the commands that may lead to an FCtx
Live == R!Items(commands) \cup R!Items(callbacks) \cup (ctxs \ timeout)

LEMMA LiveWaits ==
  R!CtxHasCaller <=> \A c \in Live : R!Waits(c[1], c[2])
  BY ZenonT(40) DEF Live, R!CtxHasCaller, R!Items

LEMMA QueueIn == ASSUME NEW S, NEW q \in Seq(S) PROVE R!Items(q) \subseteq S
  BY DEF R!Items

\* where the commands are
LEMMA Places ==
  ASSUME R!RedisInv
  PROVE  /\ commands \in Seq(Fibers \X Nat) /\ R!Distinct(commands)
         /\ callbacks \in Seq(Fibers \X Nat) /\ R!Distinct(callbacks)
         /\ pending \in Seq(Fibers \X Nat) /\ R!Distinct(pending)
         /\ R!Items(commands) \subseteq Fibers \X Nat
         /\ R!Items(callbacks) \subseteq Fibers \X Nat
         /\ R!Items(pending) = ctxs /\ ctxs \subseteq Fibers \X Nat
         /\ \A c \in R!Items(commands) \cup R!Items(callbacks) \cup ctxs : c[2] <= calls[c[1]]
         /\ Live \subseteq Fibers \X Nat
  <1>1. /\ commands \in Seq(Fibers \X Nat) /\ R!Distinct(commands)
        /\ callbacks \in Seq(Fibers \X Nat) /\ R!Distinct(callbacks)
        /\ pending \in Seq(Fibers \X Nat) /\ R!Distinct(pending)
        /\ R!Items(pending) = ctxs
    BY ZenonT(40) DEF R!RedisInv, R!TypeOK
  <1>2. /\ R!Items(commands) \subseteq Fibers \X Nat
        /\ R!Items(callbacks) \subseteq Fibers \X Nat
        /\ ctxs \subseteq Fibers \X Nat
    BY ZenonT(40), <1>1, QueueIn
  <1>3. \A c \in R!Items(commands) \cup R!Items(callbacks) \cup ctxs : c[2] <= calls[c[1]]
    BY ZenonT(40), <1>1 DEF R!RedisInv
  <1> QED BY ZenonT(40), <1>1, <1>2, <1>3 DEF Live

\* a fiber is on its way through one command, so the rest is not about it
LEMMA OtherFiber ==
  ASSUME R!RedisInv, NEW c \in Live, NEW d \in Live, c # d
  PROVE  c[1] # d[1]
  <1>1. c \in Fibers \X Nat /\ d \in Fibers \X Nat
    BY ZenonT(40), Places
  <1>2. c[2] = calls[c[1]] /\ d[2] = calls[d[1]]
    BY ZenonT(40), LiveWaits DEF R!RedisInv, R!Waits
  <1> QED BY <1>1, <1>2

\* the fibers that are scheduled are in none of the commands
Resumable == \A f \in woken : pcOfCmd[f] # "out" /\ ~fiber[f]

\* a fiber that is woken for a command that is then gone
LEMMA WakeFacts ==
  ASSUME R!RedisInv, NEW c \in Live, R!Wake(c[1]), UNCHANGED <<pcOfCmd, calls>>,
         Live' \subseteq Live \ {c}
  PROVE  /\ fiber' \in [Fibers -> BOOLEAN] /\ woken' \subseteq Fibers
         /\ Resumable' /\ R!CtxHasCaller'
  <1>1. c[1] \in Fibers
    BY ZenonT(40), Places
  <1>2. fiber \in [Fibers -> BOOLEAN] /\ woken \subseteq Fibers /\ Resumable
    BY ZenonT(40) DEF R!RedisInv, R!TypeOK, Resumable
  <1>3. /\ fiber' = [fiber EXCEPT ![c[1]] = FALSE]
        /\ woken' \subseteq woken \cup {c[1]}
    BY ZenonT(40) DEF R!Wake
  <1>4. /\ fiber' \in [Fibers -> BOOLEAN] /\ woken' \subseteq Fibers
        /\ ~fiber'[c[1]] /\ \A f \in Fibers : f # c[1] => fiber'[f] = fiber[f]
    BY ZenonT(40), <1>1, <1>2, <1>3
  <1>5. pcOfCmd[c[1]] # "out"
    BY ZenonT(40), LiveWaits DEF R!RedisInv, R!Waits
  <1>6. Resumable'
    BY ZenonT(40), <1>2, <1>3, <1>4, <1>5 DEF Resumable
  <1>7. ASSUME NEW d \in Live' PROVE R!Waits(d[1], d[2])'
    <2>1. d \in Live /\ d # c /\ d[1] # c[1] /\ d[1] \in Fibers
      BY ZenonT(40), <1>7, OtherFiber, Places
    <2>2. R!Waits(d[1], d[2])
      BY ZenonT(40), <2>1, LiveWaits DEF R!RedisInv
    <2> QED BY ZenonT(40), <1>4, <2>1, <2>2 DEF R!Waits
  <1>8. R!CtxHasCaller'
    BY ZenonT(40), <1>7 DEF Live, R!CtxHasCaller, R!Items
  <1> QED BY Zenon, <1>4, <1>6, <1>8

\* a step that leaves the fibers alone and makes no command live
LEMMA CallersStay ==
  ASSUME R!RedisInv, UNCHANGED <<pcOfCmd, calls, fiber, woken>>, Live' \subseteq Live
  PROVE  /\ fiber' \in [Fibers -> BOOLEAN] /\ woken' \subseteq Fibers
         /\ Resumable' /\ R!CtxHasCaller'
  <1>1. \A d \in Live' : R!Waits(d[1], d[2])'
    BY ZenonT(40), LiveWaits DEF R!RedisInv, R!Waits
  <1>2. R!CtxHasCaller'
    BY ZenonT(40), <1>1 DEF Live, R!CtxHasCaller, R!Items
  <1> QED BY ZenonT(40), <1>2 DEF R!RedisInv, R!TypeOK, Resumable

\* the commands that are left keep their places
LEMMA RedisFrom ==
  ASSUME R!RedisInv, UNCHANGED <<pcOfCmd, calls>>,
         fiber' \in [Fibers -> BOOLEAN], woken' \subseteq Fibers, Resumable', R!CtxHasCaller',
         commands' \in Seq(Fibers \X Nat), R!Distinct(commands'),
         callbacks' \in Seq(Fibers \X Nat), R!Distinct(callbacks'),
         pending' \in Seq(Fibers \X Nat), R!Distinct(pending'),
         R!Items(pending') = ctxs',
         R!Items(commands') \cap R!Items(callbacks') = {},
         ctxs' \cap (R!Items(commands') \cup R!Items(callbacks')) = {},
         R!Items(commands') \cup R!Items(callbacks') \cup ctxs'
           \subseteq R!Items(commands) \cup R!Items(callbacks) \cup ctxs,
         timeout' \subseteq ctxs'
  PROVE  R!RedisInv'
  <1>1. \A c \in R!Items(commands') \cup R!Items(callbacks') \cup ctxs' : c[2] <= calls'[c[1]]
    BY ZenonT(40), Places
  <1>2. R!TypeOK'
    BY ZenonT(40) DEF R!RedisInv, R!TypeOK
  <1>3. (\A q \in {commands, callbacks, pending} :
           R!Distinct(q) /\ \A c \in R!Items(q) : c[2] <= calls[c[1]])'
    BY ZenonT(40), <1>1
  <1> QED BY ZenonT(40), <1>2, <1>3 DEF R!RedisInv, Resumable

\* a command is the first of its number, and its fiber is in no other
LEMMA RedisCmd ==
  ASSUME R!RedisInv, NEW f \in Fibers, R!cmd(f)
  PROVE  R!RedisInv'
  <1> DEFINE c == <<f, calls[f] + 1>>
  <1>1. /\ pcOfCmd \in [Fibers -> {"out", "send", "hold"}] /\ calls \in [Fibers -> Nat]
        /\ fiber \in [Fibers -> BOOLEAN] /\ woken \subseteq Fibers
    BY Zenon DEF R!RedisInv, R!TypeOK
  <1>2. /\ pcOfCmd[f] = "out" /\ commands' = Append(commands, c)
        /\ calls' = [calls EXCEPT ![f] = calls[f] + 1]
        /\ fiber' = [fiber EXCEPT ![f] = TRUE]
        /\ pcOfCmd' = [pcOfCmd EXCEPT ![f] = "send"]
        /\ UNCHANGED <<woken, callbacks, pending, ctxs, timeout>>
    BY Zenon DEF R!cmd, R!loopVars
  <1>3. /\ calls' \in [Fibers -> Nat] /\ calls'[f] = calls[f] + 1
        /\ \A g \in Fibers : calls[g] <= calls'[g] /\ (g # f => calls'[g] = calls[g])
        /\ c \in Fibers \X Nat /\ c[1] = f /\ c[2] = calls[f] + 1 /\ ~(calls[f] + 1 <= calls[f])
    BY <1>1, <1>2
  <1>4. /\ fiber' \in [Fibers -> BOOLEAN] /\ fiber'[f]
        /\ pcOfCmd' \in [Fibers -> {"out", "send", "hold"}] /\ pcOfCmd'[f] = "send"
        /\ \A g \in Fibers : g # f => fiber'[g] = fiber[g] /\ pcOfCmd'[g] = pcOfCmd[g]
    BY ZenonT(40), <1>1, <1>2
  <1> HIDE DEF c
  <1>5. c \notin R!Items(commands) \cup R!Items(callbacks) \cup ctxs
    BY ZenonT(40), <1>3, Places
  <1>6. /\ commands' \in Seq(Fibers \X Nat) /\ R!Distinct(commands')
        /\ R!Items(commands') = R!Items(commands) \cup {c}
    <2>1. /\ commands \in Seq(Fibers \X Nat) /\ R!Distinct(commands)
          /\ c \in Fibers \X Nat /\ c \notin R!Items(commands)
      BY Zenon, <1>3, <1>5, Places
    <2>2. /\ Append(commands, c) \in Seq(Fibers \X Nat)
          /\ R!Distinct(Append(commands, c))
          /\ R!Items(Append(commands, c)) = R!Items(commands) \cup {c}
      BY ZenonT(40), <2>1, QueueAppend
    <2>3. commands' = Append(commands, c)
      BY Zenon, <1>2
    <2> QED BY Zenon, <2>2, <2>3
  <1>7. \A g \in woken' : g # f /\ pcOfCmd'[g] # "out" /\ ~fiber'[g]
    BY ZenonT(40), <1>1, <1>2, <1>4 DEF R!RedisInv
  <1>8. ASSUME NEW d \in Live' PROVE R!Waits(d[1], d[2])'
    <2>1. CASE d = c
      BY ZenonT(40), <1>3, <1>4, <2>1 DEF R!Waits
    <2>2. CASE d # c
      <3>1. d \in Live
        BY ZenonT(40), <1>2, <1>6, <1>8, <2>2 DEF Live
      <3>2. R!Waits(d[1], d[2]) /\ d[1] \in Fibers
        BY ZenonT(40), <3>1, LiveWaits, Places DEF R!RedisInv
      <3>3. d[1] # f
        BY Zenon, <1>2, <3>2 DEF R!Waits
      <3> QED BY ZenonT(40), <1>3, <1>4, <3>2, <3>3 DEF R!Waits
    <2> QED BY Zenon, <2>1, <2>2
  <1>9. R!CtxHasCaller'
    BY ZenonT(40), <1>8 DEF Live, R!CtxHasCaller, R!Items
  <1>10. \A d \in R!Items(commands') \cup R!Items(callbacks') \cup ctxs' : d[2] <= calls'[d[1]]
    <2> SUFFICES ASSUME NEW d \in R!Items(commands') \cup R!Items(callbacks') \cup ctxs'
                 PROVE  d[2] <= calls'[d[1]]
      OBVIOUS
    <2>1. CASE d = c
      BY <1>3, <2>1
    <2>2. CASE d # c
      <3>1. d \in R!Items(commands) \cup R!Items(callbacks) \cup ctxs
        BY ZenonT(40), <1>2, <1>6, <2>2
      <3>2. d \in Fibers \X Nat /\ d[2] <= calls[d[1]]
        BY ZenonT(40), <3>1, Places
      <3>3. d[1] \in Fibers /\ d[2] \in Nat /\ calls[d[1]] \in Nat /\ calls'[d[1]] \in Nat
            /\ calls[d[1]] <= calls'[d[1]]
        BY ZenonT(40), <1>1, <1>3, <3>2
      <3> QED BY <3>2, <3>3
    <2> QED BY Zenon, <2>1, <2>2
  <1>11. R!TypeOK'
    BY ZenonT(40), <1>1, <1>2, <1>3, <1>4, <1>6, Places DEF R!TypeOK
  <1>12. (\A q \in {commands, callbacks, pending} :
            R!Distinct(q) /\ \A d \in R!Items(q) : d[2] <= calls[d[1]])'
    BY ZenonT(40), <1>2, <1>6, <1>10, Places
  <1>13. /\ R!Items(commands') \cap R!Items(callbacks') = {}
         /\ R!Items(pending') = ctxs' /\ timeout' \subseteq ctxs'
         /\ ctxs' \cap (R!Items(commands') \cup R!Items(callbacks')) = {}
    BY ZenonT(40), <1>2, <1>5, <1>6 DEF R!RedisInv
  <1> QED BY ZenonT(40), <1>7, <1>9, <1>11, <1>12, <1>13 DEF R!RedisInv

\* a fiber goes to sleep, or returns from a command that knows of it no more
LEMMA RedisReturn ==
  ASSUME R!RedisInv, NEW f \in Fibers, R!Return(f)
  PROVE  R!RedisInv'
  <1>1. /\ pcOfCmd \in [Fibers -> {"out", "send", "hold"}] /\ fiber \in [Fibers -> BOOLEAN]
    BY Zenon DEF R!RedisInv, R!TypeOK
  <1>2. /\ UNCHANGED <<calls, fiber, commands, callbacks, pending, ctxs, timeout>>
        /\ woken' \subseteq woken /\ pcOfCmd[f] # "out"
    BY ZenonT(40) DEF R!Return, R!hold, R!resume, R!loopVars
  <1>3. /\ pcOfCmd' \in [Fibers -> {"out", "send", "hold"}]
        /\ \A g \in Fibers : pcOfCmd'[g] = "out" /\ pcOfCmd[g] # "out" =>
             g \in woken /\ g \notin woken'
    <2>1. CASE R!hold(f)
      BY ZenonT(40), <1>1, <2>1 DEF R!hold
    <2>2. CASE R!resume(f)
      BY ZenonT(40), <1>1, <2>2 DEF R!resume
    <2> QED BY Zenon, <2>1, <2>2 DEF R!Return
  <1>4. Live' = Live
    BY ZenonT(40), <1>2 DEF Live
  <1>5. ASSUME NEW d \in Live' PROVE R!Waits(d[1], d[2])'
    <2>1. R!Waits(d[1], d[2]) /\ d[1] \in Fibers
      BY ZenonT(40), <1>4, LiveWaits, Places DEF R!RedisInv
    <2>2. d[1] \notin woken
      BY ZenonT(40), <2>1 DEF R!RedisInv, R!Waits
    <2> QED BY ZenonT(40), <1>2, <1>3, <2>1, <2>2 DEF R!Waits
  <1>6. R!CtxHasCaller'
    BY ZenonT(40), <1>5 DEF Live, R!CtxHasCaller, R!Items
  <1>7. \A g \in woken' : pcOfCmd'[g] # "out" /\ ~fiber'[g]
    BY ZenonT(40), <1>2, <1>3 DEF R!RedisInv, R!TypeOK
  <1>8. R!TypeOK'
    BY ZenonT(40), <1>2, <1>3 DEF R!RedisInv, R!TypeOK
  <1>9. (\A q \in {commands, callbacks, pending} :
           R!Distinct(q) /\ \A d \in R!Items(q) : d[2] <= calls[d[1]])'
    BY ZenonT(40), <1>2 DEF R!RedisInv
  <1> QED BY ZenonT(40), <1>2, <1>6, <1>7, <1>8, <1>9 DEF R!RedisInv

\* the FoxThread takes its queue
LEMMA RedisRead ==
  ASSUME R!RedisInv, R!read_cb
  PROVE  R!RedisInv'
  <1>1. /\ callbacks' = commands /\ commands' = <<>> /\ callbacks = <<>>
        /\ UNCHANGED <<pcOfCmd, calls, fiber, woken, pending, ctxs, timeout>>
    BY ZenonT(40) DEF R!read_cb, R!Loop
  <1>2. commands' \in Seq(Fibers \X Nat) /\ R!Distinct(commands') /\ R!Items(commands') = {}
    BY <1>1 DEF R!Distinct, R!Items
  <1>3. Live' \subseteq Live
    BY ZenonT(40), <1>1, <1>2 DEF Live
  <1>4. /\ fiber' \in [Fibers -> BOOLEAN] /\ woken' \subseteq Fibers
        /\ Resumable' /\ R!CtxHasCaller'
    BY ZenonT(40), <1>1, <1>3, CallersStay
  <1>5. /\ R!Items(commands') \cap R!Items(callbacks') = {} /\ timeout' \subseteq ctxs'
        /\ ctxs' \cap (R!Items(commands') \cup R!Items(callbacks')) = {}
    BY ZenonT(40), <1>1, <1>2 DEF R!RedisInv
  <1>6. R!Items(commands') \cup R!Items(callbacks') \cup ctxs'
           \subseteq R!Items(commands) \cup R!Items(callbacks) \cup ctxs
    BY ZenonT(40), <1>1, <1>2
  <1>7. /\ callbacks' \in Seq(Fibers \X Nat) /\ R!Distinct(callbacks')
        /\ pending' \in Seq(Fibers \X Nat) /\ R!Distinct(pending')
        /\ R!Items(pending') = ctxs'
    BY ZenonT(40), <1>1, Places
  <1>8. UNCHANGED <<pcOfCmd, calls>>
    BY Zenon, <1>1
  <1> QED BY ZenonT(40), <1>2, <1>4, <1>5, <1>6, <1>7, <1>8, RedisFrom

\* a command fails at once, or goes on to hiredis
LEMMA RedisPcmd ==
  ASSUME R!RedisInv, R!pcmd
  PROVE  R!RedisInv'
  <1> DEFINE c == Head(callbacks)
  <1>1. /\ callbacks # <<>> /\ callbacks' = Tail(callbacks)
        /\ UNCHANGED <<pcOfCmd, calls, commands, timeout>>
    BY Zenon DEF R!pcmd
  <1>2. /\ c \in Fibers \X Nat /\ c \in R!Items(callbacks)
        /\ callbacks' \in Seq(Fibers \X Nat) /\ R!Distinct(callbacks')
        /\ R!Items(callbacks') = R!Items(callbacks) \ {c}
    BY ZenonT(40), <1>1, Places, QueueTail
  <1>3. /\ c \notin ctxs /\ c \notin R!Items(commands) /\ c \in Live
        /\ timeout \subseteq ctxs
    BY ZenonT(40), <1>2 DEF R!RedisInv, Live
  <1> HIDE DEF c
  <1>4. CASE R!Wake(c[1]) /\ UNCHANGED <<pending, ctxs>>
    <2>1. Live' \subseteq Live \ {c}
      BY ZenonT(40), <1>1, <1>2, <1>3, <1>4 DEF Live
    <2>2. /\ fiber' \in [Fibers -> BOOLEAN] /\ woken' \subseteq Fibers
          /\ Resumable' /\ R!CtxHasCaller'
      BY ZenonT(40), <1>1, <1>3, <1>4, <2>1, WakeFacts
    <2>3. /\ R!Items(commands') \cap R!Items(callbacks') = {} /\ timeout' \subseteq ctxs'
          /\ ctxs' \cap (R!Items(commands') \cup R!Items(callbacks')) = {}
      BY ZenonT(40), <1>1, <1>2, <1>4 DEF R!RedisInv
    <2>4. R!Items(commands') \cup R!Items(callbacks') \cup ctxs'
             \subseteq R!Items(commands) \cup R!Items(callbacks) \cup ctxs
      BY ZenonT(40), <1>1, <1>2, <1>4
    <2>5. /\ commands' \in Seq(Fibers \X Nat) /\ R!Distinct(commands')
          /\ pending' \in Seq(Fibers \X Nat) /\ R!Distinct(pending')
          /\ R!Items(pending') = ctxs'
      BY ZenonT(40), <1>1, <1>4, Places
    <2>6. UNCHANGED <<pcOfCmd, calls>>
      BY Zenon, <1>1
    <2> QED BY ZenonT(40), <1>2, <2>2, <2>3, <2>4, <2>5, <2>6, RedisFrom
  <1>5. CASE /\ ctxs' = ctxs \cup {c} /\ pending' = Append(pending, c)
             /\ UNCHANGED <<fiber, woken>>
    <2>1. Live' \subseteq Live
      BY ZenonT(40), <1>1, <1>2, <1>3, <1>5 DEF Live
    <2>2. /\ fiber' \in [Fibers -> BOOLEAN] /\ woken' \subseteq Fibers
          /\ Resumable' /\ R!CtxHasCaller'
      BY ZenonT(40), <1>1, <1>5, <2>1, CallersStay
    <2>3. /\ R!Items(commands') \cap R!Items(callbacks') = {} /\ timeout' \subseteq ctxs'
          /\ ctxs' \cap (R!Items(commands') \cup R!Items(callbacks')) = {}
      BY ZenonT(40), <1>1, <1>2, <1>3, <1>5 DEF R!RedisInv
    <2>4. R!Items(commands') \cup R!Items(callbacks') \cup ctxs'
             \subseteq R!Items(commands) \cup R!Items(callbacks) \cup ctxs
      BY ZenonT(40), <1>1, <1>2, <1>5
    <2>5. c \notin R!Items(pending)
      BY ZenonT(40), <1>3, Places
    <2>6. /\ commands' \in Seq(Fibers \X Nat) /\ R!Distinct(commands')
          /\ pending' \in Seq(Fibers \X Nat) /\ R!Distinct(pending')
          /\ R!Items(pending') = ctxs'
      <3>1. /\ pending \in Seq(Fibers \X Nat) /\ R!Distinct(pending)
            /\ R!Items(pending) = ctxs /\ c \in Fibers \X Nat
            /\ commands' \in Seq(Fibers \X Nat) /\ R!Distinct(commands')
        BY Zenon, <1>1, <1>2, Places
      <3>2. /\ Append(pending, c) \in Seq(Fibers \X Nat)
            /\ R!Distinct(Append(pending, c))
            /\ R!Items(Append(pending, c)) = R!Items(pending) \cup {c}
        BY ZenonT(40), <2>5, <3>1, QueueAppend
      <3> QED BY Zenon, <1>5, <3>1, <3>2
    <2>7. UNCHANGED <<pcOfCmd, calls>>
      BY Zenon, <1>1
    <2> QED BY ZenonT(40), <1>2, <2>2, <2>3, <2>4, <2>6, <2>7, RedisFrom
  <1> QED BY ZenonT(40), <1>4, <1>5 DEF R!pcmd, c

\* hiredis calls back: the Ctx is gone, and woke its fiber or had before
LEMMA RedisCmdCb ==
  ASSUME R!RedisInv, R!CmdCb
  PROVE  R!RedisInv'
  <1> DEFINE c == Head(pending)
  <1>1. /\ pending # <<>> /\ pending' = Tail(pending)
        /\ ctxs' = ctxs \ {c} /\ timeout' = timeout \ {c}
        /\ UNCHANGED <<pcOfCmd, calls, commands, callbacks>>
    BY Zenon DEF R!CmdCb
  <1>2. /\ c \in Fibers \X Nat /\ c \in R!Items(pending)
        /\ pending' \in Seq(Fibers \X Nat) /\ R!Distinct(pending')
        /\ R!Items(pending') = R!Items(pending) \ {c}
    BY ZenonT(40), <1>1, Places, QueueTail
  <1>3. c \in ctxs /\ c \notin R!Items(commands) /\ c \notin R!Items(callbacks)
    BY ZenonT(40), <1>2 DEF R!RedisInv
  <1>4. IF c \in timeout THEN UNCHANGED <<fiber, woken>> ELSE R!Wake(c[1])
    BY Zenon DEF R!CmdCb
  <1> HIDE DEF c
  <1>5. Live' \subseteq Live \ {c}
    BY ZenonT(40), <1>1, <1>3 DEF Live
  <1>6. /\ fiber' \in [Fibers -> BOOLEAN] /\ woken' \subseteq Fibers
        /\ Resumable' /\ R!CtxHasCaller'
    <2>1. CASE c \in timeout
      BY ZenonT(40), <1>1, <1>4, <1>5, <2>1, CallersStay
    <2>2. CASE c \notin timeout
      <3>1. c \in Live
        BY ZenonT(40), <1>3, <2>2 DEF Live
      <3> QED BY ZenonT(40), <1>1, <1>4, <1>5, <2>2, <3>1, WakeFacts
    <2> QED BY Zenon, <2>1, <2>2
  <1>7. /\ R!Items(commands') \cap R!Items(callbacks') = {} /\ timeout' \subseteq ctxs'
        /\ ctxs' \cap (R!Items(commands') \cup R!Items(callbacks')) = {}
    BY ZenonT(40), <1>1 DEF R!RedisInv
  <1>8. R!Items(commands') \cup R!Items(callbacks') \cup ctxs'
           \subseteq R!Items(commands) \cup R!Items(callbacks) \cup ctxs
    BY ZenonT(40), <1>1
  <1>9. /\ commands' \in Seq(Fibers \X Nat) /\ R!Distinct(commands')
        /\ callbacks' \in Seq(Fibers \X Nat) /\ R!Distinct(callbacks')
        /\ R!Items(pending') = ctxs'
    BY ZenonT(40), <1>1, <1>2, Places
  <1>10. UNCHANGED <<pcOfCmd, calls>>
    BY Zenon, <1>1
  <1> QED BY ZenonT(40), <1>2, <1>6, <1>7, <1>8, <1>9, <1>10, RedisFrom

\* the timer wakes the fiber and marks the Ctx
LEMMA RedisEventCb ==
  ASSUME R!RedisInv, NEW c \in ctxs, R!EventCb(c)
  PROVE  R!RedisInv'
  <1>1. /\ c \in ctxs \ timeout /\ timeout' = timeout \cup {c} /\ R!Wake(c[1])
        /\ UNCHANGED <<pcOfCmd, calls, commands, callbacks, pending, ctxs>>
    BY Zenon DEF R!EventCb
  <1>2. c \in Live /\ c \notin R!Items(commands) /\ c \notin R!Items(callbacks)
    BY ZenonT(40), <1>1 DEF R!RedisInv, Live
  <1>3. Live' \subseteq Live \ {c}
    BY ZenonT(40), <1>1, <1>2 DEF Live
  <1>4. UNCHANGED <<pcOfCmd, calls>>
    BY Zenon, <1>1
  <1>5. /\ fiber' \in [Fibers -> BOOLEAN] /\ woken' \subseteq Fibers
        /\ Resumable' /\ R!CtxHasCaller'
    BY ZenonT(40), <1>1, <1>2, <1>3, <1>4, WakeFacts
  <1>6. /\ R!Items(commands') \cap R!Items(callbacks') = {} /\ timeout' \subseteq ctxs'
        /\ ctxs' \cap (R!Items(commands') \cup R!Items(callbacks')) = {}
    BY ZenonT(40), <1>1 DEF R!RedisInv
  <1>7. R!Items(commands') \cup R!Items(callbacks') \cup ctxs'
           \subseteq R!Items(commands) \cup R!Items(callbacks) \cup ctxs
    BY ZenonT(40), <1>1
  <1>8. /\ commands' \in Seq(Fibers \X Nat) /\ R!Distinct(commands')
        /\ callbacks' \in Seq(Fibers \X Nat) /\ R!Distinct(callbacks')
        /\ pending' \in Seq(Fibers \X Nat) /\ R!Distinct(pending')
        /\ R!Items(pending') = ctxs'
    BY ZenonT(40), <1>1, Places
  <1> QED BY ZenonT(40), <1>4, <1>5, <1>6, <1>7, <1>8, RedisFrom

\* what says nothing of the commands
LEMMA RedisQuiet ==
  ASSUME R!RedisInv,
         UNCHANGED <<pcOfCmd, calls, fiber, woken, commands, callbacks, pending, ctxs, timeout>>
  PROVE  R!RedisInv'
  <1>1. R!TypeOK'
    BY ZenonT(40) DEF R!RedisInv, R!TypeOK
  <1>2. R!CtxHasCaller'
    BY ZenonT(40) DEF R!RedisInv, R!CtxHasCaller, R!Waits
  <1>3. (\A q \in {commands, callbacks, pending} :
           R!Distinct(q) /\ \A d \in R!Items(q) : d[2] <= calls[d[1]])'
    BY ZenonT(40) DEF R!RedisInv
  <1> QED BY ZenonT(40), <1>1, <1>2, <1>3 DEF R!RedisInv

\* RedisInv is inductive
LEMMA NextRedis == R!RedisInv /\ [R!Next]_(R!vars) => R!RedisInv'
  <1> SUFFICES ASSUME R!RedisInv, [R!Next]_(R!vars) PROVE R!RedisInv'
    OBVIOUS
  <1>1. CASE UNCHANGED R!vars
    BY ZenonT(40), <1>1, RedisQuiet DEF R!vars, R!loopVars
  <1>2. CASE R!ConnectCb \/ R!lose \/ R!DisconnectCb
    BY ZenonT(40), <1>2, RedisQuiet DEF R!ConnectCb, R!lose, R!DisconnectCb
  <1>3. CASE \E f \in Fibers : R!cmd(f) \/ R!Return(f)
    BY ZenonT(40), <1>3, RedisCmd, RedisReturn
  <1>4. CASE R!read_cb \/ R!pcmd \/ R!CmdCb
    BY Zenon, <1>4, RedisRead, RedisPcmd, RedisCmdCb
  <1>5. CASE \E c \in ctxs : R!EventCb(c)
    BY ZenonT(40), <1>5, RedisEventCb
  <1> QED BY ZenonT(40), <1>1, <1>2, <1>3, <1>4, <1>5 DEF R!Next, R!EventLoop

\* at first there is no command
LEMMA InitRedis == R!Init => R!RedisInv
  <1> SUFFICES ASSUME R!Init PROVE R!RedisInv
    OBVIOUS
  <1>1. /\ commands = <<>> /\ callbacks = <<>> /\ pending = <<>> /\ ctxs = {} /\ timeout = {}
        /\ woken = {} /\ pcOfCmd = [f \in Fibers |-> "out"]
        /\ calls = [f \in Fibers |-> 0] /\ fiber = [f \in Fibers |-> FALSE]
    BY Zenon DEF R!Init
  <1>2. \A q \in {commands, callbacks, pending} :
          q \in Seq(Fibers \X Nat) /\ DOMAIN q = {} /\ R!Items(q) = {} /\ R!Distinct(q)
    <2>1. <<>> \in Seq(Fibers \X Nat) /\ DOMAIN <<>> = {}
      OBVIOUS
    <2>2. R!Items(<<>>) = {} /\ R!Distinct(<<>>)
      BY Zenon, <2>1 DEF R!Items, R!Distinct
    <2> QED BY Zenon, <1>1, <2>1, <2>2
  <1>3. R!TypeOK
    BY <1>1, <1>2 DEF R!TypeOK
  <1>4. R!CtxHasCaller
    BY ZenonT(40), <1>1, <1>2 DEF R!CtxHasCaller
  <1> QED BY ZenonT(40), <1>1, <1>2, <1>3, <1>4 DEF R!RedisInv

\* the callbacks of FoxRedis never follow a pointer to the FCtx of a fiber
\* that has returned, however timer, reply and end of connection come
THEOREM CallersAreThere == R!Spec => []CtxHasCaller
  <1>1. R!RedisInv => CtxHasCaller
    BY Zenon DEF R!RedisInv, CtxHasCaller
  <1> QED BY InitRedis, NextRedis, <1>1, PTL DEF R!Spec

=============================================================================
