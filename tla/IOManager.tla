----------------------------- MODULE IOManager -----------------------------
(***************************************************************************)
(* The fd events of IOManager (Helens/iomanager.cc): addEvent, delEvent,   *)
(* cancelEvent, cancelAll and the part of idle() that turns the results of *)
(* epoll_wait into scheduled fibers.  Each of them works under the mutex   *)
(* of one FdContext, so each is one step; between epoll_wait and the lock  *)
(* any other thread may come in, so a worker keeps its results in a        *)
(* variable.  The clients are one fiber per fd and event, as addEvent      *)
(* demands.  epoll is external: an edge-triggered interest list, where     *)
(* EPOLL_CTL_ADD and EPOLL_CTL_MOD look at the readiness again.            *)
(***************************************************************************)
EXTENDS Naturals, FiniteSets

CONSTANTS
  Workers,      \* threads that run idle()
  Fds,
  Events,       \* the events clients register: a subset of {"READ", "WRITE"}
  MaxToggles    \* bound on the arrivals of data, room or errors

ASSUME IOManagerAssumption ==
  /\ IsFiniteSet(Workers) /\ IsFiniteSet(Fds)
  /\ Events \subseteq {"READ", "WRITE"}
  /\ MaxToggles \in Nat

VARIABLES
  events,               \* fd_ctx->events
  m_pendingEventCount,
  results,              \* what a worker has still to handle of epoll_wait's list
  scheduled,            \* clients triggered and not yet resumed
  asserted,             \* a HELENS_ASSERT failed: the process is gone
  interest,             \* kernel: the events an fd is watched for, {} if none
  ready,                \* kernel: what an fd is ready for; "ERR" for both
  edge,                 \* kernel: the ready list of the epoll instance
  closed,               \* kernel: fds that were closed while they were watched
  toggles

vars == <<events, m_pendingEventCount, results, scheduled, asserted,
          interest, ready, edge, closed, toggles>>

kernel == <<interest, ready, edge, closed, toggles>>

Init ==
  /\ events = [fd \in Fds |-> {}]
  /\ m_pendingEventCount = 0
  /\ results = [w \in Workers |-> {}]
  /\ scheduled = {}
  /\ asserted = FALSE
  /\ interest = [fd \in Fds |-> {}]
  /\ ready = [fd \in Fds |-> {}]
  /\ edge = [fd \in Fds |-> {}]
  /\ closed = {}
  /\ toggles = 0

-----------------------------------------------------------------------------
(* The kernel                                                              *)

\* what epoll reports of an fd: the ready events it watches; EPOLLERR always
Reported(watched, rdy) == rdy \cap (watched \cup {"ERR"})

\* epoll_ctl: ADD and MOD queue the fd if it is ready, DEL (new = {}) forgets
\* it; MOD and DEL of an fd that epoll does not have fail
epoll_ctl(fd, new) ==
  /\ fd \notin closed
  /\ interest' = [interest EXCEPT ![fd] = new]
  /\ edge' = [edge EXCEPT ![fd] = IF new = {} THEN {} ELSE Reported(new, ready[fd])]
  /\ UNCHANGED <<ready, closed, toggles>>

\* close_f(): epoll forgets the fd, whose context keeps its registrations,
\* also when the number is given out again.  close() calls cancelAll before,
\* but another thread may register in between.
close_f(fd) ==
  /\ interest[fd] # {}
  /\ interest' = [interest EXCEPT ![fd] = {}]
  /\ edge' = [edge EXCEPT ![fd] = {}]
  /\ closed' = closed \cup {fd}
  /\ UNCHANGED <<events, m_pendingEventCount, results, scheduled, asserted, ready, toggles>>

\* data or room arrives, or an error: an edge, if the fd is watched
BecomeReady(fd, e) ==
  /\ toggles < MaxToggles
  /\ toggles' = toggles + 1
  /\ ready' = [ready EXCEPT ![fd] = @ \cup {e}]
  /\ edge' = [edge EXCEPT ![fd] =
                IF interest[fd] # {} /\ Reported(interest[fd], {e}) # {}
                  THEN Reported(interest[fd], ready[fd] \cup {e}) ELSE @]
  /\ UNCHANGED <<events, m_pendingEventCount, results, scheduled, asserted,
                 interest, closed>>

\* a client reads or writes until EAGAIN
Drain(fd, e) ==
  /\ e \in ready[fd]
  /\ e \notin events[fd] /\ <<fd, e>> \notin scheduled
  /\ ready' = [ready EXCEPT ![fd] = @ \ {e}]
  /\ edge' = [edge EXCEPT ![fd] = @ \ {e}]
  /\ UNCHANGED <<events, m_pendingEventCount, results, scheduled, asserted,
                 interest, closed, toggles>>

-----------------------------------------------------------------------------
(* Clients.  Each function looks the context up, then takes its mutex; when *)
(* the event is not registered, or epoll_ctl fails, it returns and nothing  *)
(* has changed.                                                             *)

\* mutant: EPOLL_CTL_MOD with the new event alone
addEventAlone(fd, e) ==
  /\ e \notin events[fd] /\ <<fd, e>> \notin scheduled
  /\ events' = [events EXCEPT ![fd] = @ \cup {e}]
  /\ m_pendingEventCount' = m_pendingEventCount + 1
  /\ epoll_ctl(fd, {e})
  /\ UNCHANGED <<results, scheduled, asserted>>

\* the client of <<fd, e>> waits for it
addEvent(fd, e) ==
  /\ e \notin events[fd] /\ <<fd, e>> \notin scheduled
  /\ events' = [events EXCEPT ![fd] = @ \cup {e}]
  /\ m_pendingEventCount' = m_pendingEventCount + 1
  /\ epoll_ctl(fd, events[fd] \cup {e})
  /\ UNCHANGED <<results, scheduled, asserted>>

\* mutant: --m_pendingEventCount is missing
delEventUncounted(fd, e) ==
  /\ e \in events[fd]
  /\ events' = [events EXCEPT ![fd] = @ \ {e}]
  /\ epoll_ctl(fd, events[fd] \ {e})
  /\ UNCHANGED <<m_pendingEventCount, results, scheduled, asserted>>

\* the registration is withdrawn; its owner is not resumed
delEvent(fd, e) ==
  /\ e \in events[fd]
  /\ events' = [events EXCEPT ![fd] = @ \ {e}]
  /\ m_pendingEventCount' = m_pendingEventCount - 1
  /\ epoll_ctl(fd, events[fd] \ {e})
  /\ UNCHANGED <<results, scheduled, asserted>>

\* the owner is resumed at once, e.g. by a timeout
cancelEvent(fd, e) ==
  /\ e \in events[fd]
  /\ events' = [events EXCEPT ![fd] = @ \ {e}]
  /\ scheduled' = scheduled \cup {<<fd, e>>}
  /\ m_pendingEventCount' = m_pendingEventCount - 1
  /\ epoll_ctl(fd, events[fd] \ {e})
  /\ UNCHANGED <<results, asserted>>

\* every owner is resumed, e.g. by close()
cancelAll(fd) ==
  /\ events[fd] # {}
  /\ events' = [events EXCEPT ![fd] = {}]
  /\ scheduled' = scheduled \cup {<<fd, e>> : e \in events[fd]}
  /\ m_pendingEventCount' = m_pendingEventCount - Cardinality(events[fd])
  /\ epoll_ctl(fd, {})
  /\ UNCHANGED <<results, asserted>>

\* the scheduler runs a triggered client
Resume(fd, e) ==
  /\ <<fd, e>> \in scheduled
  /\ scheduled' = scheduled \ {<<fd, e>>}
  /\ UNCHANGED <<events, m_pendingEventCount, results, asserted, kernel>>

-----------------------------------------------------------------------------
(* idle()                                                                  *)

\* epoll_wait hands the ready list to one worker
epoll_wait(w) ==
  /\ results[w] = {}
  /\ \E fd \in Fds : edge[fd] # {}
  /\ results' = [results EXCEPT ![w] =
       {[fd |-> fd, events |-> edge[fd]] : fd \in {x \in Fds : edge[x] # {}}}]
  /\ edge' = [fd \in Fds |-> {}]
  /\ UNCHANGED <<events, m_pendingEventCount, scheduled, asserted, interest,
                 ready, closed, toggles>>

\* mutant: EPOLLERR and EPOLLHUP are not looked at
real_eventsNoErr(r) == r.events \cap {"READ", "WRITE"}

\* what a result asks for: an error wakes whoever is registered
real_events(r) ==
  (r.events \cap {"READ", "WRITE"})
    \cup (IF "ERR" \in r.events THEN events[r.fd] ELSE {})

\* mutant: the event is armed again instead of being triggered
handleRearms(w, r) ==
  /\ r \in results[w]
  /\ results' = [results EXCEPT ![w] = @ \ {r}]
  /\ epoll_ctl(r.fd, events[r.fd])
  /\ UNCHANGED <<events, m_pendingEventCount, scheduled, asserted>>

\* one result, under the lock of its context; triggerEvent asserts that each
\* of real_events is registered, READ first
handle(w, r) ==
  /\ r \in results[w]
  /\ results' = [results EXCEPT ![w] = @ \ {r}]
  /\ LET fd == r.fd
         real == real_events(r)
     IN  \/ /\ events[fd] \cap real = {}
            /\ UNCHANGED <<events, m_pendingEventCount, scheduled, asserted, kernel>>
         \/ /\ events[fd] \cap real # {} /\ fd \in closed
            /\ UNCHANGED <<events, m_pendingEventCount, scheduled, asserted, kernel>>
         \/ /\ events[fd] \cap real # {}
            /\ epoll_ctl(fd, events[fd] \ real)
            /\ asserted' = ~(real \subseteq events[fd])
            /\ events' = [events EXCEPT ![fd] = @ \ real]
            /\ scheduled' = scheduled \cup {<<fd, e>> : e \in events[fd] \cap real}
            /\ m_pendingEventCount' =
                 m_pendingEventCount - Cardinality(events[fd] \cap real)

Idle(w) == ~asserted /\ (epoll_wait(w) \/ \E r \in results[w] : handle(w, r))

Client(fd, e) ==
  /\ ~asserted
  /\ \/ addEvent(fd, e) \/ delEvent(fd, e) \/ cancelEvent(fd, e)
     \/ Resume(fd, e) \/ Drain(fd, e)

Next ==
  \/ \E fd \in Fds, e \in Events : Client(fd, e)
  \/ \E fd \in Fds : ~asserted /\ (cancelAll(fd) \/ close_f(fd))
  \/ \E fd \in Fds, e \in Events \cup {"ERR"} : ~asserted /\ BecomeReady(fd, e)
  \/ \E w \in Workers : Idle(w)

(* Workers keep handling what epoll_wait gave them and keep calling it;
   the scheduler keeps running what was triggered.                         *)
Fairness ==
  /\ \A w \in Workers : WF_vars(Idle(w))
  /\ \A fd \in Fds, e \in Events : WF_vars(~asserted /\ Resume(fd, e))

Spec == Init /\ [][Next]_vars

FairSpec == Spec /\ Fairness

-----------------------------------------------------------------------------
(* Properties                                                              *)

TypeOK ==
  /\ events \in [Fds -> SUBSET Events]
  /\ m_pendingEventCount \in Nat
  /\ \A w \in Workers : \A r \in results[w] :
       r.fd \in Fds /\ r.events \subseteq Events \cup {"ERR"}
  /\ scheduled \subseteq Fds \X Events
  /\ asserted \in BOOLEAN
  /\ interest \in [Fds -> SUBSET Events]
  /\ ready \in [Fds -> SUBSET (Events \cup {"ERR"})]
  /\ edge \in [Fds -> SUBSET (Events \cup {"ERR"})]
  /\ closed \subseteq Fds
  /\ toggles \in 0..MaxToggles

\* the registrations, over all contexts
Registered == {p \in Fds \X Events : p[2] \in events[p[1]]}

(* m_pendingEventCount, which keeps the scheduler from stopping, is the
   number of registrations, whichever of five functions ended each.        *)
PendingIsRegistered == m_pendingEventCount = Cardinality(Registered)

(* The kernel watches an fd for exactly what its context says: if it watched
   less an event would be lost, if more there would be nobody to resume.
   It watches an fd that was closed for nothing.                           *)
KernelAgrees ==
  \A fd \in Fds : interest[fd] = IF fd \in closed THEN {} ELSE events[fd]

(* An event that is registered and ready is in the ready list or in the
   results of a worker, unless the fd was closed: an edge that was taken for
   one registration is not lost to another one made meanwhile.             *)
NoEdgeLost ==
  ~asserted =>
    \A fd \in Fds, e \in Events :
      fd \notin closed /\ e \in events[fd] /\ ready[fd] \cap {e, "ERR"} # {} =>
        \/ edge[fd] \cap {e, "ERR"} # {}
        \/ \E w \in Workers : \E r \in results[w] :
             r.fd = fd /\ r.events \cap {e, "ERR"} # {}

(* triggerEvent's HELENS_ASSERT(events & event) does not fail.             *)
TriggerAssertion == ~asserted

(* A client whose fd is ready is resumed, unless it withdraws or the fd is
   closed below it.                                                        *)
ReadyIsServed ==
  \A fd \in Fds, e \in Events :
    e \in events[fd] /\ ready[fd] \cap {e, "ERR"} # {}
      ~> e \notin events[fd] \/ asserted \/ fd \in closed

=============================================================================
