------------------------------- MODULE Tickle -------------------------------
(***************************************************************************)
(* How sleeping workers are woken (Helens/scheduler.cc, iomanager.cc,      *)
(* timer.cc): the queue, m_idleThreadCount, the tickle pipe, m_tickled and *)
(* the timeout of epoll_wait.  What the tasks do is left out; a worker     *)
(* that took one is in "run" until it ends.                                *)
(***************************************************************************)
EXTENDS Naturals, Sequences, FiniteSets, SequencesExt

CONSTANTS
  Workers,
  Clients,      \* threads or fibers that call schedule() and addTimer()
  Times,        \* expiry times; a timer is named by its time
  MaxTimeout,   \* MAX_TIMEOUT: an idle worker sleeps no longer than this
  Pins,         \* thread arguments of schedule()
  AnyThread,
  MaxPushes     \* bound on the calls of schedule()

ASSUME TickleAssumption ==
  /\ IsFiniteSet(Workers) /\ Workers # {}      \* Scheduler's constructor asserts threads > 0
  /\ Workers \cap Clients = {}
  /\ Times \subseteq Nat /\ IsFiniteSet(Times)
  /\ MaxTimeout \in Nat /\ MaxPushes \in Nat
  /\ Pins \subseteq Workers \cup {AnyThread}

VARIABLES
  m_fibers,            \* the thread of each entry of the queue
  m_idleThreadCount,
  pipe,                \* the tickle pipe holds an edge that nobody has taken
  m_timers,
  m_tickled,
  pc,                  \* of workers and clients
  until,               \* when a worker's epoll_wait times out
  reading,             \* workers that have the pipe among their results
  pushes

vars == <<m_fibers, m_idleThreadCount, pipe, m_timers, m_tickled, pc, until,
          reading, pushes>>

Init ==
  /\ m_fibers = <<>>
  /\ m_idleThreadCount = 0
  /\ pipe = FALSE
  /\ m_timers = {}
  /\ m_tickled = FALSE
  /\ pc = [p \in Workers \cup Clients |-> IF p \in Workers THEN "scan" ELSE "ready"]
  /\ until = [w \in Workers |-> MaxTimeout]
  /\ reading = {}
  /\ pushes = 0

Goto(p, label) == pc' = [pc EXCEPT ![p] = label]

-----------------------------------------------------------------------------
(* tickle(): look at m_idleThreadCount, then write to the pipe.  Each      *)
(* caller has its own place to go on to.                                   *)

After(p) == CASE pc[p] \in {"tickle", "write"}               -> "ready"
              [] pc[p] \in {"tickleRun", "writeRun"}         -> "run"
              [] pc[p] \in {"tickleEnter", "writeEnter"}     -> "enter"
              [] pc[p] \in {"tickleExpired", "writeExpired"} -> "results"

hasIdleThreads(p) ==
  /\ pc[p] \in {"tickle", "tickleRun", "tickleEnter", "tickleExpired"}
  /\ Goto(p, IF m_idleThreadCount = 0 THEN After(p)
             ELSE CASE pc[p] = "tickle"        -> "write"
                    [] pc[p] = "tickleRun"     -> "writeRun"
                    [] pc[p] = "tickleEnter"   -> "writeEnter"
                    [] pc[p] = "tickleExpired" -> "writeExpired")
  /\ UNCHANGED <<m_fibers, m_idleThreadCount, pipe, m_timers, m_tickled, until, reading, pushes>>

writePipe(p) ==
  /\ pc[p] \in {"write", "writeRun", "writeEnter", "writeExpired"}
  /\ pipe' = TRUE
  /\ Goto(p, After(p))
  /\ UNCHANGED <<m_fibers, m_idleThreadCount, m_timers, m_tickled, until, reading, pushes>>

-----------------------------------------------------------------------------
(* Clients                                                                 *)

\* only the first entry of an empty queue asks for a tickle
schedule(c, thr) ==
  /\ pc[c] = "ready"
  /\ pushes < MaxPushes
  /\ pushes' = pushes + 1
  /\ m_fibers' = Append(m_fibers, thr)
  /\ Goto(c, IF m_fibers = <<>> THEN "tickle" ELSE "ready")
  /\ UNCHANGED <<m_idleThreadCount, pipe, m_timers, m_tickled, until, reading>>

\* only a timer at the front asks for a tickle, and only one until
\* getNextTimer() is called again
addTimer(c, t) ==
  /\ pc[c] = "ready"
  /\ t \notin m_timers
  /\ m_timers' = m_timers \cup {t}
  /\ LET at_front == (\A u \in m_timers : t <= u) /\ ~m_tickled
     IN  /\ m_tickled' = (m_tickled \/ at_front)
         /\ Goto(c, IF at_front THEN "tickle" ELSE "ready")
  /\ UNCHANGED <<m_fibers, m_idleThreadCount, pipe, until, reading, pushes>>

-----------------------------------------------------------------------------
(* Workers                                                                 *)

\* mutant: the thread id -1 is not special
MineOnly(w, i) == m_fibers[i] = w

\* run() may take entry i
Mine(w, i) == m_fibers[i] \in {AnyThread, w}

\* the scan of run(): a tickle is due if something is left behind for others
take(w) ==
  /\ pc[w] = "scan"
  /\ \E i \in 1..Len(m_fibers) :
       /\ Mine(w, i)
       /\ \A j \in 1..(i-1) : ~Mine(w, j)
       /\ m_fibers' = RemoveAt(m_fibers, i)
  /\ Goto(w, IF Len(m_fibers) > 1 THEN "tickleRun" ELSE "run")
  /\ UNCHANGED <<m_idleThreadCount, pipe, m_timers, m_tickled, until, reading, pushes>>

miss(w) ==
  /\ pc[w] = "scan"
  /\ \A i \in 1..Len(m_fibers) : ~Mine(w, i)
  /\ Goto(w, IF m_fibers # <<>> THEN "tickleEnter" ELSE "enter")
  /\ UNCHANGED <<m_fibers, m_idleThreadCount, pipe, m_timers, m_tickled, until, reading, pushes>>

finish(w) ==
  /\ pc[w] = "run"
  /\ Goto(w, "scan")
  /\ UNCHANGED <<m_fibers, m_idleThreadCount, pipe, m_timers, m_tickled, until, reading, pushes>>

\* ++m_idleThreadCount, then the idle fiber is switched in
enterIdle(w) ==
  /\ pc[w] = "enter"
  /\ m_idleThreadCount' = m_idleThreadCount + 1
  /\ Goto(w, "getNextTimer")
  /\ UNCHANGED <<m_fibers, pipe, m_timers, m_tickled, until, reading, pushes>>

\* mutant: m_tickled is not cleared
getNextTimerTickled(w) ==
  /\ pc[w] = "getNextTimer"
  /\ until' = [until EXCEPT ![w] =
       CHOOSE t \in m_timers \cup {MaxTimeout} :
         \A u \in m_timers \cup {MaxTimeout} : t <= u]
  /\ Goto(w, "epoll")
  /\ UNCHANGED <<m_fibers, m_idleThreadCount, pipe, m_timers, m_tickled, reading, pushes>>

\* stopping(timeout) reads the first timer; the wait is cut to MAX_TIMEOUT
getNextTimer(w) ==
  /\ pc[w] = "getNextTimer"
  /\ m_tickled' = FALSE
  /\ until' = [until EXCEPT ![w] =
       CHOOSE t \in m_timers \cup {MaxTimeout} :
         \A u \in m_timers \cup {MaxTimeout} : t <= u]
  /\ Goto(w, "epoll")
  /\ UNCHANGED <<m_fibers, m_idleThreadCount, pipe, m_timers, reading, pushes>>

\* epoll_wait returns the pipe, or its time is over
tickled(w) ==
  /\ pc[w] = "epoll" /\ pipe
  /\ pipe' = FALSE
  /\ reading' = reading \cup {w}
  /\ Goto(w, "expire")
  /\ UNCHANGED <<m_fibers, m_idleThreadCount, m_timers, m_tickled, until, pushes>>

timeout(w) ==
  /\ pc[w] = "epoll"
  /\ Goto(w, "expire")
  /\ UNCHANGED <<m_fibers, m_idleThreadCount, pipe, m_timers, m_tickled, until, reading, pushes>>

\* listExpiredCb takes the timers up to now and schedules their callbacks
listExpiredCb(w) ==
  /\ pc[w] = "expire"
  /\ \E now \in Times \cup {0} :
       LET expired == {t \in m_timers : t <= now}
       IN  /\ m_timers' = m_timers \ expired
           /\ m_fibers' = m_fibers \o [i \in 1..Cardinality(expired) |-> AnyThread]
           /\ Goto(w, IF m_fibers = <<>> /\ expired # {} THEN "tickleExpired"
                                                         ELSE "results")
  /\ UNCHANGED <<m_idleThreadCount, pipe, m_tickled, until, reading, pushes>>

\* the pipe, if it is among the results, is read until it is empty; then
\* idle() switches out and run() counts the worker as no longer idle
drainPipe(w) ==
  /\ pc[w] = "results"
  /\ pipe' = (pipe /\ w \notin reading)
  /\ reading' = reading \ {w}
  /\ Goto(w, "leave")
  /\ UNCHANGED <<m_fibers, m_idleThreadCount, m_timers, m_tickled, until, pushes>>

leaveIdle(w) ==
  /\ pc[w] = "leave"
  /\ m_idleThreadCount' = m_idleThreadCount - 1
  /\ Goto(w, "scan")
  /\ UNCHANGED <<m_fibers, pipe, m_timers, m_tickled, until, reading, pushes>>

-----------------------------------------------------------------------------
Client(c) ==
  \/ \E thr \in Pins : schedule(c, thr)
  \/ \E t \in Times : addTimer(c, t)
  \/ hasIdleThreads(c) \/ writePipe(c)

Worker(w) ==
  \/ take(w) \/ miss(w) \/ finish(w) \/ hasIdleThreads(w) \/ writePipe(w)
  \/ enterIdle(w) \/ getNextTimer(w) \/ tickled(w) \/ timeout(w)
  \/ listExpiredCb(w) \/ drainPipe(w) \/ leaveIdle(w)

Next == (\E c \in Clients : Client(c)) \/ (\E w \in Workers : Worker(w))

Spec == Init /\ [][Next]_vars

(* The threads run; tasks end; epoll_wait ends after MAX_TIMEOUT at most.  *)
FairSpec == Spec /\ \A w \in Workers : WF_vars(Worker(w))

-----------------------------------------------------------------------------
(* Properties                                                              *)

Asleep(w) == pc[w] = "epoll"

InTickle == {"tickle", "write", "tickleRun", "writeRun", "tickleEnter",
             "writeEnter", "tickleExpired", "writeExpired"}

\* somebody is about to write to the pipe, or has
TickleDue == pipe \/ \E p \in Workers \cup Clients : pc[p] \in InTickle

IdleSection == {"getNextTimer", "epoll", "expire", "tickleExpired",
                "writeExpired", "results", "leave"}

Label == InTickle \cup IdleSection \cup {"ready", "scan", "run", "enter"}

(* Every variable has its type, and m_idleThreadCount, a size_t that run()
   counts up and down around the idle fiber, is the number of workers there. *)
TypeOK ==
  /\ pc \in [Workers \cup Clients -> Label]
  /\ m_fibers \in Seq(Workers \cup {AnyThread})
  /\ m_idleThreadCount \in Nat
  /\ pipe \in BOOLEAN /\ m_tickled \in BOOLEAN
  /\ m_timers \subseteq Times
  /\ until \in [Workers -> Times \cup {MaxTimeout}]
  /\ reading \subseteq Workers /\ pushes \in 0..MaxPushes
  /\ m_idleThreadCount = Cardinality({w \in Workers : pc[w] \in IdleSection})

(* The m_tickled protocol: while a timer waits, some worker is awake and
   will look at the timers before it sleeps, or sleeps no longer than the
   timer, or is about to be woken.  One tickle for several insertions is
   enough, however getNextTimer(), addTimer() and hasIdleThreads()
   interleave.                                                             *)
TimerIsWatched ==
  \A t \in m_timers : t <= MaxTimeout =>
    \/ \E w \in Workers : ~Asleep(w) \/ until[w] <= t
    \/ TickleDue

\* a tickle that was asked for is not forgotten: m_tickled keeps others from
\* asking only while somebody is awake or about to be woken
TickledInv == m_tickled => (\E w \in Workers : ~Asleep(w)) \/ TickleDue

\* the inductive invariant behind TimerIsWatched
TickleInv == TypeOK /\ TimerIsWatched /\ TickledInv

(* Every task is taken in the end, if only because epoll_wait times out.   *)
TasksAreTaken == []<>(m_fibers = <<>>)

=============================================================================
