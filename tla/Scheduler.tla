------------------------------ MODULE Scheduler ------------------------------
(***************************************************************************)
(* The N:M fiber scheduler (Helens/scheduler.cc, scheduler.h) with the     *)
(* fibers it runs (Helens/fiber.cc): the task queue, the run() loop of     *)
(* every worker thread, the states of the fibers and the stop protocol.    *)
(*                                                                         *)
(* A step is what a thread does between two points where another thread    *)
(* can see it: a section under m_mutex, one access of an unlocked shared   *)
(* field, one context switch.  The workers belong to an IOManager, the     *)
(* only Scheduler the framework instantiates: stopping() is the override   *)
(* of iomanager.cc, which reads the timers, the pending events and the     *)
(* base-class condition one after the other.  Where the wake-up of a held  *)
(* fiber comes from (an fd event, a timer) is the subject of IOManager.tla *)
(* and Timer.tla; here it is a one-shot registration, variable armed.      *)
(* tickle() shortens a wait and changes nothing here: see Tickle.tla.      *)
(***************************************************************************)
EXTENDS Naturals, Sequences, FiniteSets, Functions

CONSTANTS
  Threads,      \* the worker threads, the caller's thread included
  Root,         \* the caller's thread (use_caller), or nullptr
  UserFibers,   \* fibers that clients create and schedule
  CbFibers,     \* fiber objects that run() makes for callbacks (a bound)
  Callbacks,    \* callbacks that clients schedule, each at most once
  Pins,         \* the thread arguments clients pass to schedule()
  MaxYields,    \* bound on the yields, switches and stale schedules
  AnyThread,    \* the thread id -1
  nullptr

Fibers == UserFibers \cup CbFibers

ASSUME SchedulerAssumption ==
  /\ IsFiniteSet(Threads) /\ IsFiniteSet(UserFibers) /\ IsFiniteSet(CbFibers)
  /\ Root \in Threads \cup {nullptr}
  /\ Pins \subseteq Threads \cup {AnyThread}
  /\ AnyThread \notin Threads
  /\ nullptr \notin Threads \cup Fibers \cup Callbacks
  /\ UserFibers \cap CbFibers = {}
  /\ Fibers \cap Callbacks = {}
  /\ MaxYields \in Nat

VARIABLES
  m_fibers,             \* queue of [task, thread]
  m_activeThreadCount,
  m_stopping,           \* m_stopping and m_autoStop, set together by stop()
  m_state,              \* Fiber::State; "FREE" is a fiber that does not exist
  m_cb,                 \* the callback a fiber of CbFibers runs
  pc,                   \* where each worker is in run() and idle()
  ft,                   \* the task a worker took from the queue
  cb_fiber,             \* run()'s local cb_fiber
  idle_fiber,           \* state of run()'s local idle_fiber, "NONE" before run()
  armed,                \* outstanding one-shot wake-up of each fiber
  cbs,                  \* expired timers that idle() has not yet scheduled
  unscheduled,          \* tasks that no client has scheduled yet
  finished,             \* callbacks that have run to their end
  yields                \* yields so far, up to MaxYields

vars == <<m_fibers, m_activeThreadCount, m_stopping, m_state, m_cb, pc, ft,
          cb_fiber, idle_fiber, armed, cbs, unscheduled, finished, yields>>

Task == Fibers \cup Callbacks

Entry == [task : Task, thread : Threads \cup {AnyThread}]

Ended == {"TERM", "EXCEPT"}

Running == {"exec", "out"}                       \* on the stack of a task
Busy    == {"took", "exec", "out", "back"}       \* counted as active
Holding == Busy \cup {"post"}                    \* ft[w] is in use

\* The fiber that worker w runs or has just run.
Cur(w) == IF ft[w] \in Callbacks THEN cb_fiber[w] ELSE ft[w]

Init ==
  /\ m_fibers = <<>>
  /\ m_activeThreadCount = 0
  /\ m_stopping = FALSE
  /\ m_state = [f \in Fibers |-> IF f \in UserFibers THEN "INIT" ELSE "FREE"]
  /\ m_cb = [f \in CbFibers |-> nullptr]
  /\ pc = [w \in Threads |-> IF w = Root THEN "parked" ELSE "scan"]
  /\ ft = [w \in Threads |-> nullptr]
  /\ cb_fiber = [w \in Threads |-> nullptr]
  /\ idle_fiber = [w \in Threads |-> IF w = Root THEN "NONE" ELSE "INIT"]
  /\ armed = [f \in Fibers |-> "no"]
  /\ cbs = [w \in Threads |-> {}]
  /\ unscheduled = UserFibers \cup Callbacks
  /\ finished = {}
  /\ yields = 0

Goto(w, label) == pc' = [pc EXCEPT ![w] = label]

-----------------------------------------------------------------------------
(* Queue operations, each a section under m_mutex.                         *)

\* scheduleNoLock pushes at the back
schedule(t, thr) == m_fibers' = Append(m_fibers, [task |-> t, thread |-> thr])

\* mutant: the entry stays in the queue
eraseNothing(q, i) == q

\* m_fibers.erase(it): the entries before and after stay in order
erase(q, i) == SubSeq(q, 1, i-1) \o SubSeq(q, i+1, Len(q))

\* mutant: the state of the fiber is not looked at
TakeableRunning(w, i) == m_fibers[i].thread \in {AnyThread, w}

\* mutant: the thread id -1 is not special
TakeableUnpinned(w, i) ==
  /\ m_fibers[i].thread = w
  /\ m_fibers[i].task \in Fibers => m_state[m_fibers[i].task] # "EXEC"

\* run() may take entry i: it is not pinned elsewhere, its fiber not running
Takeable(w, i) ==
  /\ m_fibers[i].thread \in {AnyThread, w}
  /\ m_fibers[i].task \in Fibers => m_state[m_fibers[i].task] # "EXEC"

\* the base-class condition, read under m_mutex
stopping == m_stopping /\ m_fibers = <<>> /\ m_activeThreadCount = 0

-----------------------------------------------------------------------------
(* run(): the scan of the queue and the three branches after it.           *)

Take(w) ==
  /\ pc[w] = "scan"
  /\ \E i \in 1..Len(m_fibers) :
       /\ Takeable(w, i)
       /\ \A j \in 1..(i-1) : ~Takeable(w, j)
       /\ ft' = [ft EXCEPT ![w] = m_fibers[i].task]
       /\ m_fibers' = erase(m_fibers, i)
  /\ m_activeThreadCount' = m_activeThreadCount + 1
  /\ Goto(w, "took")
  /\ UNCHANGED <<m_stopping, m_state, m_cb, cb_fiber, idle_fiber, armed, cbs,
                 unscheduled, finished, yields>>

\* nothing to take: run the idle fiber, or leave run() if it has ended
Miss(w) ==
  /\ pc[w] = "scan"
  /\ \A i \in 1..Len(m_fibers) : ~Takeable(w, i)
  /\ IF idle_fiber[w] = "TERM"
       THEN /\ Goto(w, "exit")
            /\ idle_fiber' = idle_fiber
            /\ m_state' = [f \in Fibers |-> IF f = cb_fiber[w] THEN "FREE"
                                                               ELSE m_state[f]]
            /\ cb_fiber' = [cb_fiber EXCEPT ![w] = nullptr]
       ELSE /\ Goto(w, "readTimers")
            /\ idle_fiber' = [idle_fiber EXCEPT ![w] = "EXEC"]
            /\ UNCHANGED <<m_state, cb_fiber>>
  /\ UNCHANGED <<m_fibers, m_activeThreadCount, m_stopping, m_cb, ft, armed,
                 cbs, unscheduled, finished, yields>>

\* mutant: m_state = EXEC is missing
RunFiberUnmarked(w) ==
  /\ pc[w] = "took"
  /\ ft[w] \in Fibers
  /\ m_state[ft[w]] \notin Ended
  /\ Goto(w, "exec")
  /\ UNCHANGED <<m_fibers, m_activeThreadCount, m_stopping, m_state, m_cb, ft,
                 cb_fiber, idle_fiber, armed, cbs, unscheduled, finished, yields>>

\* swapIn() of a fiber that was scheduled
RunFiber(w) ==
  /\ pc[w] = "took"
  /\ ft[w] \in Fibers
  /\ m_state[ft[w]] \notin Ended
  /\ m_state' = [m_state EXCEPT ![ft[w]] = "EXEC"]
  /\ Goto(w, "exec")
  /\ UNCHANGED <<m_fibers, m_activeThreadCount, m_stopping, m_cb, ft, cb_fiber,
                 idle_fiber, armed, cbs, unscheduled, finished, yields>>

\* mutant: --m_activeThreadCount is missing
DropFiberCounted(w) ==
  /\ pc[w] = "took"
  /\ ft[w] \in Fibers
  /\ m_state[ft[w]] \in Ended
  /\ ft' = [ft EXCEPT ![w] = nullptr]
  /\ Goto(w, "scan")
  /\ UNCHANGED <<m_fibers, m_activeThreadCount, m_stopping, m_state, m_cb,
                 cb_fiber, idle_fiber, armed, cbs, unscheduled, finished, yields>>

\* a fiber that has already ended is dropped
DropFiber(w) ==
  /\ pc[w] = "took"
  /\ ft[w] \in Fibers
  /\ m_state[ft[w]] \in Ended
  /\ m_activeThreadCount' = m_activeThreadCount - 1
  /\ ft' = [ft EXCEPT ![w] = nullptr]
  /\ Goto(w, "scan")
  /\ UNCHANGED <<m_fibers, m_stopping, m_state, m_cb, cb_fiber, idle_fiber,
                 armed, cbs, unscheduled, finished, yields>>

\* a callback runs on the worker's cb_fiber, reused or new
RunCallback(w) ==
  /\ pc[w] = "took"
  /\ ft[w] \in Callbacks
  /\ \E f \in CbFibers :
       /\ IF cb_fiber[w] # nullptr THEN f = cb_fiber[w] ELSE m_state[f] = "FREE"
       /\ cb_fiber' = [cb_fiber EXCEPT ![w] = f]
       /\ m_cb' = [m_cb EXCEPT ![f] = ft[w]]
       /\ m_state' = [m_state EXCEPT ![f] = "EXEC"]
  /\ Goto(w, "exec")
  /\ UNCHANGED <<m_fibers, m_activeThreadCount, m_stopping, ft, idle_fiber,
                 armed, cbs, unscheduled, finished, yields>>

-----------------------------------------------------------------------------
(* What the running task does to its own fiber.                            *)

\* registers a wake-up (addEvent, addTimer), then calls YieldToHold(), which
\* leaves the state EXEC: run() sets HOLD after the switch
Arm(w, kind) ==
  /\ pc[w] = "exec"
  /\ yields < MaxYields
  /\ yields' = yields + 1
  /\ armed' = [armed EXCEPT ![Cur(w)] = kind]
  /\ Goto(w, "out")
  /\ UNCHANGED <<m_fibers, m_activeThreadCount, m_stopping, m_state, m_cb, ft,
                 cb_fiber, idle_fiber, cbs, unscheduled, finished>>

\* puts itself in the queue, then calls YieldToHold()
switchTo(w, thr) ==
  /\ pc[w] = "exec"
  /\ yields < MaxYields
  /\ thr \notin {w, AnyThread}
  /\ yields' = yields + 1
  /\ schedule(Cur(w), thr)
  /\ Goto(w, "out")
  /\ UNCHANGED <<m_activeThreadCount, m_stopping, m_state, m_cb, ft, cb_fiber,
                 idle_fiber, armed, cbs, unscheduled, finished>>

\* READY is set while the fiber is still on its stack
YieldToReady(w) ==
  /\ pc[w] = "exec"
  /\ yields < MaxYields
  /\ yields' = yields + 1
  /\ m_state' = [m_state EXCEPT ![Cur(w)] = "READY"]
  /\ Goto(w, "out")
  /\ UNCHANGED <<m_fibers, m_activeThreadCount, m_stopping, m_cb, ft, cb_fiber,
                 idle_fiber, armed, cbs, unscheduled, finished>>

\* the task returns or throws; MainFunc sets the state, then switches
Finish(w, s) ==
  /\ pc[w] = "exec"
  /\ m_state' = [m_state EXCEPT ![Cur(w)] = s]
  /\ finished' = IF Cur(w) \in CbFibers
                   THEN finished \cup {m_cb[Cur(w)]} ELSE finished
  /\ m_cb' = IF Cur(w) \in CbFibers /\ s = "TERM"
               THEN [m_cb EXCEPT ![Cur(w)] = nullptr] ELSE m_cb
  /\ Goto(w, "out")
  /\ UNCHANGED <<m_fibers, m_activeThreadCount, m_stopping, ft, cb_fiber,
                 idle_fiber, armed, cbs, unscheduled, yields>>

\* swapcontext saves the fiber and returns to run()
swapOut(w) ==
  /\ pc[w] = "out"
  /\ Goto(w, "back")
  /\ UNCHANGED <<m_fibers, m_activeThreadCount, m_stopping, m_state, m_cb, ft,
                 cb_fiber, idle_fiber, armed, cbs, unscheduled, finished, yields>>

\* --m_activeThreadCount comes before the fiber is looked at
Back(w) ==
  /\ pc[w] = "back"
  /\ m_activeThreadCount' = m_activeThreadCount - 1
  /\ Goto(w, "post")
  /\ UNCHANGED <<m_fibers, m_stopping, m_state, m_cb, ft, cb_fiber, idle_fiber,
                 armed, cbs, unscheduled, finished, yields>>

\* the state of a fiber after run() has looked at it: an ended cb_fiber is
\* reset, an ended fiber run() made and no longer holds is destroyed
PostState(w, f) ==
  IF m_state[f] = "READY" THEN "READY"
  ELSE IF m_state[f] \notin Ended THEN "HOLD"
  ELSE IF ft[w] \in Callbacks THEN "INIT"
  ELSE IF f \in CbFibers THEN "FREE"
  ELSE m_state[f]

Post(w) ==
  /\ pc[w] = "post"
  /\ IF m_state[Cur(w)] = "READY"
       THEN schedule(Cur(w), AnyThread)
       ELSE m_fibers' = m_fibers
  /\ m_state' = [m_state EXCEPT ![Cur(w)] = PostState(w, Cur(w))]
  /\ cb_fiber' = IF ft[w] \in Callbacks /\ m_state[Cur(w)] \notin Ended
                   THEN [cb_fiber EXCEPT ![w] = nullptr] ELSE cb_fiber
  /\ m_cb' = IF Cur(w) \in CbFibers /\ m_state[Cur(w)] \in Ended
               THEN [m_cb EXCEPT ![Cur(w)] = nullptr] ELSE m_cb
  /\ ft' = [ft EXCEPT ![w] = nullptr]
  /\ Goto(w, "scan")
  /\ UNCHANGED <<m_activeThreadCount, m_stopping, idle_fiber, armed, cbs,
                 unscheduled, finished, yields>>

-----------------------------------------------------------------------------
(* idle() and stopping(timeout): three reads at three moments.  The caller *)
(* of stop() makes the same test before it enters run().                   *)

Armed(kind) == {f \in Fibers : armed[f] = kind}

\* the test failed: idle() goes on to epoll_wait, the root thread enters run()
GoOn(w) ==
  IF idle_fiber[w] = "NONE"
    THEN /\ idle_fiber' = [idle_fiber EXCEPT ![w] = "INIT"]
         /\ Goto(w, "scan")
    ELSE /\ idle_fiber' = idle_fiber
         /\ Goto(w, "epoll")

readTimers(w) ==
  /\ pc[w] = "readTimers"
  /\ IF Armed("timer") = {}
       THEN Goto(w, "readEvents") /\ idle_fiber' = idle_fiber
       ELSE GoOn(w)
  /\ UNCHANGED <<m_fibers, m_activeThreadCount, m_stopping, m_state, m_cb, ft,
                 cb_fiber, armed, cbs, unscheduled, finished, yields>>

readEvents(w) ==
  /\ pc[w] = "readEvents"
  /\ IF Armed("event") = {}
       THEN Goto(w, "readQueue") /\ idle_fiber' = idle_fiber
       ELSE GoOn(w)
  /\ UNCHANGED <<m_fibers, m_activeThreadCount, m_stopping, m_state, m_cb, ft,
                 cb_fiber, armed, cbs, unscheduled, finished, yields>>

\* true: the idle fiber ends, run() scans once more; the root thread joins
readQueue(w) ==
  /\ pc[w] = "readQueue"
  /\ IF ~stopping THEN GoOn(w)
     ELSE IF idle_fiber[w] = "NONE"
       THEN Goto(w, "exit") /\ idle_fiber' = idle_fiber
       ELSE Goto(w, "scan") /\ idle_fiber' = [idle_fiber EXCEPT ![w] = "TERM"]
  /\ UNCHANGED <<m_fibers, m_activeThreadCount, m_stopping, m_state, m_cb, ft,
                 cb_fiber, armed, cbs, unscheduled, finished, yields>>

\* listExpiredCb moves expired timers to the local cbs: a fiber stands for the
\* callback that will schedule it, and in the queue for either of the two ...
listExpiredCb(w) ==
  /\ pc[w] = "epoll"
  /\ \E S \in SUBSET Armed("timer") :
       /\ S # {}
       /\ cbs' = [cbs EXCEPT ![w] = S]
       /\ armed' = [f \in Fibers |-> IF f \in S THEN "no" ELSE armed[f]]
  /\ Goto(w, "expired")
  /\ UNCHANGED <<m_fibers, m_activeThreadCount, m_stopping, m_state, m_cb, ft,
                 cb_fiber, idle_fiber, unscheduled, finished, yields>>

\* ... and schedule(begin, end) puts them in the queue in one section
scheduleExpired(w) ==
  /\ pc[w] = "expired"
  /\ \E q \in Bijection(1..Cardinality(cbs[w]), cbs[w]) :
       m_fibers' = m_fibers \o [i \in 1..Cardinality(cbs[w]) |->
                                  [task |-> q[i], thread |-> AnyThread]]
  /\ cbs' = [cbs EXCEPT ![w] = {}]
  /\ Goto(w, "yield")
  /\ UNCHANGED <<m_activeThreadCount, m_stopping, m_state, m_cb, ft, cb_fiber,
                 idle_fiber, armed, unscheduled, finished, yields>>

\* idle() switches back to run()
IdleYield(w) ==
  /\ pc[w] \in {"epoll", "yield"}
  /\ idle_fiber' = [idle_fiber EXCEPT ![w] = "HOLD"]
  /\ Goto(w, "scan")
  /\ UNCHANGED <<m_fibers, m_activeThreadCount, m_stopping, m_state, m_cb, ft,
                 cb_fiber, armed, cbs, unscheduled, finished, yields>>

\* mutant: the event stays registered
triggerEventKeeps(f) ==
  /\ armed[f] = "event"
  /\ schedule(f, AnyThread)
  /\ UNCHANGED <<m_activeThreadCount, m_stopping, m_state, m_cb, pc, ft, cb_fiber,
                 idle_fiber, armed, cbs, unscheduled, finished, yields>>

\* an event registered for f is triggered (idle(), cancelEvent, cancelAll)
triggerEvent(f) ==
  /\ armed[f] = "event"
  /\ armed' = [armed EXCEPT ![f] = "no"]
  /\ schedule(f, AnyThread)
  /\ UNCHANGED <<m_activeThreadCount, m_stopping, m_state, m_cb, pc, ft, cb_fiber,
                 idle_fiber, cbs, unscheduled, finished, yields>>

-----------------------------------------------------------------------------
(* Clients: tasks of the scheduler, and other threads until stop().        *)

ClientMayCall == ~m_stopping \/ \E w \in Threads : pc[w] = "exec"

ClientSchedule(t, thr) ==
  /\ ClientMayCall
  /\ t \in unscheduled
  /\ unscheduled' = unscheduled \ {t}
  /\ schedule(t, thr)
  /\ UNCHANGED <<m_activeThreadCount, m_stopping, m_state, m_cb, pc, ft, cb_fiber,
                 idle_fiber, armed, cbs, finished, yields>>

\* a client may also schedule a fiber of its own that has ended
ScheduleEnded(f, thr) ==
  /\ ClientMayCall
  /\ m_state[f] \in Ended
  /\ yields < MaxYields
  /\ yields' = yields + 1
  /\ schedule(f, thr)
  /\ UNCHANGED <<m_activeThreadCount, m_stopping, m_state, m_cb, pc, ft, cb_fiber,
                 idle_fiber, armed, cbs, unscheduled, finished>>

stop ==
  /\ ~m_stopping
  /\ m_stopping' = TRUE
  /\ pc' = [w \in Threads |-> IF pc[w] = "parked" THEN "readTimers" ELSE pc[w]]
  /\ UNCHANGED <<m_fibers, m_activeThreadCount, m_state, m_cb, ft, cb_fiber,
                 idle_fiber, armed, cbs, unscheduled, finished, yields>>

-----------------------------------------------------------------------------
\* what run() and idle() do on thread w
Worker(w) ==
  \/ Take(w) \/ Miss(w)
  \/ RunFiber(w) \/ DropFiber(w) \/ RunCallback(w)
  \/ swapOut(w) \/ Back(w) \/ Post(w)
  \/ readTimers(w) \/ readEvents(w) \/ readQueue(w)
  \/ listExpiredCb(w) \/ scheduleExpired(w) \/ IdleYield(w)

\* what a task does on thread w
TaskStep(w) ==
  \/ \E kind \in {"timer", "event"} : Arm(w, kind)
  \/ \E thr \in Pins : switchTo(w, thr)
  \/ YieldToReady(w)
  \/ \E s \in Ended : Finish(w, s)

Next ==
  \/ \E w \in Threads : Worker(w) \/ TaskStep(w)
  \/ \E f \in Fibers : triggerEvent(f)
  \/ \E t \in UserFibers \cup Callbacks, thr \in Pins : ClientSchedule(t, thr)
  \/ \E f \in UserFibers, thr \in Pins : ScheduleEnded(f, thr)
  \/ stop

Spec == Init /\ [][Next]_vars

(* Threads run, tasks go on or end, registered events happen, and a timer
   that stays registered expires while some worker is in epoll_wait.       *)
FairSpec ==
  /\ Spec
  /\ \A w \in Threads : WF_vars(Worker(w)) /\ WF_vars(TaskStep(w))
  /\ \A f \in Fibers : WF_vars(triggerEvent(f))
  /\ SF_vars(\E w \in Threads : listExpiredCb(w))

-----------------------------------------------------------------------------
(* Properties                                                              *)

FiberState == {"FREE", "INIT", "HOLD", "EXEC", "TERM", "READY", "EXCEPT"}

Label == {"parked", "scan", "took", "exec", "out", "back", "post", "exit",
          "readTimers", "readEvents", "readQueue", "epoll", "expired", "yield"}

(* Every variable has its type; in particular m_activeThreadCount, a size_t
   decremented in three branches of run(), never goes below zero.          *)
TypeOK ==
  /\ m_fibers \in Seq(Entry)
  /\ m_activeThreadCount \in Nat
  /\ m_stopping \in BOOLEAN
  /\ m_state \in [Fibers -> FiberState]
  /\ m_cb \in [CbFibers -> Callbacks \cup {nullptr}]
  /\ pc \in [Threads -> Label]
  /\ ft \in [Threads -> Task \cup {nullptr}]
  /\ cb_fiber \in [Threads -> CbFibers \cup {nullptr}]
  /\ idle_fiber \in [Threads -> {"NONE", "INIT", "HOLD", "EXEC", "TERM"}]
  /\ armed \in [Fibers -> {"no", "timer", "event"}]
  /\ cbs \in [Threads -> SUBSET Fibers]
  /\ unscheduled \in SUBSET (UserFibers \cup Callbacks)
  /\ finished \in SUBSET Callbacks
  /\ yields \in 0..MaxYields

(* No fiber is on the stack of two threads, although its wake-up may be
   fired, and the fiber queued, before it has switched out: YieldToHold()
   leaves the state EXEC and run() of another thread skips the entry.      *)
FiberOnOneThread ==
  \A v, w \in Threads :
    v # w /\ pc[v] \in Running /\ pc[w] \in Running => Cur(v) # Cur(w)

(* The assertions of Fiber::swapIn (m_state != EXEC) and Fiber::reset
   (TERM, EXCEPT or INIT) hold whenever run() gets there: between the scan,
   which looked at the state, and the switch no other thread changes it.   *)
SwapInAllowed ==
  \A w \in Threads : pc[w] = "took" =>
    /\ ft[w] \in Fibers =>
         m_state[ft[w]] \in {"INIT", "HOLD", "READY"} \cup Ended
    /\ ft[w] \in Callbacks /\ cb_fiber[w] # nullptr =>
         m_state[cb_fiber[w]] = "INIT"

\* the places from which fiber f can be resumed
WakeUps(f) ==
  {<<"queue", i>> : i \in {j \in 1..Len(m_fibers) : m_fibers[j].task = f}}
    \cup {<<"armed", 0>> : k \in {armed[f]} \ {"no"}}
    \cup {<<"expired", w>> : w \in {v \in Threads : f \in cbs[v]}}

(* A fiber that has given up its thread has exactly one way to go on: a
   queue entry, a registration or an expired timer.  With none it would be
   lost (and ~Fiber's assertion would fail), with two it could be resumed
   twice.  A fiber that is still running has at most one.                  *)
OneWakeUp ==
  \A f \in Fibers :
    /\ m_state[f] \in {"HOLD", "READY"}
         /\ (\A w \in Threads : pc[w] \in Holding => Cur(w) # f)
         => Cardinality(WakeUps(f)) = 1
    /\ m_state[f] \notin Ended => Cardinality(WakeUps(f)) <= 1

(* A callback that was scheduled runs exactly once: it is in the queue, or
   taken by one worker, or the body of one fiber, or finished.             *)
CallbackRunsOnce ==
  \A c \in Callbacks :
    Cardinality(
      {<<"client", 0>> : k \in unscheduled \cap {c}}
      \cup {<<"queue", i>> : i \in {j \in 1..Len(m_fibers) : m_fibers[j].task = c}}
      \cup {<<"taken", w>> : w \in {v \in Threads : pc[v] = "took" /\ ft[v] = c}}
      \cup {<<"fiber", f>> : f \in {g \in CbFibers : m_cb[g] = c /\ m_state[g] # "EXCEPT"}}
      \cup {<<"finished", 0>> : k \in finished \cap {c}}) = 1

\* something is left for the scheduler to do
WorkLeft ==
  \/ m_fibers # <<>>
  \/ \E f \in Fibers : armed[f] # "no"
  \/ \E w \in Threads : pc[w] \in Holding \/ cbs[w] # {}

(* When stop() returns (every worker has left run()) all the work is done,
   although the three reads of stopping() are not atomic, a READY fiber is
   in no counter between --m_activeThreadCount and schedule(), and expired
   timers are in no counter between listExpiredCb and schedule().          *)
StopsWithNothingLeft ==
  (\A w \in Threads : pc[w] = "exit") => ~WorkLeft

(* A callback that was scheduled is run to its end, through all its yields,
   unless the scheduler is stopped meanwhile.                              *)
CallbacksFinish ==
  \A c \in Callbacks : c \notin unscheduled ~> c \in finished \/ m_stopping

\* an entry of the queue is pinned to a thread that has left run()
Stranded == \E i \in 1..Len(m_fibers), w \in Threads :
              m_fibers[i].thread = w /\ pc[w] = "exit"

(* Once stop() is called every worker leaves run() and stop() returns: the
   workers do not wait for each other, nor for work that is done.  The one
   exception is a task that is pinned to a thread that has left already.   *)
StopReturns == m_stopping ~> Stranded \/ \A w \in Threads : pc[w] = "exit"

-----------------------------------------------------------------------------
(* The inductive invariant behind FiberOnOneThread and SwapInAllowed       *)

\* worker w has fiber f in its hands: taken, running or just back
Holds(w, f) ==
  /\ pc[w] \in Holding
  /\ IF ft[w] \in Callbacks THEN pc[w] # "took" /\ cb_fiber[w] = f ELSE ft[w] = f

InQueue(q, t) == \E i \in 1..Len(q) : q[i].task = t

OnceInQueue(q, t) ==
  \A i, j \in 1..Len(q) : q[i].task = t /\ q[j].task = t => i = j

Expired(f) == \E w \in Threads : f \in cbs[w]

\* something will resume f
Token(f) == InQueue(m_fibers, f) \/ armed[f] # "no" \/ Expired(f)

\* f was resumed by nobody and is registered nowhere twice
TokenOnce(f) ==
  /\ OnceInQueue(m_fibers, f)
  /\ InQueue(m_fibers, f) => armed[f] = "no" /\ ~Expired(f)
  /\ armed[f] # "no" => ~Expired(f)
  /\ \A v, w \in Threads : f \in cbs[v] /\ f \in cbs[w] => v = w

\* what a worker's hands and the state of the fiber in them say of each other
HolderInv ==
  \A w \in Threads :
    /\ pc[w] \in Holding <=> ft[w] # nullptr
    /\ pc[w] \in Holding \ {"took"} => \E f \in Fibers : Holds(w, f)
    /\ \A f \in Fibers : Holds(w, f) =>
         /\ pc[w] = "took" => m_state[f] \in {"INIT", "HOLD", "READY"} \cup Ended
         /\ pc[w] = "exec" => m_state[f] = "EXEC"
         /\ pc[w] \in {"out", "back", "post"} => m_state[f] \in {"EXEC", "READY"} \cup Ended
         /\ pc[w] = "took" /\ f \in CbFibers => m_state[f] \in {"HOLD", "READY"}
         /\ f \notin unscheduled
    /\ cbs[w] # {} => pc[w] = "expired"

\* a fiber is in the hands of one worker, unless it is an ended one that
\* another worker is about to drop
HoldOnce ==
  \A f \in Fibers, v, w \in Threads :
    v # w /\ Holds(v, f) /\ Holds(w, f) =>
      /\ m_state[f] \in Ended
      /\ f \in UserFibers
      /\ pc[v] = "took" \/ pc[w] = "took"

\* a fiber that has not ended is registered at most once, and while a worker
\* has it only if it is on its way out with state EXEC
TokenInv ==
  \A f \in Fibers :
    /\ m_state[f] \notin Ended => TokenOnce(f)
    /\ m_state[f] \in Ended => armed[f] = "no" /\ ~Expired(f)
    /\ m_state[f] \in Ended /\ f \in CbFibers => ~Token(f)
    /\ m_state[f] \notin Ended /\ Token(f) =>
         /\ \A w \in Threads : Holds(w, f) =>
              m_state[f] = "EXEC" /\ pc[w] \in {"out", "back", "post"}
         /\ f \notin unscheduled
         /\ m_state[f] # "FREE"
         /\ f \in CbFibers => m_state[f] # "INIT"
    /\ f \in unscheduled => m_state[f] = "INIT"

\* a worker's spare callback fiber is its own and waits in state INIT
SpareInv ==
  \A w \in Threads, f \in CbFibers : cb_fiber[w] = f =>
    /\ \A v \in Threads : v # w => cb_fiber[v] # f /\ ~Holds(v, f)
    /\ m_state[f] # "FREE" /\ ft[w] # f
    /\ ~Holds(w, f) => m_state[f] = "INIT"

\* a fiber object that does not exist is in nobody's hands; one that run()
\* made and that has not ended has a callback to run
FreeInv ==
  \A f \in Fibers :
    /\ m_state[f] = "FREE" => f \in CbFibers /\ \A w \in Threads : ~Holds(w, f)
    /\ f \in CbFibers /\ m_state[f] \in {"HOLD", "EXEC", "READY"} => m_cb[f] \in Callbacks

\* m_activeThreadCount counts the workers between erase and --active
ActiveInv == m_activeThreadCount = Cardinality({w \in Threads : pc[w] \in Busy})

FiberInv ==
  /\ TypeOK /\ ActiveInv
  /\ HolderInv /\ HoldOnce /\ TokenInv /\ SpareInv /\ FreeInv

-----------------------------------------------------------------------------
(* What OneWakeUp and CallbackRunsOnce need besides                        *)

\* a fiber that has given up its thread, or is about to without being READY,
\* has something that will resume it
Left(f) ==
  /\ m_state[f] \in {"HOLD", "READY"} /\ (\A w \in Threads : ~Holds(w, f)) => Token(f)
  /\ \A w \in Threads :
       Holds(w, f) /\ pc[w] \in {"out", "back", "post"} /\ m_state[f] = "EXEC" => Token(f)

LeftInv == \A f \in Fibers : Left(f)

\* where a callback can be
Taken(w, c) == pc[w] = "took" /\ ft[w] = c
BodyOf(f, c) == m_cb[f] = c /\ m_state[f] # "EXCEPT"

\* in one of the five places
CallbackSomewhere(c) ==
  \/ c \in unscheduled \/ InQueue(m_fibers, c)
  \/ \E w \in Threads : Taken(w, c)
  \/ \E f \in CbFibers : BodyOf(f, c)
  \/ c \in finished

\* ... and in no two of them, nor in one of them twice
CallbackOnce(c) ==
  /\ OnceInQueue(m_fibers, c)
  /\ \A v, w \in Threads : Taken(v, c) /\ Taken(w, c) => v = w
  /\ \A f, g \in CbFibers : BodyOf(f, c) /\ BodyOf(g, c) => f = g
  /\ c \in unscheduled => ~InQueue(m_fibers, c) /\ c \notin finished
  /\ InQueue(m_fibers, c) => c \notin finished
  /\ \A w \in Threads : Taken(w, c) =>
       c \notin unscheduled /\ ~InQueue(m_fibers, c) /\ c \notin finished
  /\ \A f \in CbFibers : BodyOf(f, c) =>
       /\ c \notin unscheduled /\ ~InQueue(m_fibers, c) /\ c \notin finished
       /\ \A w \in Threads : ~Taken(w, c)

\* a fiber that could be given another callback has none
EmptyInv ==
  \A f \in CbFibers : m_state[f] \in {"FREE", "INIT", "TERM"} => m_cb[f] = nullptr

CallbackInv ==
  /\ EmptyInv
  /\ \A c \in Callbacks : CallbackSomewhere(c) /\ CallbackOnce(c)

=============================================================================
