---------------------------- MODULE WorkerGroup ----------------------------
(***************************************************************************)
(* WorkerGroup (Helens/worker.cc): schedule() runs callbacks on a          *)
(* scheduler, at most m_batchSize at a time, and waitAll() waits for them; *)
(* both are built on one FiberSemaphore, here composed with it.  The       *)
(* callbacks run on fibers of the scheduler; the Fibers of this module are *)
(* the ones that call schedule() and waitAll().                            *)
(***************************************************************************)
EXTENDS FiberSemaphore

CONSTANTS Jobs, Waiter    \* Waiter \in Fibers is the caller of waitAll()

ASSUME WorkerGroupAssumption == IsFiniteSet(Jobs) /\ "none" \notin Jobs /\ Waiter \in Fibers

m_batchSize == InitialConcurrency

VARIABLES
  job,       \* per job: new, wait, queued, run, done or threw
  doing,     \* the job a fiber is submitting, or "none"
  granted,   \* per fiber: wait() has returned and its caller has not gone on
  left       \* calls of m_sem.wait() that waitAll() has still to make; it is
             \* m_batchSize + 1 until waitAll() is called

gvars == <<m_concurrency, m_waiters, m_fibers, place, job, doing, granted, left>>

GInit ==
  /\ Init
  /\ job = [j \in Jobs |-> "new"]
  /\ doing = [f \in Fibers |-> "none"]
  /\ granted = [f \in Fibers |-> FALSE]
  /\ left = m_batchSize + 1

InJob(state) == {j \in Jobs : job[j] = state}

\* m_sem.wait(), up to where it returns or joins the waiters
semWait(f) ==
  \/ takePermit(f) /\ granted' = [granted EXCEPT ![f] = TRUE]
  \/ joinWaiters(f) /\ granted' = granted

\* schedule(cb) is called; a callback may be scheduled again
schedule(f, j) ==
  /\ f # Waiter /\ doing[f] = "none" /\ job[j] \in {"new", "done"}
  /\ semWait(f)
  /\ job' = [job EXCEPT ![j] = "wait"]
  /\ doing' = [doing EXCEPT ![f] = j]
  /\ left' = left

\* m_sem.wait() has returned: the callback goes to the scheduler
dispatch(f) ==
  /\ granted[f] /\ doing[f] # "none"
  /\ granted' = [granted EXCEPT ![f] = FALSE]
  /\ job' = [job EXCEPT ![doing[f]] = "queued"]
  /\ doing' = [doing EXCEPT ![f] = "none"]
  /\ UNCHANGED <<vars, left>>

\* mutant: the permit is given back before the callback runs
startWorkNotifies(j) ==
  /\ job[j] = "queued"
  /\ notify
  /\ job' = [job EXCEPT ![j] = "run"]
  /\ UNCHANGED <<doing, granted, left>>

startWork(j) ==
  /\ job[j] = "queued"
  /\ job' = [job EXCEPT ![j] = "run"]
  /\ UNCHANGED <<vars, doing, granted, left>>

\* mutant: m_sem.notify() is missing
doWorkSilently(j) ==
  /\ job[j] = "run"
  /\ job' = [job EXCEPT ![j] = "done"]
  /\ UNCHANGED <<vars, doing, granted, left>>

\* doWork(): cb() returns, then m_sem.notify()
doWork(j) ==
  /\ job[j] = "run"
  /\ notify
  /\ job' = [job EXCEPT ![j] = "done"]
  /\ UNCHANGED <<doing, granted, left>>

\* doWork(): cb() throws, the fiber ends without notify()
throw(j) ==
  /\ job[j] = "run"
  /\ job' = [job EXCEPT ![j] = "threw"]
  /\ UNCHANGED <<vars, doing, granted, left>>

\* mutant: one wait() too few
waitAllButOne ==
  /\ left = m_batchSize + 1
  /\ left' = m_batchSize - 1
  /\ UNCHANGED <<vars, job, doing, granted>>

\* waitAll(): m_finish is set, then m_batchSize calls of wait()
waitAll ==
  /\ left = m_batchSize + 1
  /\ left' = m_batchSize
  /\ UNCHANGED <<vars, job, doing, granted>>

waitNext ==
  /\ left \in 1..m_batchSize
  /\ ~granted[Waiter]
  /\ semWait(Waiter)
  /\ UNCHANGED <<job, doing, left>>

waitedOne ==
  /\ granted[Waiter]
  /\ granted' = [granted EXCEPT ![Waiter] = FALSE]
  /\ left' = left - 1
  /\ UNCHANGED <<vars, job, doing>>

switchOut(f) ==
  /\ YieldToHold(f)
  /\ UNCHANGED <<job, doing, granted, left>>

\* wait() returns to the fiber that notify() scheduled
wakeUp ==
  \E i \in 1..Len(m_fibers) :
    /\ resume(i)
    /\ granted' = [granted EXCEPT ![m_fibers[i]] = TRUE]
    /\ UNCHANGED <<job, doing, left>>

Run(f) == switchOut(f) \/ dispatch(f)

Wait == waitNext \/ waitedOne

Work(j) == startWork(j) \/ doWork(j) \/ throw(j)

\* a group whose jobs are done, or whose callers all wait, may stop there
GNext ==
  \/ \E f \in Fibers, j \in Jobs : schedule(f, j)
  \/ \E f \in Fibers : Run(f)
  \/ \E j \in Jobs : Work(j)
  \/ waitAll \/ Wait \/ wakeUp

(* Every fiber that can run is run, every callback ends.                   *)
GSpec ==
  /\ GInit /\ [][GNext]_gvars
  /\ \A f \in Fibers : WF_gvars(Run(f))
  /\ \A j \in Jobs : WF_gvars(Work(j))
  /\ WF_gvars(Wait) /\ WF_gvars(wakeUp)

-----------------------------------------------------------------------------
(* Properties                                                              *)

(* Every permit of the semaphore is free, on its way to a waiter, taken by
   a caller, by a job, or by waitAll(), or was lost to a callback that
   threw: none is counted twice and none disappears otherwise.             *)
PermitsConserved ==
  m_concurrency + Len(m_fibers)
    + Cardinality({f \in Fibers : granted[f]})
    + Cardinality(InJob("queued") \cup InJob("run") \cup InJob("threw"))
    + (IF left > m_batchSize THEN 0 ELSE m_batchSize - left) = m_batchSize

(* At most m_batchSize callbacks of a group are with the scheduler.        *)
BatchLimit == Cardinality(InJob("queued") \cup InJob("run")) <= m_batchSize

(* When waitAll() returns no callback of the group is queued or running,
   and none starts later, although schedule() may still be called.         *)
AllDoneAfterWaitAll == left = 0 => InJob("queued") \cup InJob("run") = {}

(* waitAll() returns, unless a callback threw and took its permit along.   *)
WaitAllReturns == left <= m_batchSize ~> left = 0 \/ InJob("threw") # {}

=============================================================================
