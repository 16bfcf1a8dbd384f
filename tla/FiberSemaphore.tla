--------------------------- MODULE FiberSemaphore ---------------------------
(***************************************************************************)
(* FiberSemaphore (Helens/mutex.cc): a semaphore whose waiters are fibers. *)
(* wait() puts the fiber on m_waiters under the spinlock and switches out  *)
(* after the unlock, so that notify() may schedule a fiber that is still   *)
(* on its stack.  The scheduler is what Scheduler.tla shows of it: it      *)
(* resumes a queued fiber once that fiber has switched out.                *)
(***************************************************************************)
EXTENDS Naturals, Sequences, FiniteSets, SequencesExt

CONSTANTS
  Fibers,
  InitialConcurrency,
  MaxConcurrency        \* bound on the permits outstanding at one time

ASSUME FiberSemaphoreAssumption ==
  /\ IsFiniteSet(Fibers)
  /\ InitialConcurrency \in Nat /\ MaxConcurrency \in Nat

VARIABLES
  m_concurrency,
  m_waiters,     \* the fibers in wait(), oldest first
  m_fibers,      \* fibers that notify() has scheduled
  place          \* per fiber: running, leaving wait(), or switched out

vars == <<m_concurrency, m_waiters, m_fibers, place>>

Init ==
  /\ m_concurrency = InitialConcurrency
  /\ m_waiters = <<>>
  /\ m_fibers = <<>>
  /\ place = [f \in Fibers |-> "run"]

\* a permit is there: wait() and tryWait() take it and return
takePermit(f) ==
  /\ place[f] = "run"
  /\ m_concurrency > 0
  /\ m_concurrency' = m_concurrency - 1
  /\ UNCHANGED <<m_waiters, m_fibers, place>>

\* mutant: the newest waiter comes first
joinWaitersFront(f) ==
  /\ place[f] = "run"
  /\ ~(m_concurrency > 0)
  /\ m_waiters' = <<f>> \o m_waiters
  /\ place' = [place EXCEPT ![f] = "leaving"]
  /\ UNCHANGED <<m_concurrency, m_fibers>>

\* none is: wait() joins the waiters (tryWait() returns false)
joinWaiters(f) ==
  /\ place[f] = "run"
  /\ ~(m_concurrency > 0)
  /\ m_waiters' = Append(m_waiters, f)
  /\ place' = [place EXCEPT ![f] = "leaving"]
  /\ UNCHANGED <<m_concurrency, m_fibers>>

\* YieldToHold() after the unlock
YieldToHold(f) ==
  /\ place[f] = "leaving"
  /\ place' = [place EXCEPT ![f] = "hold"]
  /\ UNCHANGED <<m_concurrency, m_waiters, m_fibers>>

\* mutant: the permit is handed over and also counted
notifyBoth ==
  /\ m_waiters # <<>>
  /\ m_fibers' = Append(m_fibers, Head(m_waiters))
  /\ m_waiters' = Tail(m_waiters)
  /\ m_concurrency' = m_concurrency + 1
  /\ UNCHANGED place

\* called by a running fiber, a timer callback or any thread
notify ==
  IF m_waiters # <<>>
    THEN /\ m_fibers' = Append(m_fibers, Head(m_waiters))
         /\ m_waiters' = Tail(m_waiters)
         /\ UNCHANGED <<m_concurrency, place>>
    ELSE /\ m_concurrency' = m_concurrency + 1
         /\ UNCHANGED <<m_waiters, m_fibers, place>>

\* a caller for as long as the bound on permits allows one
Notify ==
  /\ m_concurrency + Len(m_fibers) < MaxConcurrency
  /\ notify

\* run() takes the first entry whose fiber has switched out; wait() returns
resume(i) ==
  /\ place[m_fibers[i]] = "hold"
  /\ \A j \in 1..(i-1) : place[m_fibers[j]] # "hold"
  /\ m_fibers' = RemoveAt(m_fibers, i)
  /\ place' = [place EXCEPT ![m_fibers[i]] = "run"]
  /\ UNCHANGED <<m_concurrency, m_waiters>>

Resume == \E i \in 1..Len(m_fibers) : resume(i)

Next ==
  \/ \E f \in Fibers : takePermit(f) \/ joinWaiters(f) \/ YieldToHold(f)
  \/ Notify
  \/ Resume

Spec == Init /\ [][Next]_vars

-----------------------------------------------------------------------------
(* Properties                                                              *)

TypeOK ==
  /\ m_concurrency \in Nat
  /\ m_waiters \in Seq(Fibers)
  /\ m_fibers \in Seq(Fibers)
  /\ place \in [Fibers -> {"run", "leaving", "hold"}]

(* notify() adds to m_concurrency only when nobody waits and wait() joins
   the waiters only when m_concurrency is zero: a permit and a waiter are
   never both left behind.                                                 *)
NoPermitWithWaiters == m_waiters # <<>> => m_concurrency = 0

(* The semaphore the clients see: a scheduled fiber carries its permit.    *)
Sem == INSTANCE Semaphore WITH
         Clients        <- Fibers,
         InitialPermits <- InitialConcurrency,
         permits        <- m_concurrency + Len(m_fibers),
         blocked        <- {f \in Fibers : place[f] # "run"}

(* wait() and notify() implement the abstract semaphore, safety ...        *)
ImplementsSemaphore == Sem!SSafe

(* ... and fairness: a fiber in wait() is resumed if permits keep coming,
   whoever else competes for them.                                         *)
WaitersServed == Sem!SSpec

=============================================================================
