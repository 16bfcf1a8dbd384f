--------------------------- MODULE FoxThreadPool ---------------------------
(***************************************************************************)
(* FoxThreadPool of Helens/db/fox_thread.cc with advance set: callbacks    *)
(* wait in the pool's queue and each goes to a thread that is free.  Who   *)
(* dispatches, who starts the pool and who drops the last reference to a   *)
(* lent thread runs check(), which matches the two.  A FoxThread runs what *)
(* is in its own queue when a byte arrives on its socket.                  *)
(***************************************************************************)
EXTENDS Naturals, Sequences

CONSTANTS
  PoolSize,     \* m_size
  NumCallers,   \* threads that dispatch
  NumJobs       \* the callbacks they dispatch, in this order

FoxThreads == 1..PoolSize
Callers == (PoolSize + 1)..(PoolSize + NumCallers)
Jobs == 1..NumJobs
nullptr == 0
Starter == 0                       \* who starts the pool
Actors == FoxThreads \cup Callers \cup {Starter}

VARIABLES
  m_callbacks,       \* the pool's queue
  m_freeFoxThreads,
  m_start,           \* of the pool
  isStart,           \* m_start of the threads
  queue,             \* m_callbacks of the threads: jobs, and nullptr
  readable,          \* threads with a byte on their socket
  batch,             \* what read_cb has yet to run
  refs,              \* references to a lent thread
  pc,
  thr,               \* the thread an actor has in hand
  job,               \* the callback it has in hand
  nested,            \* its check() was called from a check()
  stopped,           \* threads that stop() has told
  dispatched,        \* jobs dispatched
  ran

poolVars == <<m_callbacks, m_freeFoxThreads, m_start, refs>>
threadVars == <<isStart, queue, readable, batch>>
actorVars == <<pc, thr, job, nested>>
vars == <<poolVars, threadVars, actorVars, stopped, dispatched, ran>>

Init ==
  /\ m_callbacks = <<>> /\ m_freeFoxThreads = <<>> /\ m_start = FALSE
  /\ refs = [t \in FoxThreads |-> 0]
  /\ isStart = [t \in FoxThreads |-> FALSE]
  /\ queue = [t \in FoxThreads |-> <<>>] /\ batch = [t \in FoxThreads |-> <<>>]
  /\ readable = {}
  /\ pc = [a \in Actors |-> "idle"]
  /\ thr = [a \in Actors |-> 0] /\ job = [a \in Actors |-> 0]
  /\ nested = [a \in Actors |-> FALSE]
  /\ stopped = 0 /\ dispatched = 0 /\ ran = {}

Goto(a, label) == pc' = [pc EXCEPT ![a] = label]

-----------------------------------------------------------------------------
(* The pool                                                                *)

\* starts the threads, all of them free, and looks for work
start ==
  /\ pc[Starter] = "idle" /\ ~m_start /\ stopped = 0
  /\ isStart' = [t \in FoxThreads |-> TRUE]
  /\ m_freeFoxThreads' = [t \in FoxThreads |-> t]
  /\ m_start' = TRUE
  /\ Goto(Starter, "check")
  /\ UNCHANGED <<m_callbacks, refs, queue, readable, batch, thr, job, nested, stopped,
                 dispatched, ran>>

\* stop() of one thread after the other: nullptr and a byte, under its lock
stopThread ==
  /\ m_start /\ stopped < PoolSize
  /\ stopped' = stopped + 1
  /\ queue' = [queue EXCEPT ![stopped + 1] = Append(@, nullptr)]
  /\ readable' = readable \cup {stopped + 1}
  /\ UNCHANGED <<poolVars, isStart, batch, actorVars, dispatched, ran>>

stop ==
  /\ m_start /\ stopped = PoolSize
  /\ m_start' = FALSE
  /\ UNCHANGED <<m_callbacks, m_freeFoxThreads, refs, threadVars, actorVars, stopped,
                 dispatched, ran>>

dispatch(a) ==
  /\ pc[a] = "idle" /\ dispatched < NumJobs
  /\ dispatched' = dispatched + 1
  /\ m_callbacks' = Append(m_callbacks, dispatched + 1)
  /\ Goto(a, "check")
  /\ UNCHANGED <<m_freeFoxThreads, m_start, refs, threadVars, thr, job, nested, stopped, ran>>

\* all that is left at once
batchDispatch(a) ==
  /\ pc[a] = "idle" /\ dispatched < NumJobs
  /\ dispatched' = NumJobs
  /\ m_callbacks' = m_callbacks \o [i \in 1..(NumJobs - dispatched) |-> dispatched + i]
  /\ Goto(a, "check")
  /\ UNCHANGED <<m_freeFoxThreads, m_start, refs, threadVars, thr, job, nested, stopped, ran>>

\* where an actor goes on when check() is over
Return(a) == IF a \in FoxThreads /\ ~isStart[a] THEN "ended" ELSE "idle"

\* a loop that ends goes on in the loop it was called from, if any
Leave(a) ==
  \/ Goto(a, Return(a)) /\ nested' = [nested EXCEPT ![a] = FALSE]
  \/ nested[a] /\ m_start /\ Goto(a, "check") /\ UNCHANGED nested

\* check() reads m_start without the lock
check(a) ==
  /\ pc[a] = "check"
  /\ IF m_start THEN Goto(a, "take") /\ UNCHANGED nested ELSE Leave(a)
  /\ UNCHANGED <<poolVars, threadVars, thr, job, stopped, dispatched, ran>>

\* a free thread and a callback; the shared_ptr thr is the first reference
take(a) ==
  /\ pc[a] = "take"
  /\ IF m_freeFoxThreads = <<>> \/ m_callbacks = <<>>
       THEN Leave(a) /\ UNCHANGED <<m_freeFoxThreads, m_callbacks, refs, thr, job>>
       ELSE /\ thr' = [thr EXCEPT ![a] = Head(m_freeFoxThreads)]
            /\ job' = [job EXCEPT ![a] = Head(m_callbacks)]
            /\ m_freeFoxThreads' = Tail(m_freeFoxThreads)
            /\ m_callbacks' = Tail(m_callbacks)
            /\ refs' = [refs EXCEPT ![Head(m_freeFoxThreads)] = 1]
            /\ Goto(a, "test")
            /\ UNCHANGED nested
  /\ UNCHANGED <<m_start, threadVars, stopped, dispatched, ran>>

\* to a stopped thread no callback is given: it goes back to the front
test(a) ==
  /\ pc[a] = "test"
  /\ IF isStart[thr[a]]
       THEN Goto(a, "push") /\ UNCHANGED <<m_callbacks, job>>
       ELSE /\ m_callbacks' = <<job[a]>> \o m_callbacks
            /\ job' = [job EXCEPT ![a] = 0]
            /\ Goto(a, "drop")
  /\ UNCHANGED <<m_freeFoxThreads, m_start, refs, threadVars, thr, nested, stopped,
                 dispatched, ran>>

\* FoxThread::dispatch of wrapcb, which holds the second reference
push(a) ==
  /\ pc[a] = "push"
  /\ queue' = [queue EXCEPT ![thr[a]] = Append(@, job[a])]
  /\ refs' = [refs EXCEPT ![thr[a]] = @ + 1]
  /\ job' = [job EXCEPT ![a] = 0]
  /\ Goto(a, "send")
  /\ UNCHANGED <<m_callbacks, m_freeFoxThreads, m_start, isStart, readable, batch, thr, nested,
                 stopped, dispatched, ran>>

send(a) ==
  /\ pc[a] = "send"
  /\ readable' = readable \cup {thr[a]}
  /\ Goto(a, "drop")
  /\ UNCHANGED <<poolVars, isStart, queue, batch, thr, job, nested, stopped, dispatched, ran>>

\* a reference ends; the last one releases the thread
Unref(a, otherwise) ==
  /\ refs' = [refs EXCEPT ![thr[a]] = @ - 1]
  /\ IF refs[thr[a]] = 1
       THEN Goto(a, "release") /\ thr' = thr
       ELSE Goto(a, otherwise) /\ thr' = [thr EXCEPT ![a] = 0]
  /\ UNCHANGED <<m_callbacks, m_freeFoxThreads, m_start, threadVars, job, stopped,
                 dispatched, ran>>

\* the end of the loop's body, and of thr
drop(a) ==
  /\ pc[a] = "drop"
  /\ Unref(a, "check")
  /\ nested' = [nested EXCEPT ![a] = (refs[thr[a]] = 1) \/ @]

\* mutant: no check() after the thread is free again
releaseFoxThreadOnly(a) ==
  /\ pc[a] = "release"
  /\ m_freeFoxThreads' = Append(m_freeFoxThreads, thr[a])
  /\ thr' = [thr EXCEPT ![a] = 0]
  /\ Goto(a, Return(a))
  /\ UNCHANGED <<m_callbacks, m_start, refs, threadVars, job, nested, stopped, dispatched, ran>>

\* ... and looks for work
releaseFoxThread(a) ==
  /\ pc[a] = "release"
  /\ m_freeFoxThreads' = Append(m_freeFoxThreads, thr[a])
  /\ thr' = [thr EXCEPT ![a] = 0]
  /\ Goto(a, "check")
  /\ UNCHANGED <<m_callbacks, m_start, refs, threadVars, job, nested, stopped, dispatched, ran>>

-----------------------------------------------------------------------------
(* A thread of the pool: read_cb                                           *)

recv(t) ==
  /\ pc[t] = "idle" /\ isStart[t] /\ t \in readable
  /\ readable' = readable \ {t}
  /\ Goto(t, "swap")
  /\ UNCHANGED <<poolVars, isStart, queue, batch, thr, job, nested, stopped, dispatched, ran>>

\* the list keeps its callbacks, and with them the reference, to its end
swap(t) ==
  /\ pc[t] = "swap"
  /\ batch' = [batch EXCEPT ![t] = queue[t]]
  /\ queue' = [queue EXCEPT ![t] = <<>>]
  /\ thr' = [thr EXCEPT ![t] = IF \E i \in DOMAIN queue[t] : queue[t][i] # nullptr THEN t ELSE 0]
  /\ Goto(t, "run")
  /\ UNCHANGED <<poolVars, isStart, readable, job, nested, stopped, dispatched, ran>>

\* the callbacks in turn; nullptr ends the loop and the thread
read_cb(t) ==
  /\ pc[t] = "run"
  /\ IF batch[t] = <<>>
       THEN /\ Goto(t, IF thr[t] = t THEN "end" ELSE Return(t))
            /\ UNCHANGED <<batch, isStart, ran>>
       ELSE /\ IF Head(batch[t]) = nullptr
                 THEN /\ isStart' = [isStart EXCEPT ![t] = FALSE]
                      /\ batch' = [batch EXCEPT ![t] = <<>>]
                      /\ ran' = ran
                 ELSE /\ ran' = ran \cup {Head(batch[t])}
                      /\ batch' = [batch EXCEPT ![t] = Tail(@)]
                      /\ isStart' = isStart
            /\ pc' = pc
  /\ UNCHANGED <<poolVars, queue, readable, thr, job, nested, stopped, dispatched>>

\* the end of the list, and of the wrapcb in it
destroy(t) == pc[t] = "end" /\ Unref(t, Return(t)) /\ UNCHANGED nested

-----------------------------------------------------------------------------

Check(a) ==
  check(a) \/ take(a) \/ test(a) \/ push(a) \/ send(a) \/ drop(a) \/ releaseFoxThread(a)

Thread(t) == recv(t) \/ swap(t) \/ read_cb(t) \/ destroy(t)

Next ==
  \/ start \/ stopThread \/ stop
  \/ \E a \in Callers : dispatch(a) \/ batchDispatch(a)
  \/ \E a \in Actors : Check(a)
  \/ \E t \in FoxThreads : Thread(t)

Spec == Init /\ [][Next]_vars

(* Threads run.  Nobody need dispatch, start or stop.                      *)
FairSpec ==
  /\ Spec
  /\ \A a \in Actors : WF_vars(Check(a))
  /\ \A t \in FoxThreads : WF_vars(Thread(t))

-----------------------------------------------------------------------------
(* Properties                                                              *)

(* No wake-up is lost between those who bring a callback and those who bring
   a thread: a callback dispatched to a started pool runs, unless the pool is
   stopped, whoever finds the other side missing at the moment it looks.    *)
DispatchedRuns ==
  \A j \in Jobs : (j <= dispatched /\ m_start) ~> (j \in ran \/ stopped > 0)

=============================================================================
