----------------------------- MODULE EventLoops -----------------------------
(***************************************************************************)
(* IOManager, FoxThreadPool and FoxRedis side by side for TLC: the epoll   *)
(* loop of the workers and the event loops of the database threads.  They  *)
(* share no state, so a behaviour is one of one of them, as loop says, and *)
(* the states are the sum of theirs instead of the product.                *)
(***************************************************************************)
EXTENDS IOManager, Sequences

CONSTANTS
  PoolSize, NumCallers, NumJobs, Fibers, MaxCalls, MaxLosses

VARIABLES
  loop,         \* the part that takes steps
  m_callbacks, m_freeFoxThreads, m_start, isStart, queue, readable, batch, refs, pc, thr, job,
  nested, stopped, dispatched, ran,
  pcOfCmd, calls, fiber, woken, commands, byte, callbacks, m_status, pending, ctxs, timeout,
  freeing, losses

P == INSTANCE FoxThreadPool
R == INSTANCE FoxRedis WITH pc <- pcOfCmd, scheduled <- woken, m_callbacks <- commands,
                            readable <- byte

pool == <<m_callbacks, m_freeFoxThreads, m_start, isStart, queue, readable, batch, refs, pc,
          thr, job, nested, stopped, dispatched, ran>>
redis == <<pcOfCmd, calls, fiber, woken, commands, byte, callbacks, m_status, pending, ctxs,
           timeout, freeing, losses>>
all == <<loop, vars, pool, redis>>

LoopsInit == loop \in {"io", "pool", "redis"} /\ Init /\ P!Init /\ R!Init

LoopsNext ==
  \/ loop = "io" /\ Next /\ UNCHANGED <<loop, pool, redis>>
  \/ loop = "pool" /\ P!Next /\ UNCHANGED <<loop, vars, redis>>
  \/ loop = "redis" /\ R!Next /\ UNCHANGED <<loop, vars, pool>>

(* The fairness of the loops.                                              *)
LoopsSpec ==
  /\ LoopsInit /\ [][LoopsNext]_all
  /\ \A w \in Workers : WF_vars(loop = "io" /\ Idle(w))
  /\ \A fd \in Fds, e \in Events : WF_vars(loop = "io" /\ ~asserted /\ Resume(fd, e))
  /\ \A a \in P!Actors : WF_pool(loop = "pool" /\ P!Check(a))
  /\ \A t \in P!FoxThreads : WF_pool(loop = "pool" /\ P!Thread(t))
  /\ \A f \in Fibers : WF_redis(loop = "redis" /\ R!Return(f))
  /\ WF_redis(loop = "redis" /\ R!EventLoop)
  /\ \A f \in Fibers : \A n \in 1..MaxCalls : WF_redis(loop = "redis" /\ R!EventCb(<<f, n>>))

(* FoxThreadPool::check loses no callback, see FoxThreadPool.              *)
DispatchedRuns == loop = "pool" => P!DispatchedRuns

(* FoxRedis follows no pointer to a stack that is gone, see FoxRedis.      *)
CtxHasCaller == R!CtxHasCaller

(* FoxRedis::cmd returns, see FoxRedis.                                    *)
CmdReturns == loop = "redis" => R!CmdReturns

=============================================================================
