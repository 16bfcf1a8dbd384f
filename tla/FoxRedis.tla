------------------------------ MODULE FoxRedis ------------------------------
(***************************************************************************)
(* FoxRedis of Helens/db/redis.cc: a fiber's cmd() hands an FCtx, which is *)
(* on the fiber's own stack, to the FoxThread of the connection and waits. *)
(* There pcmd() makes a Ctx with a timer that points to it; the reply, the *)
(* timer or the end of the connection wakes the fiber, and the stack with  *)
(* the FCtx is gone, while the Ctx stays until hiredis calls CmdCb for it. *)
(* All callbacks run in the FoxThread's event loop, one at a time; hiredis *)
(* and the Redis server are external.                                      *)
(***************************************************************************)
EXTENDS Naturals, Sequences

CONSTANTS
  Fibers,       \* fibers that send commands over the connection
  MaxCalls,     \* bound on the commands of a fiber
  MaxLosses     \* bound on connections that fail or end

VARIABLES
  pc,
  calls,        \* commands a fiber has sent: names its current FCtx
  fiber,        \* FCtx::fiber is set
  scheduled,    \* fibers in the scheduler's queue
  m_callbacks,  \* the FoxThread's queue of pcmd, by fiber and command
  readable,     \* a byte is on its socket
  callbacks,    \* what read_cb has yet to run
  m_status,
  pending,      \* hiredis: the commands without a reply, by their Ctx
  ctxs,         \* the Ctx there are
  timeout,      \* those of them whose timeout is set
  freeing,      \* hiredis is calling back for a connection that is gone
  losses

loopVars == <<readable, callbacks, m_status, pending, ctxs, timeout, freeing, losses>>
vars == <<pc, calls, fiber, scheduled, m_callbacks, loopVars>>

Init ==
  /\ pc = [f \in Fibers |-> "out"] /\ calls = [f \in Fibers |-> 0]
  /\ fiber = [f \in Fibers |-> FALSE] /\ scheduled = {}
  /\ m_callbacks = <<>> /\ readable = FALSE /\ callbacks = <<>>
  /\ m_status = "UNCONNECTED" /\ pending = <<>> /\ ctxs = {} /\ timeout = {}
  /\ freeing = FALSE /\ losses = 0

-----------------------------------------------------------------------------
(* The fiber                                                               *)

cmd(f) ==
  /\ pc[f] = "out" /\ calls[f] < MaxCalls
  /\ calls' = [calls EXCEPT ![f] = @ + 1]
  /\ fiber' = [fiber EXCEPT ![f] = TRUE]
  /\ m_callbacks' = Append(m_callbacks, <<f, calls[f] + 1>>)
  /\ pc' = [pc EXCEPT ![f] = "send"]
  /\ UNCHANGED <<scheduled, loopVars>>

\* the end of FoxThread::dispatch, and YieldToHold
hold(f) ==
  /\ pc[f] = "send"
  /\ readable' = TRUE
  /\ pc' = [pc EXCEPT ![f] = "hold"]
  /\ UNCHANGED <<calls, fiber, scheduled, m_callbacks, callbacks, m_status, pending, ctxs,
                 timeout, freeing, losses>>

\* the scheduler resumes the fiber, cmd() returns and its FCtx ends
resume(f) ==
  /\ pc[f] = "hold" /\ f \in scheduled
  /\ scheduled' = scheduled \ {f}
  /\ pc' = [pc EXCEPT ![f] = "out"]
  /\ UNCHANGED <<calls, fiber, m_callbacks, loopVars>>

-----------------------------------------------------------------------------
(* The event loop                                                          *)

Loop == callbacks = <<>> /\ ~freeing

\* if(fctx->fiber) schedule(&fctx->fiber), which takes the fiber out
Wake(f) ==
  /\ scheduled' = (IF fiber[f] THEN scheduled \cup {f} ELSE scheduled)
  /\ fiber' = [fiber EXCEPT ![f] = FALSE]

read_cb ==
  /\ Loop /\ readable
  /\ readable' = FALSE
  /\ callbacks' = m_callbacks /\ m_callbacks' = <<>>
  /\ UNCHANGED <<pc, calls, fiber, scheduled, m_status, pending, ctxs, timeout, freeing, losses>>

\* begins a connection, which may fail at once
pinit == m_status' \in {"CONNECTING", "UNCONNECTED"}

\* mutant: the fiber is not woken when there is no connection
pcmdSilent ==
  /\ callbacks # <<>>
  /\ callbacks' = Tail(callbacks)
  /\ IF m_status = "UNCONNECTED"
       THEN pinit /\ UNCHANGED <<pending, ctxs, fiber, scheduled>>
       ELSE /\ ctxs' = ctxs \cup {Head(callbacks)}
            /\ pending' = Append(pending, Head(callbacks))
            /\ UNCHANGED <<m_status, fiber, scheduled>>
  /\ UNCHANGED <<pc, calls, m_callbacks, readable, timeout, freeing, losses>>

\* without a connection init() begins one and the command fails; else it gets
\* a Ctx, a timer and a place in hiredis' queue
pcmd ==
  /\ callbacks # <<>>
  /\ callbacks' = Tail(callbacks)
  /\ IF m_status = "UNCONNECTED"
       THEN /\ pinit
            /\ Wake(Head(callbacks)[1])
            /\ UNCHANGED <<pending, ctxs>>
       ELSE /\ ctxs' = ctxs \cup {Head(callbacks)}
            /\ pending' = Append(pending, Head(callbacks))
            /\ UNCHANGED <<m_status, fiber, scheduled>>
  /\ UNCHANGED <<pc, calls, m_callbacks, readable, timeout, freeing, losses>>

ConnectCb ==
  /\ Loop /\ m_status = "CONNECTING"
  /\ \/ m_status' = "CONNECTED" /\ UNCHANGED <<freeing, losses>>
     \/ /\ losses < MaxLosses
        /\ losses' = losses + 1
        /\ m_status' = "UNCONNECTED"
        /\ freeing' = TRUE
  /\ UNCHANGED <<pc, calls, fiber, scheduled, m_callbacks, readable, callbacks, pending, ctxs,
                 timeout>>

\* the connection ends; hiredis first answers what is pending
lose ==
  /\ Loop /\ m_status = "CONNECTED" /\ losses < MaxLosses
  /\ losses' = losses + 1
  /\ freeing' = TRUE
  /\ UNCHANGED <<pc, calls, fiber, scheduled, m_callbacks, readable, callbacks, m_status,
                 pending, ctxs, timeout>>

\* ... and then calls DisconnectCb
DisconnectCb ==
  /\ freeing /\ pending = <<>>
  /\ freeing' = FALSE
  /\ m_status' = "UNCONNECTED"
  /\ UNCHANGED <<pc, calls, fiber, scheduled, m_callbacks, readable, callbacks, pending, ctxs,
                 timeout, losses>>

\* a reply, or none if the connection is gone; a Ctx whose timer has expired
\* knows of no FCtx any more
CmdCb ==
  /\ pending # <<>>
  /\ freeing \/ (Loop /\ m_status = "CONNECTED")
  /\ LET ctx == Head(pending)
     IN  /\ IF ctx \in timeout THEN UNCHANGED <<fiber, scheduled>> ELSE Wake(ctx[1])
         /\ ctxs' = ctxs \ {ctx} /\ timeout' = timeout \ {ctx}
  /\ pending' = Tail(pending)
  /\ UNCHANGED <<pc, calls, m_callbacks, readable, callbacks, m_status, freeing, losses>>

\* mutant: the Ctx is not marked
EventCbUnmarked(ctx) ==
  /\ Loop /\ ctx \in ctxs \ timeout
  /\ Wake(ctx[1])
  /\ UNCHANGED <<pc, calls, m_callbacks, loopVars>>

\* the timer of a Ctx
EventCb(ctx) ==
  /\ Loop /\ ctx \in ctxs \ timeout
  /\ timeout' = timeout \cup {ctx}
  /\ Wake(ctx[1])
  /\ UNCHANGED <<pc, calls, m_callbacks, readable, callbacks, m_status, pending, ctxs, freeing,
                 losses>>

-----------------------------------------------------------------------------

Return(f) == hold(f) \/ resume(f)

\* what the loop does without the peer
EventLoop == read_cb \/ pcmd \/ DisconnectCb \/ (freeing /\ CmdCb)

Next ==
  \/ \E f \in Fibers : cmd(f) \/ Return(f)
  \/ EventLoop \/ ConnectCb \/ lose \/ (~freeing /\ CmdCb)
  \/ \E ctx \in ctxs : EventCb(ctx)

Spec == Init /\ [][Next]_vars

(* Fibers and the event loop run, and timers expire.  Of the peer nothing is
   assumed: it may never answer, nor the connection come about or end.      *)
Fairness ==
  /\ \A f \in Fibers : WF_vars(Return(f))
  /\ WF_vars(EventLoop)
  /\ \A f \in Fibers : \A n \in 1..MaxCalls : WF_vars(EventCb(<<f, n>>))

FairSpec == Spec /\ Fairness

-----------------------------------------------------------------------------
(* Properties                                                              *)

\* the FCtx of a fiber's n-th command is still on its stack, and it waits
Waits(f, n) == pc[f] # "out" /\ calls[f] = n /\ fiber[f]

(* Whatever may still follow its pointer to an FCtx finds that very one, with
   the fiber waiting in it: the commands on their way to pcmd(), and each Ctx
   that has not timed out, however late its reply.  The stack of a fiber that
   has returned may by then hold the FCtx of its next command.             *)
CtxHasCaller ==
  /\ \A c \in ctxs \ timeout : Waits(c[1], c[2])
  /\ \A q \in {m_callbacks, callbacks} : \A i \in DOMAIN q : Waits(q[i][1], q[i][2])

Items(q) == {q[i] : i \in DOMAIN q}

Distinct(q) == \A i, j \in DOMAIN q : q[i] = q[j] => i = j

\* what the proofs need to know of the variables
TypeOK ==
  /\ pc \in [Fibers -> {"out", "send", "hold"}]
  /\ calls \in [Fibers -> Nat] /\ fiber \in [Fibers -> BOOLEAN]
  /\ scheduled \subseteq Fibers
  /\ \A q \in {m_callbacks, callbacks, pending} : q \in Seq(Fibers \X Nat)

(* Why CtxHasCaller is kept: a command is in one place, once, and is older
   than the next one of its fiber; hiredis has one callback for each Ctx; and
   a fiber in the scheduler's queue has been taken out of an FCtx.          *)
RedisInv ==
  /\ TypeOK
  /\ \A q \in {m_callbacks, callbacks, pending} :
       Distinct(q) /\ \A c \in Items(q) : c[2] <= calls[c[1]]
  /\ Items(m_callbacks) \cap Items(callbacks) = {}
  /\ Items(pending) = ctxs
  /\ ctxs \cap (Items(m_callbacks) \cup Items(callbacks)) = {}
  /\ timeout \subseteq ctxs
  /\ \A f \in scheduled : pc[f] # "out" /\ ~fiber[f]
  /\ CtxHasCaller

(* cmd() returns, answered or not, over connections that fail, end or hang. *)
CmdReturns == \A f \in Fibers : pc[f] # "out" ~> pc[f] = "out"

=============================================================================
