------------------------- MODULE AsyncSocketStream -------------------------
(***************************************************************************)
(* AsyncSocketStream (Helens/streams/async_socket_stream.cc) with the      *)
(* requests of RockStream (Helens/rock/rock_stream.cc): a reading and a    *)
(* writing fiber per connection, start() that waits for both before it     *)
(* connects again, and callers that are answered by a response, by their   *)
(* timer or by the loss of the connection, whichever comes first.  The     *)
(* fibers run on several threads; a step ends where another one can tell   *)
(* the difference.  Requests and notifications from the peer go to other   *)
(* fibers and touch nothing here.  Sequence numbers are unique, as the     *)
(* callers make them (NSClient counts them): a request is its own number.  *)
(***************************************************************************)
EXTENDS Naturals, FiniteSets

CONSTANTS
  Requests,     \* calls of request()
  Messages,     \* calls of sendMessage()
  nullptr,
  MaxCalls      \* bound on the calls of start(), request() and sendMessage()

Callers == Requests \cup Messages

ASSUME StreamAssumption ==
  /\ IsFiniteSet(Callers) /\ Requests \cap Messages = {} /\ nullptr \notin Callers
  /\ MaxCalls \in Nat

VARIABLES
  m_isConnected, m_autoConnect,
  m_ctxs,       \* requests waiting for an answer
  m_queue,      \* what the writer has still to fetch
  m_sem,        \* permits of m_sem; the writer is its only waiter
  m_waitSem,    \* permits of m_waitSem
  m_timer,      \* the timer of a failed start() is set
  again,        \* a timer set by doRead() is to call start()
  sent,         \* requests the peer has got on this connection
  pc,           \* of doRead, doWrite and start
  local,        \* per fiber: what it has taken from m_ctxs or m_queue
  cur,          \* per fiber: the ctx it answers
  after,        \* per fiber: where it goes on after innerClose
  at,           \* per caller: where it is
  scheduler,    \* per request: ctx->scheduler is set
  timer,        \* per request: no, armed, or rsp (in onTimeOut)
  timed, result, response,  \* fields of the ctx
  woken,        \* per request: how often its fiber was scheduled
  answer,       \* what request() returned
  closing,      \* where close() is
  calls         \* how many calls there were

conn == <<m_isConnected, m_autoConnect, sent>>
timerVars == <<m_timer, again, calls>>
fibers == <<pc, local, cur, after>>
ctxVars == <<scheduler, timer, timed, result, response, woken, answer>>
vars == <<conn, timerVars, fibers, ctxVars, m_ctxs, m_queue, m_sem, m_waitSem, at, closing>>

Agents == {"read", "write", "start"}

Init ==
  /\ m_isConnected \in BOOLEAN /\ m_autoConnect \in BOOLEAN
  /\ m_ctxs = {} /\ m_queue = {} /\ m_sem = 0 /\ m_waitSem = 2
  /\ m_timer = FALSE /\ again = FALSE /\ sent = {} /\ calls = 1
  /\ pc = [a \in Agents |-> IF a = "start" THEN "wait" ELSE "none"]
  /\ local = [a \in Agents |-> {}]
  /\ cur = [a \in Agents |-> nullptr]
  /\ after = [a \in Agents |-> "none"]
  /\ at = [c \in Callers |-> "out"]
  /\ scheduler = [r \in Requests |-> FALSE]
  /\ timer = [r \in Requests |-> "no"]
  /\ timed = [r \in Requests |-> FALSE]
  /\ result = [r \in Requests |-> "OK"]
  /\ response = [r \in Requests |-> FALSE]
  /\ woken = [r \in Requests |-> 0]
  /\ answer = [r \in Requests |-> "none"]
  /\ closing = "no"

Goto(a, label) == pc' = [pc EXCEPT ![a] = label]

-----------------------------------------------------------------------------
(* Callers                                                                 *)

\* request() and sendMessage() look at isConnected() first
call(c) ==
  /\ at[c] = "out" /\ calls < MaxCalls
  /\ calls' = calls + 1
  /\ IF ~m_isConnected
       THEN /\ at' = [at EXCEPT ![c] = "done"]
            /\ answer' = IF c \in Requests THEN [answer EXCEPT ![c] = "NOT_CONNECT"] ELSE answer
       ELSE /\ at' = [at EXCEPT ![c] = IF c \in Requests THEN "add" ELSE "push"]
            /\ answer' = answer
  /\ UNCHANGED <<conn, m_timer, again, fibers, scheduler, timer, timed, result, response, woken,
                 m_ctxs, m_queue, m_sem, m_waitSem, closing>>

\* the ctx gets its fiber and scheduler, then goes to m_ctxs
addCtx(r) ==
  /\ at[r] = "add"
  /\ scheduler' = [scheduler EXCEPT ![r] = TRUE]
  /\ m_ctxs' = m_ctxs \cup {r}
  /\ at' = [at EXCEPT ![r] = "timer"]
  /\ UNCHANGED <<conn, timerVars, fibers, timer, timed, result, response, woken, answer,
                 m_queue, m_sem, m_waitSem, closing>>

addTimer(r) ==
  /\ at[r] = "timer"
  /\ timer' = [timer EXCEPT ![r] = "armed"]
  /\ at' = [at EXCEPT ![r] = "push"]
  /\ UNCHANGED <<conn, timerVars, fibers, scheduler, timed, result, response, woken, answer,
                 m_ctxs, m_queue, m_sem, m_waitSem, closing>>

\* what follows enqueue(): request() yields, sendMessage() returns
Queued(c) == IF c \in Requests THEN "hold" ELSE "done"

\* m_queue.push_back(); the caller that found the queue empty has to wake the
\* writer
Push(c, empty) ==
  /\ m_queue' = m_queue \cup {c}
  /\ at' = [at EXCEPT ![c] = IF empty THEN "notify" ELSE Queued(c)]
  /\ m_sem' = m_sem

\* mutant: the writer is woken only for the first message of all
enqueueOnce(c) ==
  /\ \/ at[c] = "push" /\ Push(c, \A d \in Callers \ {c} : at[d] = "out")
     \/ /\ at[c] = "notify"
        /\ m_sem' = m_sem + 1 /\ m_queue' = m_queue
        /\ at' = [at EXCEPT ![c] = Queued(c)]
  /\ UNCHANGED <<conn, timerVars, fibers, ctxVars, m_ctxs, m_waitSem, closing>>

\* ctx->timer = ...; enqueue(): the queue under its lock, m_sem.notify() after it
enqueue(c) ==
  /\ \/ at[c] = "push" /\ Push(c, m_queue = {})
     \/ /\ at[c] = "notify"
        /\ m_sem' = m_sem + 1 /\ m_queue' = m_queue
        /\ at' = [at EXCEPT ![c] = Queued(c)]
  /\ UNCHANGED <<conn, timerVars, fibers, ctxVars, m_ctxs, m_waitSem, closing>>

\* the fiber has switched out and is resumed; request() returns ctx->result
resume(r) ==
  /\ at[r] = "hold" /\ woken[r] > 0
  /\ at' = [at EXCEPT ![r] = "done"]
  /\ answer' = [answer EXCEPT ![r] = result[r]]
  /\ UNCHANGED <<conn, timerVars, fibers, scheduler, timer, timed, result, response, woken,
                 m_ctxs, m_queue, m_sem, m_waitSem, closing>>

Caller(c) == enqueue(c) \/ (c \in Requests /\ (addCtx(c) \/ addTimer(c) \/ resume(c)))

-----------------------------------------------------------------------------
(* doRsp() and onTimeOut()                                                 *)

\* mutant: result is left alone
FinishUntimed(r) ==
  /\ scheduler' = [scheduler EXCEPT ![r] = FALSE]
  /\ woken' = [woken EXCEPT ![r] = @ + 1]
  /\ UNCHANGED <<result, timed, response, answer>>

\* doRsp() for who takes ctx->scheduler by the compare-and-swap: set the result
\* of a timeout, schedule the fiber.  Who comes later finds no scheduler.
Finish(r) ==
  /\ scheduler' = [scheduler EXCEPT ![r] = FALSE]
  /\ result' = [result EXCEPT ![r] = IF timed[r] THEN "TIMEOUT" ELSE @]
  /\ woken' = [woken EXCEPT ![r] = @ + 1]
  /\ UNCHANGED <<timed, response, answer>>

\* timer->cancel(), when ctx->timer is set yet and onTimeOut() not under way
CancelTimer(r) ==
  timer' = [timer EXCEPT ![r] = IF @ = "armed" /\ at[r] # "push" THEN "no" ELSE @]

\* mutant: a test of the pointer, and its reset after the fiber is scheduled
doRspUnguarded(a) ==
  /\ \/ /\ pc[a] = "rsp"
        /\ Goto(a, IF scheduler[cur[a]] THEN "won" ELSE "each")
        /\ UNCHANGED ctxVars
     \/ /\ pc[a] = "won"
        /\ Goto(a, "each") /\ Finish(cur[a]) /\ CancelTimer(cur[a])
  /\ UNCHANGED <<local, cur, after, conn, timerVars, m_ctxs, m_queue, m_sem, m_waitSem, at, closing>>

\* doRsp() by one of the fibers
doRsp(a) ==
  /\ pc[a] = "rsp"
  /\ Goto(a, "each")
  /\ IF scheduler[cur[a]] THEN Finish(cur[a]) /\ CancelTimer(cur[a]) ELSE UNCHANGED ctxVars
  /\ UNCHANGED <<local, cur, after, conn, timerVars, m_ctxs, m_queue, m_sem, m_waitSem, at, closing>>

\* mutant: after the loss of the connection innerClose() is left to answer
onTimeOutConnected(r) ==
  /\ timer[r] = "armed"
  /\ m_ctxs' = m_ctxs \ {r}
  /\ timer' = [timer EXCEPT ![r] = "no"]
  /\ timed' = [timed EXCEPT ![r] = TRUE]
  /\ IF m_isConnected /\ scheduler[r] THEN
       /\ scheduler' = [scheduler EXCEPT ![r] = FALSE]
       /\ result' = [result EXCEPT ![r] = "TIMEOUT"]
       /\ woken' = [woken EXCEPT ![r] = @ + 1]
     ELSE UNCHANGED <<scheduler, result, woken>>
  /\ UNCHANGED <<response, answer, conn, timerVars, fibers, m_queue, m_sem, m_waitSem, at, closing>>

\* onTimeOut(): leave m_ctxs, mark the ctx, then doRsp()
onTimeOut(r) ==
  /\ \/ /\ timer[r] = "armed"
        /\ m_ctxs' = m_ctxs \ {r}
        /\ timed' = [timed EXCEPT ![r] = TRUE]
        /\ timer' = [timer EXCEPT ![r] = "rsp"]
        /\ UNCHANGED <<scheduler, result, response, woken, answer>>
     \/ /\ timer[r] = "rsp"
        /\ timer' = [timer EXCEPT ![r] = "no"]
        /\ IF scheduler[r] THEN Finish(r)
                           ELSE UNCHANGED <<scheduler, timed, result, response, woken, answer>>
        /\ UNCHANGED m_ctxs
  /\ UNCHANGED <<conn, timerVars, fibers, m_queue, m_sem, m_waitSem, at, closing>>

-----------------------------------------------------------------------------
(* innerClose(), by any of the three fibers                                *)

Close(a, label) ==
  /\ Goto(a, "close")
  /\ after' = [after EXCEPT ![a] = label]
  /\ UNCHANGED <<local, cur>>

\* mutant: m_sem.notify() is missing
takeAllQuietly(a) ==
  /\ pc[a] = "close"
  /\ m_isConnected' = FALSE /\ sent' = {}
  /\ local' = [local EXCEPT ![a] = m_ctxs]
  /\ m_ctxs' = {} /\ m_queue' = {}
  /\ Goto(a, "each")
  /\ UNCHANGED <<cur, after, m_sem, m_autoConnect, timerVars, ctxVars, m_waitSem, at, closing>>

\* SocketStream::close(), m_sem.notify(), ctxs.swap(m_ctxs), m_queue.clear():
\* what callers do in between, adding to m_ctxs and m_queue without a look at
\* the socket, they may as well do before or after
takeAll(a) ==
  /\ pc[a] = "close"
  /\ m_isConnected' = FALSE /\ sent' = {}
  /\ m_sem' = m_sem + 1
  /\ local' = [local EXCEPT ![a] = m_ctxs]
  /\ m_ctxs' = {} /\ m_queue' = {}
  /\ Goto(a, "each")
  /\ UNCHANGED <<cur, after, m_autoConnect, timerVars, ctxVars, m_waitSem, at, closing>>

\* answer each ctx with IO_ERROR, and return
answerEach(a) ==
  /\ pc[a] = "each"
  /\ \/ /\ \E r \in local[a] :
             /\ local' = [local EXCEPT ![a] = @ \ {r}]
             /\ cur' = [cur EXCEPT ![a] = r]
             /\ result' = [result EXCEPT ![r] = "IO_ERROR"]
        /\ Goto(a, "rsp") /\ after' = after
     \/ /\ local[a] = {}
        /\ Goto(a, after[a])
        /\ cur' = [cur EXCEPT ![a] = nullptr]
        /\ after' = [after EXCEPT ![a] = "none"]
        /\ UNCHANGED <<local, result>>
  /\ UNCHANGED <<conn, timerVars, scheduler, timer, timed, response, woken, answer,
                 m_ctxs, m_queue, m_sem, m_waitSem, at, closing>>

innerClose(a) == takeAll(a) \/ answerEach(a)

\* what the three fibers share
Common(a) == innerClose(a) \/ doRsp(a)

-----------------------------------------------------------------------------
(* doRead()                                                                *)

readTop ==
  /\ pc["read"] = "top"
  /\ IF m_isConnected THEN Goto("read", "recv") /\ UNCHANGED <<local, cur, after>>
                      ELSE Close("read", "exit")
  /\ UNCHANGED <<conn, timerVars, ctxVars, m_ctxs, m_queue, m_sem, m_waitSem, at, closing>>

\* doRecv() gets no message: the peer is gone or the socket was closed
recvFails ==
  /\ pc["read"] = "recv"
  /\ Close("read", "top")
  /\ UNCHANGED <<conn, timerVars, ctxVars, m_ctxs, m_queue, m_sem, m_waitSem, at, closing>>

\* a response, of which nothing is left when its ctx is gone
recv(r) ==
  /\ pc["read"] = "recv" /\ m_isConnected /\ r \in sent
  /\ sent' = sent \ {r}
  /\ m_ctxs' = m_ctxs \ {r}
  /\ IF r \in m_ctxs
       THEN /\ cur' = [cur EXCEPT !["read"] = r]
            /\ after' = [after EXCEPT !["read"] = "top"]
            /\ Goto("read", "took")
       ELSE Goto("read", "top") /\ UNCHANGED <<cur, after>>
  /\ UNCHANGED <<m_isConnected, m_autoConnect, timerVars, ctxVars, local, m_queue, m_sem, m_waitSem,
                 at, closing>>

\* ctx->result = ..., ctx->response = ..., then doRsp()
setResult ==
  /\ pc["read"] = "took"
  /\ result' = [result EXCEPT ![cur["read"]] = "OK"]
  /\ Goto("read", "got")
  /\ UNCHANGED <<conn, timerVars, local, cur, after, scheduler, timer, timed, response, woken,
                 answer, m_ctxs, m_queue, m_sem, m_waitSem, at, closing>>

setResponse ==
  /\ pc["read"] = "got"
  /\ response' = [response EXCEPT ![cur["read"]] = TRUE]
  /\ Goto("read", "rsp")
  /\ UNCHANGED <<conn, timerVars, local, cur, after, scheduler, timer, timed, result, woken,
                 answer, m_ctxs, m_queue, m_sem, m_waitSem, at, closing>>

\* m_waitSem.notify() after the last innerClose(); if(m_autoConnect) a timer
\* for start()
readExit ==
  /\ pc["read"] = "exit"
  /\ m_waitSem' = m_waitSem + 1
  /\ again' = m_autoConnect
  /\ Goto("read", "none")
  /\ UNCHANGED <<conn, m_timer, calls, local, cur, after, ctxVars, m_ctxs, m_queue, m_sem, at,
                 closing>>

\* without recvFails on an open connection, which the peer decides
ReadOn ==
  \/ readTop \/ (\E r \in Requests : recv(r)) \/ (~m_isConnected /\ recvFails)
  \/ setResult \/ setResponse \/ readExit \/ Common("read")

-----------------------------------------------------------------------------
(* doWrite()                                                               *)

writeTop ==
  /\ pc["write"] = "top"
  /\ Goto("write", IF m_isConnected THEN "wait" ELSE "exit")
  /\ UNCHANGED <<conn, timerVars, local, cur, after, ctxVars, m_ctxs, m_queue, m_sem, m_waitSem,
                 at, closing>>

\* m_sem.wait() returns; m_queue.swap(ctxs)
writeWait ==
  /\ pc["write"] = "wait" /\ m_sem > 0
  /\ m_sem' = m_sem - 1
  /\ local' = [local EXCEPT !["write"] = m_queue] /\ m_queue' = {}
  /\ Goto("write", "send")
  /\ UNCHANGED <<conn, timerVars, cur, after, ctxVars, m_ctxs, m_waitSem, at, closing>>

\* doSend() of each; after a failure the rest is dropped, and so it is when
\* doSend() throws, which ends the writer and leaves the connection open.
\* (doRecv() does not throw: its decoder catches everything.)
writeSend ==
  /\ pc["write"] = "send"
  /\ \/ /\ m_isConnected
        /\ \E c \in local["write"] :
             /\ sent' = sent \cup ({c} \cap Requests)
             /\ local' = [local EXCEPT !["write"] = @ \ {c}]
        /\ UNCHANGED <<pc, cur, after>>
     \/ /\ local["write"] # {}
        /\ Close("write", "top") /\ sent' = sent
     \/ /\ local["write"] # {}
        /\ Goto("write", "exit")
        /\ local' = [local EXCEPT !["write"] = {}]
        /\ UNCHANGED <<sent, cur, after>>
     \/ /\ local["write"] = {}
        /\ Goto("write", "top") /\ UNCHANGED <<sent, local, cur, after>>
  /\ UNCHANGED <<m_isConnected, m_autoConnect, timerVars, ctxVars, m_ctxs, m_queue, m_sem,
                 m_waitSem, at, closing>>

\* m_queue.clear(), m_waitSem.notify()
writeExit ==
  /\ pc["write"] = "exit"
  /\ m_queue' = {}
  /\ m_waitSem' = m_waitSem + 1
  /\ Goto("write", "none")
  /\ UNCHANGED <<conn, timerVars, local, cur, after, ctxVars, m_ctxs, m_sem, at, closing>>

Write ==
  \/ writeTop \/ writeWait \/ writeSend \/ writeExit
  \/ Common("write")

-----------------------------------------------------------------------------
(* start() and close()                                                     *)

\* a timer calls start()
startAgain ==
  /\ pc["start"] = "none" /\ calls < MaxCalls
  /\ \/ m_timer /\ m_timer' = FALSE /\ again' = again
     \/ again /\ again' = FALSE /\ m_timer' = m_timer
  /\ calls' = calls + 1
  /\ Goto("start", "wait")
  /\ UNCHANGED <<conn, local, cur, after, ctxVars, m_ctxs, m_queue, m_sem, m_waitSem, at, closing>>

\* mutant: one m_waitSem.wait() only
waitFiberOnce ==
  /\ pc["start"] = "wait" /\ m_waitSem >= 1
  /\ m_waitSem' = m_waitSem - 1
  /\ m_timer' = FALSE
  /\ Goto("start", "connect")
  /\ UNCHANGED <<conn, again, calls, local, cur, after, ctxVars, m_ctxs, m_queue, m_sem, at,
                 closing>>

\* two permits, one from each fiber of the last connection; then
\* m_timer->cancel()
waitFiber ==
  /\ pc["start"] = "wait" /\ m_waitSem >= 2
  /\ m_waitSem' = m_waitSem - 2
  /\ m_timer' = FALSE
  /\ Goto("start", "connect")
  /\ UNCHANGED <<conn, again, calls, local, cur, after, ctxVars, m_ctxs, m_queue, m_sem, at,
                 closing>>

\* isConnected() or reconnect()
reconnect ==
  /\ pc["start"] = "connect"
  /\ \/ m_isConnected' = TRUE /\ Goto("start", "cb") /\ UNCHANGED <<local, cur, after>>
     \/ ~m_isConnected /\ m_isConnected' = FALSE /\ Close("start", "failed")
  /\ UNCHANGED <<m_autoConnect, sent, timerVars, ctxVars, m_ctxs, m_queue, m_sem, m_waitSem, at,
                 closing>>

\* m_connectCb() agrees and both fibers are started, or it refuses
connectCb ==
  /\ pc["start"] = "cb"
  /\ \/ /\ pc' = [pc EXCEPT !["start"] = "none", !["read"] = "top", !["write"] = "top"]
        /\ UNCHANGED <<local, cur, after>>
     \/ Close("start", "failed")
  /\ UNCHANGED <<conn, timerVars, ctxVars, m_ctxs, m_queue, m_sem, m_waitSem, at, closing>>

\* both permits are given back; if(m_autoConnect) a new m_timer for start()
startFailed ==
  /\ pc["start"] = "failed"
  /\ m_waitSem' = m_waitSem + 2
  /\ m_timer' = (m_autoConnect \/ m_timer)
  /\ Goto("start", "none")
  /\ UNCHANGED <<conn, again, calls, local, cur, after, ctxVars, m_ctxs, m_queue, m_sem, at,
                 closing>>

Start ==
  waitFiber \/ reconnect \/ connectCb \/ startFailed \/ Common("start")

\* close(): m_autoConnect, then, on the stream's own scheduler, the timer and
\* the socket
close ==
  /\ \/ /\ closing = "no" /\ closing' = "socket"
        /\ m_autoConnect' = FALSE
        /\ UNCHANGED <<m_timer, m_isConnected, sent>>
     \/ /\ closing = "socket" /\ closing' = "done"
        /\ m_timer' = FALSE
        /\ m_isConnected' = FALSE /\ sent' = {}
        /\ UNCHANGED m_autoConnect
  /\ UNCHANGED <<again, calls, fibers, ctxVars, m_ctxs, m_queue, m_sem, m_waitSem, at>>

Next ==
  \/ \E c \in Callers : call(c) \/ Caller(c)
  \/ \E r \in Requests : onTimeOut(r)
  \/ ReadOn \/ (m_isConnected /\ recvFails) \/ Write \/ Start \/ startAgain \/ close

Spec == Init /\ [][Next]_vars

(* Callers and fibers that can run do, and timers expire.  The peer need not
   answer, and nobody need call or close.                                   *)
Fairness ==
  /\ \A c \in Callers : WF_vars(Caller(c))
  /\ \A r \in Requests : WF_vars(onTimeOut(r))
  /\ WF_vars(ReadOn) /\ WF_vars(Write) /\ WF_vars(Start)

FairSpec == Spec /\ Fairness

-----------------------------------------------------------------------------
(* Properties                                                              *)

TypeOK ==
  /\ m_isConnected \in BOOLEAN /\ m_autoConnect \in BOOLEAN /\ m_timer \in BOOLEAN
  /\ again \in BOOLEAN /\ m_ctxs \subseteq Requests /\ m_queue \subseteq Callers
  /\ sent \subseteq Requests /\ m_sem \in Nat /\ m_waitSem \in Nat
  /\ \A a \in Agents : local[a] \subseteq Callers

(* A request is answered once: response, timer and loss of the connection
   race for the ctx, and a fiber that was scheduled twice would be resumed
   in whatever it waits for next.                                          *)
AnsweredOnce == \A r \in Requests : woken[r] <= 1

(* request() returns OK, which is also the value a ctx starts with, only if
   its response was received, even when its timer or a close came at the
   same time; the response itself may be a step behind the result.         *)
OkMeansAnswered ==
  \A r \in Requests : answer[r] = "OK" =>
    response[r] \/ (pc["read"] = "got" /\ cur["read"] = r)

(* What is in m_queue will be fetched: enqueue() wakes the writer only for
   the first message, yet none is left behind when the writer is at work,
   ends, or starts anew.                                                    *)
NothingStuck ==
  m_queue # {} =>
    m_sem > 0 \/ pc["write"] = "exit" \/ \E c \in Callers : at[c] = "notify"

(* start() connects anew only when both fibers of the last connection have
   ended, and one start() is in progress or to come at most: two of them
   would hold one permit of m_waitSem each, for ever.  A permit too many
   would let the next start() pass while a fiber is still running.          *)
OneSession ==
  /\ m_waitSem <= 2
  /\ pc["start"] \notin {"none", "wait"} => pc["read"] = "none" /\ pc["write"] = "none"
  /\ pc["start"] # "none" => pc["read"] = "none" /\ ~m_timer /\ ~again
  /\ pc["read"] # "none" => ~m_timer /\ ~again
  /\ ~(m_timer /\ again)

(* request() returns, whatever becomes of the connection.                   *)
RequestReturns == \A r \in Requests : at[r] = "add" ~> at[r] = "done"

(* When the connection is lost or closed both fibers end, also a writer that
   waits for something to send: close() itself does not wake it.            *)
FibersEnd ==
  \A a \in {"read", "write"} : ~m_isConnected /\ pc[a] # "none" ~> pc[a] = "none"

=============================================================================
