----------------------- MODULE AsyncSocketStreamProofs -----------------------
(***************************************************************************)
(* Proofs about AsyncSocketStream, for any number of requests, messages    *)
(* and calls of start(): a request is answered once and never with an OK   *)
(* nobody sent, nothing is left behind in the send queue, and there is one *)
(* connection, with its two fibers, at a time.                             *)
(***************************************************************************)
EXTENDS AsyncSocketStream, TLAPS

ReadLabel == {"none", "top", "recv", "took", "got", "close", "each", "rsp", "exit"}
WriteLabel == {"none", "top", "wait", "send", "close", "each", "rsp", "exit"}
StartLabel == {"none", "wait", "connect", "cb", "close", "each", "rsp", "failed"}

\* the types of the connection and the queue, of the fibers, of the requests
ConnType ==
  /\ m_isConnected \in BOOLEAN /\ m_autoConnect \in BOOLEAN
  /\ m_timer \in BOOLEAN /\ again \in BOOLEAN
  /\ m_queue \in SUBSET Callers /\ sent \in SUBSET Requests
  /\ m_sem \in Nat /\ m_waitSem \in Nat

FiberVarType ==
  /\ m_ctxs \in SUBSET Requests
  /\ pc \in [Agents -> ReadLabel \cup WriteLabel \cup StartLabel]
  /\ after \in [Agents -> {"none", "top", "exit", "failed"}]
  /\ local \in [Agents -> SUBSET Callers] /\ cur \in [Agents -> Requests \cup {nullptr}]
  /\ at \in [Callers -> {"out", "add", "timer", "push", "notify", "hold", "done"}]

CtxType ==
  /\ scheduler \in [Requests -> BOOLEAN] /\ timer \in [Requests -> {"no", "armed", "rsp"}]
  /\ timed \in [Requests -> BOOLEAN] /\ response \in [Requests -> BOOLEAN]
  /\ result \in [Requests -> {"OK", "TIMEOUT", "IO_ERROR"}]
  /\ woken \in [Requests -> Nat]
  /\ answer \in [Requests -> {"none", "NOT_CONNECT", "OK", "TIMEOUT", "IO_ERROR"}]

\* where each fiber may be, where it goes on after innerClose(), and that what
\* it answers are requests
FiberType ==
  /\ pc["read"] \in ReadLabel /\ pc["write"] \in WriteLabel /\ pc["start"] \in StartLabel
  /\ pc["read"] \in {"took", "got", "close", "each", "rsp"} => after["read"] \in {"top", "exit"}
  /\ pc["write"] \in {"close", "each", "rsp"} => after["write"] = "top"
  /\ pc["start"] \in {"close", "each", "rsp"} => after["start"] = "failed"
  /\ pc["read"] \notin {"each", "rsp"} => local["read"] = {}
  /\ \A a \in Agents : /\ pc[a] \in {"took", "got", "rsp"} => cur[a] \in Requests
                       /\ pc[a] \in {"each", "rsp"} => local[a] \in SUBSET Requests

\* the permits of m_waitSem: each fiber that runs holds one, a start() that has
\* waited for them two; and one start() is in progress or to come
SessionInv ==
  /\ m_waitSem + (IF pc["start"] \in {"none", "wait"} THEN 0 ELSE 2)
       + (IF pc["read"] = "none" THEN 0 ELSE 1) + (IF pc["write"] = "none" THEN 0 ELSE 1) = 2
  /\ pc["start"] # "none" => pc["read"] = "none" /\ ~m_timer /\ ~again
  /\ pc["read"] # "none" => ~m_timer /\ ~again
  /\ ~(m_timer /\ again)

\* who has taken ctx->scheduler has woken the fiber
AnswerInv ==
  \A r \in Requests :
    /\ woken[r] <= 1 /\ (scheduler[r] => woken[r] = 0)
    /\ at[r] \in {"out", "add"} => ~scheduler[r] /\ woken[r] = 0

\* a fiber has taken r from m_ctxs and not answered it yet
Own(a, r) ==
  \/ pc[a] \in {"each", "rsp"} /\ r \in local[a]
  \/ pc[a] \in {"took", "got", "rsp"} /\ r = cur[a]

\* a ctx is in m_ctxs, with one fiber, or with nobody but its timer
OwnInv ==
  \A r \in Requests :
    /\ at[r] \in {"out", "add"} => r \notin m_ctxs /\ \A a \in Agents : ~Own(a, r)
    /\ r \in m_ctxs => \A a \in Agents : ~Own(a, r)
    /\ \A a, b \in Agents : Own(a, r) /\ Own(b, r) => a = b

\* the response of r has arrived
Arrived(r) == response[r] \/ (pc["read"] = "got" /\ cur["read"] = r)

\* whoever answers r with a result of OK has its response
ResultInv ==
  /\ \A r \in Requests : /\ timer[r] = "rsp" => timed[r]
                         /\ woken[r] > 0 /\ result[r] = "OK" => Arrived(r)
                         /\ answer[r] = "OK" => Arrived(r)
  /\ \A a \in Agents : pc[a] = "rsp" => response[cur[a]] \/ result[cur[a]] # "OK"

-----------------------------------------------------------------------------
(* Each part is preserved by every step.                                   *)

\* the types of the connection and the queue
LEMMA ConnStep ==
  ASSUME ConnType, FiberVarType, Next
  PROVE  ConnType'
  <1>1. ASSUME NEW c \in Callers, call(c) PROVE ConnType'
    BY Zenon, <1>1 DEF call, ConnType, FiberVarType, Callers, conn, timerVars, fibers, ctxVars
  <1>2. ASSUME NEW r \in Requests, addCtx(r) PROVE ConnType'
    BY Zenon, <1>2 DEF addCtx, ConnType, FiberVarType, Callers, conn, timerVars, fibers, ctxVars
  <1>3. ASSUME NEW r \in Requests, addTimer(r) PROVE ConnType'
    BY Zenon, <1>3 DEF addTimer, ConnType, FiberVarType, Callers, conn, timerVars, fibers, ctxVars
  <1>4. ASSUME NEW c \in Callers, enqueue(c) PROVE ConnType'
    BY <1>4 DEF enqueue, Push, Queued, ConnType, FiberVarType, Callers, conn, timerVars,
           fibers, ctxVars
  <1>5. ASSUME NEW r \in Requests, resume(r) PROVE ConnType'
    BY Zenon, <1>5 DEF resume, ConnType, FiberVarType, Callers, conn, timerVars, fibers, ctxVars
  <1>6. ASSUME NEW r \in Requests, onTimeOut(r) PROVE ConnType'
    BY Zenon, <1>6 DEF onTimeOut, Finish, ConnType, FiberVarType, Callers, conn, timerVars, fibers,
           ctxVars
  <1>7. ASSUME NEW a \in Agents, takeAll(a) PROVE ConnType'
    <2>1. m_sem' \in Nat
      BY <1>7 DEF takeAll, ConnType
    <2>2. /\ m_isConnected' = FALSE /\ sent' = {} /\ m_queue' = {}
          /\ UNCHANGED <<m_autoConnect, m_timer, again, m_waitSem>>
      BY Zenon, <1>7 DEF takeAll, timerVars
    <2> QED BY Zenon, <2>1, <2>2 DEF ConnType
  <1>8. ASSUME NEW a \in Agents, answerEach(a) PROVE ConnType'
    BY Zenon, <1>8 DEF answerEach, Goto, ConnType, FiberVarType, Callers, conn, timerVars, fibers,
           ctxVars
  <1>9. ASSUME NEW a \in Agents, doRsp(a) PROVE ConnType'
    BY Zenon, <1>9 DEF doRsp, Finish, CancelTimer, Goto, ConnType, FiberVarType, Callers, conn,
           timerVars, fibers, ctxVars
  <1>10. CASE readTop
    BY Zenon, <1>10 DEF readTop, Close, Goto, ConnType, FiberVarType, Callers, conn, timerVars,
           fibers, ctxVars
  <1>11. CASE recvFails
    BY Zenon, <1>11 DEF recvFails, Close, Goto, ConnType, FiberVarType, Callers, conn, timerVars,
           fibers, ctxVars
  <1>12. ASSUME NEW r \in Requests, recv(r) PROVE ConnType'
    BY Zenon, <1>12 DEF recv, Goto, ConnType, FiberVarType, Callers, conn, timerVars, fibers, ctxVars
  <1>13. CASE setResult
    BY Zenon, <1>13 DEF setResult, Goto, ConnType, FiberVarType, Callers, conn, timerVars, fibers,
           ctxVars
  <1>14. CASE setResponse
    BY Zenon, <1>14 DEF setResponse, Goto, ConnType, FiberVarType, Callers, conn, timerVars, fibers,
           ctxVars
  <1>15. CASE readExit
    BY <1>15 DEF readExit, Goto, ConnType, FiberVarType, Callers, conn, timerVars, fibers,
           ctxVars
  <1>16. CASE writeTop
    BY Zenon, <1>16 DEF writeTop, Goto, ConnType, FiberVarType, Callers, conn, timerVars, fibers,
           ctxVars
  <1>17. CASE writeWait
    BY <1>17 DEF writeWait, Goto, ConnType, FiberVarType, Callers, conn, timerVars, fibers,
           ctxVars
  <1>18. CASE writeSend
    BY Zenon, <1>18 DEF writeSend, Close, Goto, ConnType, FiberVarType, Callers, conn, timerVars,
           fibers, ctxVars
  <1>19. CASE writeExit
    BY <1>19 DEF writeExit, Goto, ConnType, FiberVarType, Callers, conn, timerVars, fibers,
           ctxVars
  <1>20. CASE startAgain
    BY Zenon, <1>20 DEF startAgain, Goto, ConnType, FiberVarType, Callers, conn, timerVars, fibers,
           ctxVars
  <1>21. CASE waitFiber
    <2>1. m_waitSem' \in Nat
      BY <1>21 DEF waitFiber, ConnType
    <2> QED BY Zenon, <1>21, <2>1 DEF waitFiber, ConnType, conn
  <1>22. CASE reconnect
    BY Zenon, <1>22 DEF reconnect, Close, Goto, ConnType, FiberVarType, Callers, conn, timerVars,
           fibers, ctxVars
  <1>23. CASE connectCb
    BY Zenon, <1>23 DEF connectCb, Close, Goto, ConnType, FiberVarType, Callers, conn, timerVars,
           fibers, ctxVars
  <1>24. CASE startFailed
    BY <1>24 DEF startFailed, Goto, ConnType, FiberVarType, Callers, conn, timerVars, fibers,
           ctxVars
  <1>25. CASE close
    BY Zenon, <1>25 DEF close, ConnType, FiberVarType, Callers, conn, timerVars, fibers, ctxVars
  <1> QED BY Zenon, <1>1, <1>2, <1>3, <1>4, <1>5, <1>6, <1>7, <1>8, <1>9, <1>10, <1>11, <1>12, <1>13,
         <1>14, <1>15, <1>16, <1>17, <1>18, <1>19, <1>20, <1>21, <1>22, <1>23, <1>24, <1>25
         DEF Next, Caller, ReadOn, Write, Start, Common, innerClose, Agents

\* the two outcomes of connectCb for the places of the fibers
LEMMA Connected ==
  ASSUME ConnType, FiberVarType, SessionInv, connectCb
  PROVE  /\ pc["start"] = "cb" /\ pc["read"] = "none" /\ pc["write"] = "none"
         /\ local' = local /\ cur' = cur
         /\ \/ /\ pc'["start"] = "none" /\ pc'["read"] = "top" /\ pc'["write"] = "top"
               /\ after' = after
            \/ /\ pc'["start"] = "close" /\ pc'["read"] = "none" /\ pc'["write"] = "none"
               /\ after'["start"] = "failed"
  <1>1. pc["start"] = "cb" /\ pc["read"] = "none" /\ pc["write"] = "none"
    BY DEF connectCb, ConnType, SessionInv
  <1> QED BY Zenon, <1>1 DEF connectCb, Close, Goto, FiberVarType, Agents

\* the types of the fibers
LEMMA FiberVarStep ==
  ASSUME ConnType, FiberVarType, FiberType, Next
  PROVE  FiberVarType'
  <1>1. ASSUME NEW c \in Callers, call(c) PROVE FiberVarType'
    BY Zenon, <1>1 DEF call, ConnType, FiberVarType, FiberType, Agents, Callers, ReadLabel,
           WriteLabel, StartLabel, conn, timerVars, fibers, ctxVars
  <1>2. ASSUME NEW r \in Requests, addCtx(r) PROVE FiberVarType'
    BY Zenon, <1>2 DEF addCtx, ConnType, FiberVarType, FiberType, Agents, Callers, ReadLabel,
           WriteLabel, StartLabel, conn, timerVars, fibers, ctxVars
  <1>3. ASSUME NEW r \in Requests, addTimer(r) PROVE FiberVarType'
    BY Zenon, <1>3 DEF addTimer, ConnType, FiberVarType, FiberType, Agents, Callers, ReadLabel,
           WriteLabel, StartLabel, conn, timerVars, fibers, ctxVars
  <1>4. ASSUME NEW c \in Callers, enqueue(c) PROVE FiberVarType'
    BY Zenon, <1>4 DEF enqueue, Push, Queued, ConnType, FiberVarType, FiberType, Agents, Callers,
           ReadLabel, WriteLabel, StartLabel, conn, timerVars, fibers, ctxVars
  <1>5. ASSUME NEW r \in Requests, resume(r) PROVE FiberVarType'
    BY Zenon, <1>5 DEF resume, ConnType, FiberVarType, FiberType, Agents, Callers, ReadLabel,
           WriteLabel, StartLabel, conn, timerVars, fibers, ctxVars
  <1>6. ASSUME NEW r \in Requests, onTimeOut(r) PROVE FiberVarType'
    BY Zenon, <1>6 DEF onTimeOut, Finish, ConnType, FiberVarType, FiberType, Agents, Callers,
           ReadLabel, WriteLabel, StartLabel, conn, timerVars, fibers, ctxVars
  <1>7. ASSUME NEW a \in Agents, takeAll(a) PROVE FiberVarType'
    BY Zenon, <1>7 DEF takeAll, Goto, ConnType, FiberVarType, FiberType, Agents, Callers, ReadLabel,
           WriteLabel, StartLabel, conn, timerVars, fibers, ctxVars
  <1>8. ASSUME NEW a \in Agents, answerEach(a) PROVE FiberVarType'
    BY <1>8 DEF answerEach, Goto, ConnType, FiberVarType, FiberType, Agents, Callers,
           ReadLabel, WriteLabel, StartLabel, conn, timerVars, fibers, ctxVars
  <1>9. ASSUME NEW a \in Agents, doRsp(a) PROVE FiberVarType'
    BY Zenon, <1>9 DEF doRsp, Finish, CancelTimer, Goto, ConnType, FiberVarType, FiberType, Agents,
           Callers, ReadLabel, WriteLabel, StartLabel, conn, timerVars, fibers, ctxVars
  <1>10. CASE readTop
    BY <1>10 DEF readTop, Close, Goto, ConnType, FiberVarType, FiberType, Agents, Callers,
           ReadLabel, WriteLabel, StartLabel, conn, timerVars, fibers, ctxVars
  <1>11. CASE recvFails
    BY Zenon, <1>11 DEF recvFails, Close, Goto, ConnType, FiberVarType, FiberType, Agents, Callers,
           ReadLabel, WriteLabel, StartLabel, conn, timerVars, fibers, ctxVars
  <1>12. ASSUME NEW r \in Requests, recv(r) PROVE FiberVarType'
    BY <1>12 DEF recv, Goto, ConnType, FiberVarType, FiberType, Agents, Callers, ReadLabel,
           WriteLabel, StartLabel, conn, timerVars, fibers, ctxVars
  <1>13. CASE setResult
    BY Zenon, <1>13 DEF setResult, Goto, ConnType, FiberVarType, FiberType, Agents, Callers,
           ReadLabel, WriteLabel, StartLabel, conn, timerVars, fibers, ctxVars
  <1>14. CASE setResponse
    BY Zenon, <1>14 DEF setResponse, Goto, ConnType, FiberVarType, FiberType, Agents, Callers,
           ReadLabel, WriteLabel, StartLabel, conn, timerVars, fibers, ctxVars
  <1>15. CASE readExit
    BY Zenon, <1>15 DEF readExit, Goto, ConnType, FiberVarType, FiberType, Agents, Callers,
           ReadLabel, WriteLabel, StartLabel, conn, timerVars, fibers, ctxVars
  <1>16. CASE writeTop
    BY Zenon, <1>16 DEF writeTop, Goto, ConnType, FiberVarType, FiberType, Agents, Callers,
           ReadLabel, WriteLabel, StartLabel, conn, timerVars, fibers, ctxVars
  <1>17. CASE writeWait
    BY Zenon, <1>17 DEF writeWait, Goto, ConnType, FiberVarType, FiberType, Agents, Callers,
           ReadLabel, WriteLabel, StartLabel, conn, timerVars, fibers, ctxVars
  <1>18. CASE writeSend
    BY <1>18 DEF writeSend, Close, Goto, ConnType, FiberVarType, FiberType, Agents, Callers,
           ReadLabel, WriteLabel, StartLabel, conn, timerVars, fibers, ctxVars
  <1>19. CASE writeExit
    BY Zenon, <1>19 DEF writeExit, Goto, ConnType, FiberVarType, FiberType, Agents, Callers,
           ReadLabel, WriteLabel, StartLabel, conn, timerVars, fibers, ctxVars
  <1>20. CASE startAgain
    BY Zenon, <1>20 DEF startAgain, Goto, ConnType, FiberVarType, FiberType, Agents, Callers,
           ReadLabel, WriteLabel, StartLabel, conn, timerVars, fibers, ctxVars
  <1>21. CASE waitFiber
    BY Zenon, <1>21 DEF waitFiber, Goto, ConnType, FiberVarType, FiberType, Agents, Callers,
           ReadLabel, WriteLabel, StartLabel, conn, timerVars, fibers, ctxVars
  <1>22. CASE reconnect
    BY <1>22 DEF reconnect, Close, Goto, ConnType, FiberVarType, FiberType, Agents, Callers,
           ReadLabel, WriteLabel, StartLabel, conn, timerVars, fibers, ctxVars
  <1>23. CASE connectCb
    BY <1>23 DEF connectCb, Close, Goto, ConnType, FiberVarType, FiberType, Agents, Callers,
           ReadLabel, WriteLabel, StartLabel, conn, timerVars, fibers, ctxVars
  <1>24. CASE startFailed
    BY Zenon, <1>24 DEF startFailed, Goto, ConnType, FiberVarType, FiberType, Agents, Callers,
           ReadLabel, WriteLabel, StartLabel, conn, timerVars, fibers, ctxVars
  <1>25. CASE close
    BY Zenon, <1>25 DEF close, ConnType, FiberVarType, FiberType, Agents, Callers, ReadLabel,
           WriteLabel, StartLabel, conn, timerVars, fibers, ctxVars
  <1> QED BY Zenon, <1>1, <1>2, <1>3, <1>4, <1>5, <1>6, <1>7, <1>8, <1>9, <1>10, <1>11, <1>12, <1>13,
         <1>14, <1>15, <1>16, <1>17, <1>18, <1>19, <1>20, <1>21, <1>22, <1>23, <1>24, <1>25
         DEF Next, Caller, ReadOn, Write, Start, Common, innerClose, Agents

\* the types of the requests
LEMMA CtxStep ==
  ASSUME CtxType, FiberVarType, FiberType, Next
  PROVE  CtxType'
  <1>1. ASSUME NEW c \in Callers, call(c) PROVE CtxType'
    BY Zenon, <1>1 DEF call, CtxType, FiberVarType, Callers, conn, timerVars, fibers, ctxVars
  <1>2. ASSUME NEW r \in Requests, addCtx(r) PROVE CtxType'
    BY Zenon, <1>2 DEF addCtx, CtxType, FiberVarType, Callers, conn, timerVars, fibers, ctxVars
  <1>3. ASSUME NEW r \in Requests, addTimer(r) PROVE CtxType'
    BY Zenon, <1>3 DEF addTimer, CtxType, FiberVarType, Callers, conn, timerVars, fibers, ctxVars
  <1>4. ASSUME NEW c \in Callers, enqueue(c) PROVE CtxType'
    BY Zenon, <1>4 DEF enqueue, Push, Queued, CtxType, FiberVarType, Callers, conn, timerVars,
           fibers, ctxVars
  <1>5. ASSUME NEW r \in Requests, resume(r) PROVE CtxType'
    BY Zenon, <1>5 DEF resume, CtxType, FiberVarType, Callers, conn, timerVars, fibers, ctxVars
  <1>6. ASSUME NEW r \in Requests, onTimeOut(r) PROVE CtxType'
    <2>1. CASE scheduler[r] /\ timer[r] = "rsp"
      <3>1. /\ timer' = [timer EXCEPT ![r] = "no"]
            /\ scheduler' = [scheduler EXCEPT ![r] = FALSE]
            /\ result' = [result EXCEPT ![r] = IF timed[r] THEN "TIMEOUT" ELSE @]
            /\ woken' = [woken EXCEPT ![r] = @ + 1]
            /\ UNCHANGED <<timed, response, answer>>
        BY Zenon, <1>6, <2>1 DEF onTimeOut, Finish
      <3> QED BY <3>1 DEF CtxType
    <2>2. CASE ~(scheduler[r] /\ timer[r] = "rsp")
      BY Zenon, <1>6, <2>2 DEF onTimeOut, CtxType
    <2> QED BY Zenon, <2>1, <2>2
  <1>7. ASSUME NEW a \in Agents, takeAll(a) PROVE CtxType'
    BY Zenon, <1>7 DEF takeAll, Goto, CtxType, FiberVarType, Callers, conn, timerVars, fibers, ctxVars
  <1>8. ASSUME NEW a \in Agents, answerEach(a) PROVE CtxType'
    BY Zenon, <1>8 DEF answerEach, Goto, CtxType, FiberVarType, FiberType, Callers, conn, timerVars,
           fibers, ctxVars
  <1>9. ASSUME NEW a \in Agents, doRsp(a) PROVE CtxType'
    <2>1. cur[a] \in Requests
      BY Zenon, <1>9 DEF doRsp, FiberType
    <2>2. CASE scheduler[cur[a]]
      <3>1. PICK r \in Requests : r = cur[a]
        BY Zenon, <2>1
      <3>2. /\ timer' = [timer EXCEPT ![r] = IF @ = "armed" /\ at[r] # "push" THEN "no" ELSE @]
            /\ scheduler' = [scheduler EXCEPT ![r] = FALSE]
            /\ result' = [result EXCEPT ![r] = IF timed[r] THEN "TIMEOUT" ELSE @]
            /\ woken' = [woken EXCEPT ![r] = @ + 1]
            /\ UNCHANGED <<timed, response, answer>>
        BY Zenon, <1>9, <2>2, <3>1 DEF doRsp, Finish, CancelTimer
      <3> QED BY <3>2 DEF CtxType
    <2>3. CASE ~scheduler[cur[a]]
      BY Zenon, <1>9, <2>3 DEF doRsp, ctxVars, CtxType
    <2> QED BY Zenon, <2>2, <2>3
  <1>10. CASE readTop
    BY Zenon, <1>10 DEF readTop, Close, Goto, CtxType, FiberVarType, Callers, conn, timerVars,
           fibers, ctxVars
  <1>11. CASE recvFails
    BY Zenon, <1>11 DEF recvFails, Close, Goto, CtxType, FiberVarType, Callers, conn, timerVars,
           fibers, ctxVars
  <1>12. ASSUME NEW r \in Requests, recv(r) PROVE CtxType'
    BY Zenon, <1>12 DEF recv, Goto, CtxType, FiberVarType, Callers, conn, timerVars, fibers, ctxVars
  <1>13. CASE setResult
    BY Zenon, <1>13 DEF setResult, Goto, CtxType, FiberVarType, FiberType, Agents, conn, timerVars,
           fibers, ctxVars
  <1>14. CASE setResponse
    BY Zenon, <1>14 DEF setResponse, Goto, CtxType, FiberVarType, FiberType, Agents, conn, timerVars,
           fibers, ctxVars
  <1>15. CASE readExit
    BY Zenon, <1>15 DEF readExit, Goto, CtxType, FiberVarType, Callers, conn, timerVars, fibers,
           ctxVars
  <1>16. CASE writeTop
    BY Zenon, <1>16 DEF writeTop, Goto, CtxType, FiberVarType, Callers, conn, timerVars, fibers,
           ctxVars
  <1>17. CASE writeWait
    BY Zenon, <1>17 DEF writeWait, Goto, CtxType, FiberVarType, Callers, conn, timerVars, fibers,
           ctxVars
  <1>18. CASE writeSend
    BY Zenon, <1>18 DEF writeSend, Close, Goto, CtxType, FiberVarType, Callers, conn, timerVars,
           fibers, ctxVars
  <1>19. CASE writeExit
    BY Zenon, <1>19 DEF writeExit, Goto, CtxType, FiberVarType, Callers, conn, timerVars, fibers,
           ctxVars
  <1>20. CASE startAgain
    BY Zenon, <1>20 DEF startAgain, Goto, CtxType, FiberVarType, Callers, conn, timerVars, fibers,
           ctxVars
  <1>21. CASE waitFiber
    BY Zenon, <1>21 DEF waitFiber, Goto, CtxType, FiberVarType, Callers, conn, timerVars, fibers,
           ctxVars
  <1>22. CASE reconnect
    BY Zenon, <1>22 DEF reconnect, Close, Goto, CtxType, FiberVarType, Callers, conn, timerVars,
           fibers, ctxVars
  <1>23. CASE connectCb
    BY Zenon, <1>23 DEF connectCb, Close, Goto, CtxType, FiberVarType, Callers, conn, timerVars,
           fibers, ctxVars
  <1>24. CASE startFailed
    BY Zenon, <1>24 DEF startFailed, Goto, CtxType, FiberVarType, Callers, conn, timerVars, fibers,
           ctxVars
  <1>25. CASE close
    BY Zenon, <1>25 DEF close, CtxType, FiberVarType, Callers, conn, timerVars, fibers, ctxVars
  <1> QED BY Zenon, <1>1, <1>2, <1>3, <1>4, <1>5, <1>6, <1>7, <1>8, <1>9, <1>10, <1>11, <1>12, <1>13,
         <1>14, <1>15, <1>16, <1>17, <1>18, <1>19, <1>20, <1>21, <1>22, <1>23, <1>24, <1>25
         DEF Next, Caller, ReadOn, Write, Start, Common, innerClose, Agents

\* the places of the fibers
LEMMA FiberStep ==
  ASSUME ConnType, FiberVarType, FiberType, SessionInv, Next
  PROVE  FiberType'
  <1>1. ASSUME NEW c \in Callers, call(c) PROVE FiberType'
    BY <1>1 DEF call, FiberVarType, FiberType, Agents, ReadLabel, WriteLabel, StartLabel,
           conn, timerVars, fibers, ctxVars
  <1>2. ASSUME NEW r \in Requests, addCtx(r) PROVE FiberType'
    BY <1>2 DEF addCtx, FiberVarType, FiberType, Agents, ReadLabel, WriteLabel, StartLabel,
           conn, timerVars, fibers, ctxVars
  <1>3. ASSUME NEW r \in Requests, addTimer(r) PROVE FiberType'
    BY <1>3 DEF addTimer, FiberVarType, FiberType, Agents, ReadLabel, WriteLabel, StartLabel,
           conn, timerVars, fibers, ctxVars
  <1>4. ASSUME NEW c \in Callers, enqueue(c) PROVE FiberType'
    BY <1>4 DEF enqueue, Push, Queued, FiberVarType, FiberType, Agents, ReadLabel, WriteLabel,
           StartLabel, conn, timerVars, fibers, ctxVars
  <1>5. ASSUME NEW r \in Requests, resume(r) PROVE FiberType'
    BY <1>5 DEF resume, FiberVarType, FiberType, Agents, ReadLabel, WriteLabel, StartLabel,
           conn, timerVars, fibers, ctxVars
  <1>6. ASSUME NEW r \in Requests, onTimeOut(r) PROVE FiberType'
    BY <1>6 DEF onTimeOut, Finish, FiberVarType, FiberType, Agents, ReadLabel, WriteLabel,
           StartLabel, conn, timerVars, fibers, ctxVars
  <1>7. ASSUME NEW a \in Agents, takeAll(a) PROVE FiberType'
    BY <1>7 DEF takeAll, Goto, FiberVarType, FiberType, Agents, ReadLabel, WriteLabel,
           StartLabel, conn, timerVars, fibers, ctxVars
  <1>8. ASSUME NEW a \in Agents, answerEach(a) PROVE FiberType'
    BY <1>8 DEF answerEach, Goto, FiberVarType, FiberType, Agents, ReadLabel, WriteLabel,
           StartLabel, conn, timerVars, fibers, ctxVars
  <1>9. ASSUME NEW a \in Agents, doRsp(a) PROVE FiberType'
    BY <1>9 DEF doRsp, Finish, CancelTimer, Goto, FiberVarType, FiberType, Agents, ReadLabel,
           WriteLabel, StartLabel, conn, timerVars, fibers, ctxVars
  <1>10. CASE readTop
    BY <1>10 DEF readTop, Close, Goto, FiberVarType, FiberType, Agents, ReadLabel, WriteLabel,
           StartLabel, conn, timerVars, fibers, ctxVars
  <1>11. CASE recvFails
    BY <1>11 DEF recvFails, Close, Goto, FiberVarType, FiberType, Agents, ReadLabel,
           WriteLabel, StartLabel, conn, timerVars, fibers, ctxVars
  <1>12. ASSUME NEW r \in Requests, recv(r) PROVE FiberType'
    BY <1>12 DEF recv, Goto, FiberVarType, FiberType, Agents, ReadLabel, WriteLabel,
           StartLabel, conn, timerVars, fibers, ctxVars
  <1>13. CASE setResult
    BY <1>13 DEF setResult, Goto, FiberVarType, FiberType, Agents, ReadLabel, WriteLabel,
           StartLabel, conn, timerVars, fibers, ctxVars
  <1>14. CASE setResponse
    BY <1>14 DEF setResponse, Goto, FiberVarType, FiberType, Agents, ReadLabel, WriteLabel,
           StartLabel, conn, timerVars, fibers, ctxVars
  <1>15. CASE readExit
    BY Zenon, <1>15 DEF readExit, Goto, FiberVarType, FiberType, Agents, ReadLabel, WriteLabel,
           StartLabel, conn, timerVars, fibers, ctxVars
  <1>16. CASE writeTop
    BY <1>16 DEF writeTop, Goto, FiberVarType, FiberType, Agents, ReadLabel, WriteLabel,
           StartLabel, conn, timerVars, fibers, ctxVars
  <1>17. CASE writeWait
    BY <1>17 DEF writeWait, Goto, FiberVarType, FiberType, Agents, ReadLabel, WriteLabel,
           StartLabel, conn, timerVars, fibers, ctxVars
  <1>18. CASE writeSend
    BY <1>18 DEF writeSend, Close, Goto, FiberVarType, FiberType, Agents, ReadLabel,
           WriteLabel, StartLabel, conn, timerVars, fibers, ctxVars
  <1>19. CASE writeExit
    BY <1>19 DEF writeExit, Goto, FiberVarType, FiberType, Agents, ReadLabel, WriteLabel,
           StartLabel, conn, timerVars, fibers, ctxVars
  <1>20. CASE startAgain
    BY <1>20 DEF startAgain, Goto, FiberVarType, FiberType, Agents, ReadLabel, WriteLabel,
           StartLabel, conn, timerVars, fibers, ctxVars
  <1>21. CASE waitFiber
    BY <1>21 DEF waitFiber, Goto, FiberVarType, FiberType, Agents, ReadLabel, WriteLabel,
           StartLabel, conn, timerVars, fibers, ctxVars
  <1>22. CASE reconnect
    BY <1>22 DEF reconnect, Close, Goto, FiberVarType, FiberType, Agents, ReadLabel,
           WriteLabel, StartLabel, conn, timerVars, fibers, ctxVars
  <1>23. CASE connectCb
    <2>1. /\ pc'["read"] \in {"none", "top"} /\ pc'["write"] \in {"none", "top"}
          /\ pc'["start"] \in {"none", "close"}
          /\ pc'["start"] = "close" => after'["start"] = "failed"
          /\ pc["read"] = "none" /\ pc["start"] = "cb" /\ local' = local
      BY Zenon, <1>23, Connected
    <2>2. local["read"] = {}
      BY Zenon, <2>1 DEF FiberType
    <2> QED BY Zenon, <2>1, <2>2 DEF FiberType, Agents, ReadLabel, WriteLabel, StartLabel
  <1>24. CASE startFailed
    BY <1>24 DEF startFailed, Goto, FiberVarType, FiberType, Agents, ReadLabel, WriteLabel,
           StartLabel, conn, timerVars, fibers, ctxVars
  <1>25. CASE close
    BY <1>25 DEF close, FiberVarType, FiberType, Agents, ReadLabel, WriteLabel, StartLabel,
           conn, timerVars, fibers, ctxVars
  <1> QED BY Zenon, <1>1, <1>2, <1>3, <1>4, <1>5, <1>6, <1>7, <1>8, <1>9, <1>10, <1>11, <1>12, <1>13,
         <1>14, <1>15, <1>16, <1>17, <1>18, <1>19, <1>20, <1>21, <1>22, <1>23, <1>24, <1>25
         DEF Next, Caller, ReadOn, Write, Start, Common, innerClose, Agents

\* permits of m_waitSem move between the fibers and start()
LEMMA SessionStep ==
  ASSUME ConnType, FiberVarType, FiberType, SessionInv, Next
  PROVE  SessionInv'
  <1>1. ASSUME NEW c \in Callers, call(c) PROVE SessionInv'
    BY Zenon, <1>1 DEF call, ConnType, FiberVarType, FiberType, SessionInv, Agents, ReadLabel,
           WriteLabel, StartLabel, conn, timerVars, fibers, ctxVars
  <1>2. ASSUME NEW r \in Requests, addCtx(r) PROVE SessionInv'
    BY Zenon, <1>2 DEF addCtx, ConnType, FiberVarType, FiberType, SessionInv, Agents, ReadLabel,
           WriteLabel, StartLabel, conn, timerVars, fibers, ctxVars
  <1>3. ASSUME NEW r \in Requests, addTimer(r) PROVE SessionInv'
    BY Zenon, <1>3 DEF addTimer, ConnType, FiberVarType, FiberType, SessionInv, Agents, ReadLabel,
           WriteLabel, StartLabel, conn, timerVars, fibers, ctxVars
  <1>4. ASSUME NEW c \in Callers, enqueue(c) PROVE SessionInv'
    BY Zenon, <1>4 DEF enqueue, Push, Queued, ConnType, FiberVarType, FiberType, SessionInv, Agents,
           ReadLabel, WriteLabel, StartLabel, conn, timerVars, fibers, ctxVars
  <1>5. ASSUME NEW r \in Requests, resume(r) PROVE SessionInv'
    BY Zenon, <1>5 DEF resume, ConnType, FiberVarType, FiberType, SessionInv, Agents, ReadLabel,
           WriteLabel, StartLabel, conn, timerVars, fibers, ctxVars
  <1>6. ASSUME NEW r \in Requests, onTimeOut(r) PROVE SessionInv'
    BY Zenon, <1>6 DEF onTimeOut, Finish, ConnType, FiberVarType, FiberType, SessionInv, Agents,
           ReadLabel, WriteLabel, StartLabel, conn, timerVars, fibers, ctxVars
  <1>7. ASSUME NEW a \in Agents, takeAll(a) PROVE SessionInv'
    BY Zenon, <1>7 DEF takeAll, Goto, ConnType, FiberVarType, FiberType, SessionInv, Agents,
           ReadLabel, WriteLabel, StartLabel, conn, timerVars, fibers, ctxVars
  <1>8. ASSUME NEW a \in Agents, answerEach(a) PROVE SessionInv'
    BY <1>8 DEF answerEach, Goto, ConnType, FiberVarType, FiberType, SessionInv, Agents,
           ReadLabel, WriteLabel, StartLabel, conn, timerVars, fibers, ctxVars
  <1>9. ASSUME NEW a \in Agents, doRsp(a) PROVE SessionInv'
    BY Zenon, <1>9 DEF doRsp, Finish, CancelTimer, Goto, ConnType, FiberVarType, FiberType,
           SessionInv, Agents, ReadLabel, WriteLabel, StartLabel, conn, timerVars, fibers,
           ctxVars
  <1>10. CASE readTop
    BY <1>10 DEF readTop, Close, Goto, ConnType, FiberVarType, FiberType, SessionInv, Agents,
           ReadLabel, WriteLabel, StartLabel, conn, timerVars, fibers, ctxVars
  <1>11. CASE recvFails
    BY Zenon, <1>11 DEF recvFails, Close, Goto, ConnType, FiberVarType, FiberType, SessionInv,
           Agents, ReadLabel, WriteLabel, StartLabel, conn, timerVars, fibers, ctxVars
  <1>12. ASSUME NEW r \in Requests, recv(r) PROVE SessionInv'
    BY Zenon, <1>12 DEF recv, Goto, ConnType, FiberVarType, FiberType, SessionInv, Agents, ReadLabel,
           WriteLabel, StartLabel, conn, timerVars, fibers, ctxVars
  <1>13. CASE setResult
    BY Zenon, <1>13 DEF setResult, Goto, ConnType, FiberVarType, FiberType, SessionInv, Agents,
           ReadLabel, WriteLabel, StartLabel, conn, timerVars, fibers, ctxVars
  <1>14. CASE setResponse
    BY Zenon, <1>14 DEF setResponse, Goto, ConnType, FiberVarType, FiberType, SessionInv, Agents,
           ReadLabel, WriteLabel, StartLabel, conn, timerVars, fibers, ctxVars
  <1>15. CASE readExit
    BY <1>15 DEF readExit, Goto, ConnType, FiberVarType, FiberType, SessionInv, Agents,
           ReadLabel, WriteLabel, StartLabel, conn, timerVars, fibers, ctxVars
  <1>16. CASE writeTop
    BY Zenon, <1>16 DEF writeTop, Goto, ConnType, FiberVarType, FiberType, SessionInv, Agents,
           ReadLabel, WriteLabel, StartLabel, conn, timerVars, fibers, ctxVars
  <1>17. CASE writeWait
    BY Zenon, <1>17 DEF writeWait, Goto, ConnType, FiberVarType, FiberType, SessionInv, Agents,
           ReadLabel, WriteLabel, StartLabel, conn, timerVars, fibers, ctxVars
  <1>18. CASE writeSend
    BY Zenon, <1>18 DEF writeSend, Close, Goto, ConnType, FiberVarType, FiberType, SessionInv,
           Agents, ReadLabel, WriteLabel, StartLabel, conn, timerVars, fibers, ctxVars
  <1>19. CASE writeExit
    BY <1>19 DEF writeExit, Goto, ConnType, FiberVarType, FiberType, SessionInv, Agents,
           ReadLabel, WriteLabel, StartLabel, conn, timerVars, fibers, ctxVars
  <1>20. CASE startAgain
    BY <1>20 DEF startAgain, Goto, ConnType, FiberVarType, FiberType, SessionInv, Agents,
           ReadLabel, WriteLabel, StartLabel, conn, timerVars, fibers, ctxVars
  <1>21. CASE waitFiber
    BY <1>21 DEF waitFiber, Goto, ConnType, FiberVarType, FiberType, SessionInv, Agents,
           ReadLabel, WriteLabel, StartLabel, conn, timerVars, fibers, ctxVars
  <1>22. CASE reconnect
    BY Zenon, <1>22 DEF reconnect, Close, Goto, ConnType, FiberVarType, FiberType, SessionInv,
           Agents, ReadLabel, WriteLabel, StartLabel, conn, timerVars, fibers, ctxVars
  <1>23. CASE connectCb
    BY <1>23 DEF connectCb, Close, Goto, ConnType, FiberVarType, FiberType, SessionInv,
           Agents, ReadLabel, WriteLabel, StartLabel, conn, timerVars, fibers, ctxVars
  <1>24. CASE startFailed
    BY <1>24 DEF startFailed, Goto, ConnType, FiberVarType, FiberType, SessionInv, Agents,
           ReadLabel, WriteLabel, StartLabel, conn, timerVars, fibers, ctxVars
  <1>25. CASE close
    BY <1>25 DEF close, ConnType, FiberVarType, FiberType, SessionInv, Agents, ReadLabel,
           WriteLabel, StartLabel, conn, timerVars, fibers, ctxVars
  <1> QED BY Zenon, <1>1, <1>2, <1>3, <1>4, <1>5, <1>6, <1>7, <1>8, <1>9, <1>10, <1>11, <1>12, <1>13,
         <1>14, <1>15, <1>16, <1>17, <1>18, <1>19, <1>20, <1>21, <1>22, <1>23, <1>24, <1>25
         DEF Next, Caller, ReadOn, Write, Start, Common, innerClose, Agents

\* the send queue and the permits of m_sem
LEMMA QueueStep ==
  ASSUME ConnType, FiberVarType, SessionInv, NothingStuck, Next
  PROVE  NothingStuck'
  <1>1. ASSUME NEW c \in Callers, call(c) PROVE NothingStuck'
    BY Zenon, <1>1 DEF call, ConnType, FiberVarType, NothingStuck, Agents, Callers, conn, timerVars,
           fibers, ctxVars
  <1>2. ASSUME NEW r \in Requests, addCtx(r) PROVE NothingStuck'
    BY Zenon, <1>2 DEF addCtx, ConnType, FiberVarType, NothingStuck, Agents, Callers, conn,
           timerVars, fibers, ctxVars
  <1>3. ASSUME NEW r \in Requests, addTimer(r) PROVE NothingStuck'
    BY Zenon, <1>3 DEF addTimer, ConnType, FiberVarType, NothingStuck, Agents, Callers, conn,
           timerVars, fibers, ctxVars
  <1>4. ASSUME NEW c \in Callers, enqueue(c) PROVE NothingStuck'
    BY <1>4 DEF enqueue, Push, Queued, ConnType, FiberVarType, NothingStuck, Agents, Callers,
           conn, timerVars, fibers, ctxVars
  <1>5. ASSUME NEW r \in Requests, resume(r) PROVE NothingStuck'
    BY Zenon, <1>5 DEF resume, ConnType, FiberVarType, NothingStuck, Agents, Callers, conn,
           timerVars, fibers, ctxVars
  <1>6. ASSUME NEW r \in Requests, onTimeOut(r) PROVE NothingStuck'
    BY Zenon, <1>6 DEF onTimeOut, Finish, ConnType, FiberVarType, NothingStuck, Agents, Callers,
           conn, timerVars, fibers, ctxVars
  <1>7. ASSUME NEW a \in Agents, takeAll(a) PROVE NothingStuck'
    BY Zenon, <1>7 DEF takeAll, Goto, ConnType, FiberVarType, NothingStuck, Agents, Callers, conn,
           timerVars, fibers, ctxVars
  <1>8. ASSUME NEW a \in Agents, answerEach(a) PROVE NothingStuck'
    BY Zenon, <1>8 DEF answerEach, Goto, ConnType, FiberVarType, NothingStuck, Agents, Callers, conn,
           timerVars, fibers, ctxVars
  <1>9. ASSUME NEW a \in Agents, doRsp(a) PROVE NothingStuck'
    BY Zenon, <1>9 DEF doRsp, Finish, CancelTimer, Goto, ConnType, FiberVarType, NothingStuck,
           Agents, Callers, conn, timerVars, fibers, ctxVars
  <1>10. CASE readTop
    BY Zenon, <1>10 DEF readTop, Close, Goto, ConnType, FiberVarType, NothingStuck, Agents, Callers,
           conn, timerVars, fibers, ctxVars
  <1>11. CASE recvFails
    BY Zenon, <1>11 DEF recvFails, Close, Goto, ConnType, FiberVarType, NothingStuck, Agents,
           Callers, conn, timerVars, fibers, ctxVars
  <1>12. ASSUME NEW r \in Requests, recv(r) PROVE NothingStuck'
    BY Zenon, <1>12 DEF recv, Goto, ConnType, FiberVarType, NothingStuck, Agents, Callers, conn,
           timerVars, fibers, ctxVars
  <1>13. CASE setResult
    BY Zenon, <1>13 DEF setResult, Goto, ConnType, FiberVarType, NothingStuck, Agents, Callers, conn,
           timerVars, fibers, ctxVars
  <1>14. CASE setResponse
    BY Zenon, <1>14 DEF setResponse, Goto, ConnType, FiberVarType, NothingStuck, Agents, Callers,
           conn, timerVars, fibers, ctxVars
  <1>15. CASE readExit
    BY Zenon, <1>15 DEF readExit, Goto, ConnType, FiberVarType, NothingStuck, Agents, Callers, conn,
           timerVars, fibers, ctxVars
  <1>16. CASE writeTop
    BY Zenon, <1>16 DEF writeTop, Goto, ConnType, FiberVarType, NothingStuck, Agents, Callers, conn,
           timerVars, fibers, ctxVars
  <1>17. CASE writeWait
    BY Zenon, <1>17 DEF writeWait, Goto, ConnType, FiberVarType, NothingStuck, Agents, Callers, conn,
           timerVars, fibers, ctxVars
  <1>18. CASE writeSend
    BY Zenon, <1>18 DEF writeSend, Close, Goto, ConnType, FiberVarType, NothingStuck, Agents,
           Callers, conn, timerVars, fibers, ctxVars
  <1>19. CASE writeExit
    BY Zenon, <1>19 DEF writeExit, Goto, ConnType, FiberVarType, NothingStuck, Agents, Callers, conn,
           timerVars, fibers, ctxVars
  <1>20. CASE startAgain
    BY Zenon, <1>20 DEF startAgain, Goto, ConnType, FiberVarType, NothingStuck, Agents, Callers,
           conn, timerVars, fibers, ctxVars
  <1>21. CASE waitFiber
    BY Zenon, <1>21 DEF waitFiber, Goto, ConnType, FiberVarType, NothingStuck, Agents, Callers, conn,
           timerVars, fibers, ctxVars
  <1>22. CASE reconnect
    BY Zenon, <1>22 DEF reconnect, Close, Goto, ConnType, FiberVarType, NothingStuck, Agents,
           Callers, conn, timerVars, fibers, ctxVars
  <1>23. CASE connectCb
    <2>1. pc["write"] # "exit"
      BY Zenon, <1>23, Connected
    <2> QED BY Zenon, <1>23, <2>1 DEF connectCb, NothingStuck
  <1>24. CASE startFailed
    BY Zenon, <1>24 DEF startFailed, Goto, ConnType, FiberVarType, NothingStuck, Agents, Callers,
           conn, timerVars, fibers, ctxVars
  <1>25. CASE close
    BY Zenon, <1>25 DEF close, ConnType, FiberVarType, NothingStuck, Agents, Callers, conn,
           timerVars, fibers, ctxVars
  <1> QED BY Zenon, <1>1, <1>2, <1>3, <1>4, <1>5, <1>6, <1>7, <1>8, <1>9, <1>10, <1>11, <1>12, <1>13,
         <1>14, <1>15, <1>16, <1>17, <1>18, <1>19, <1>20, <1>21, <1>22, <1>23, <1>24, <1>25
         DEF Next, Caller, ReadOn, Write, Start, Common, innerClose, Agents

\* the compare-and-swap of doRsp()
LEMMA AnswerStep ==
  ASSUME CtxType, FiberVarType, FiberType, AnswerInv, Next
  PROVE  AnswerInv'
  <1>1. ASSUME NEW c \in Callers, call(c) PROVE AnswerInv'
    BY <1>1 DEF call, CtxType, FiberVarType, AnswerInv, Callers, conn, timerVars, fibers,
           ctxVars
  <1>2. ASSUME NEW r \in Requests, addCtx(r) PROVE AnswerInv'
    BY Zenon, <1>2 DEF addCtx, CtxType, FiberVarType, AnswerInv, Callers, conn, timerVars, fibers,
           ctxVars
  <1>3. ASSUME NEW r \in Requests, addTimer(r) PROVE AnswerInv'
    BY Zenon, <1>3 DEF addTimer, CtxType, FiberVarType, AnswerInv, Callers, conn, timerVars, fibers,
           ctxVars
  <1>4. ASSUME NEW c \in Callers, enqueue(c) PROVE AnswerInv'
    BY <1>4 DEF enqueue, Push, Queued, CtxType, FiberVarType, AnswerInv, Callers, conn,
           timerVars, fibers, ctxVars
  <1>5. ASSUME NEW r \in Requests, resume(r) PROVE AnswerInv'
    BY Zenon, <1>5 DEF resume, CtxType, FiberVarType, AnswerInv, Callers, conn, timerVars, fibers,
           ctxVars
  <1>6. ASSUME NEW r \in Requests, onTimeOut(r) PROVE AnswerInv'
    BY <1>6 DEF onTimeOut, Finish, CtxType, FiberVarType, AnswerInv, Callers, conn, timerVars,
           fibers, ctxVars
  <1>7. ASSUME NEW a \in Agents, takeAll(a) PROVE AnswerInv'
    BY Zenon, <1>7 DEF takeAll, Goto, CtxType, FiberVarType, AnswerInv, Callers, conn, timerVars,
           fibers, ctxVars
  <1>8. ASSUME NEW a \in Agents, answerEach(a) PROVE AnswerInv'
    BY Zenon, <1>8 DEF answerEach, Goto, CtxType, FiberVarType, AnswerInv, Callers, conn, timerVars,
           fibers, ctxVars
  <1>9. ASSUME NEW a \in Agents, doRsp(a) PROVE AnswerInv'
    BY <1>9 DEF doRsp, Finish, CancelTimer, Goto, CtxType, FiberVarType, FiberType, AnswerInv,
           Callers, conn, timerVars, fibers, ctxVars
  <1>10. CASE readTop
    BY Zenon, <1>10 DEF readTop, Close, Goto, CtxType, FiberVarType, AnswerInv, Callers, conn,
           timerVars, fibers, ctxVars
  <1>11. CASE recvFails
    BY Zenon, <1>11 DEF recvFails, Close, Goto, CtxType, FiberVarType, AnswerInv, Callers, conn,
           timerVars, fibers, ctxVars
  <1>12. ASSUME NEW r \in Requests, recv(r) PROVE AnswerInv'
    BY Zenon, <1>12 DEF recv, Goto, CtxType, FiberVarType, AnswerInv, Callers, conn, timerVars,
           fibers, ctxVars
  <1>13. CASE setResult
    BY Zenon, <1>13 DEF setResult, Goto, CtxType, FiberVarType, AnswerInv, Callers, conn, timerVars,
           fibers, ctxVars
  <1>14. CASE setResponse
    BY Zenon, <1>14 DEF setResponse, Goto, CtxType, FiberVarType, AnswerInv, Callers, conn,
           timerVars, fibers, ctxVars
  <1>15. CASE readExit
    BY Zenon, <1>15 DEF readExit, Goto, CtxType, FiberVarType, AnswerInv, Callers, conn, timerVars,
           fibers, ctxVars
  <1>16. CASE writeTop
    BY Zenon, <1>16 DEF writeTop, Goto, CtxType, FiberVarType, AnswerInv, Callers, conn, timerVars,
           fibers, ctxVars
  <1>17. CASE writeWait
    BY Zenon, <1>17 DEF writeWait, Goto, CtxType, FiberVarType, AnswerInv, Callers, conn, timerVars,
           fibers, ctxVars
  <1>18. CASE writeSend
    BY Zenon, <1>18 DEF writeSend, Close, Goto, CtxType, FiberVarType, AnswerInv, Callers, conn,
           timerVars, fibers, ctxVars
  <1>19. CASE writeExit
    BY Zenon, <1>19 DEF writeExit, Goto, CtxType, FiberVarType, AnswerInv, Callers, conn, timerVars,
           fibers, ctxVars
  <1>20. CASE startAgain
    BY Zenon, <1>20 DEF startAgain, Goto, CtxType, FiberVarType, AnswerInv, Callers, conn, timerVars,
           fibers, ctxVars
  <1>21. CASE waitFiber
    BY Zenon, <1>21 DEF waitFiber, Goto, CtxType, FiberVarType, AnswerInv, Callers, conn, timerVars,
           fibers, ctxVars
  <1>22. CASE reconnect
    BY Zenon, <1>22 DEF reconnect, Close, Goto, CtxType, FiberVarType, AnswerInv, Callers, conn,
           timerVars, fibers, ctxVars
  <1>23. CASE connectCb
    BY Zenon, <1>23 DEF connectCb, Close, Goto, CtxType, FiberVarType, AnswerInv, Callers, conn,
           timerVars, fibers, ctxVars
  <1>24. CASE startFailed
    BY Zenon, <1>24 DEF startFailed, Goto, CtxType, FiberVarType, AnswerInv, Callers, conn,
           timerVars, fibers, ctxVars
  <1>25. CASE close
    BY Zenon, <1>25 DEF close, CtxType, FiberVarType, AnswerInv, Callers, conn, timerVars, fibers,
           ctxVars
  <1> QED BY Zenon, <1>1, <1>2, <1>3, <1>4, <1>5, <1>6, <1>7, <1>8, <1>9, <1>10, <1>11, <1>12, <1>13,
         <1>14, <1>15, <1>16, <1>17, <1>18, <1>19, <1>20, <1>21, <1>22, <1>23, <1>24, <1>25
         DEF Next, Caller, ReadOn, Write, Start, Common, innerClose, Agents

\* a step in which no fiber takes a ctx and no request is added
OwnFrame ==
  /\ m_ctxs' \in SUBSET m_ctxs
  /\ \A r \in Requests : at'[r] \in {"out", "add"} => at[r] \in {"out", "add"}
  /\ \A a \in Agents, r \in Requests : Own(a, r)' => Own(a, r)

\* what such a step does to OwnInv
LEMMA OwnKept ==
  ASSUME OwnInv, OwnFrame
  PROVE  OwnInv'
  BY Zenon DEF OwnInv, OwnFrame

\* a ctx is taken from m_ctxs by one fiber
LEMMA OwnStep ==
  ASSUME ConnType, FiberVarType, FiberType, SessionInv, OwnInv, Next
  PROVE  OwnInv'
  <1>1. ASSUME NEW c \in Callers, call(c) PROVE OwnInv'
    <2>1. OwnFrame
      BY Zenon, <1>1 DEF call, OwnFrame, Own, FiberVarType, Agents, Callers, conn, timerVars, fibers,
             ctxVars
    <2> QED BY Zenon, <2>1, OwnKept
  <1>2. ASSUME NEW r \in Requests, addCtx(r) PROVE OwnInv'
    BY <1>2 DEF addCtx, FiberVarType, OwnInv, Own, Agents, Callers, conn, timerVars, fibers,
           ctxVars
  <1>3. ASSUME NEW r \in Requests, addTimer(r) PROVE OwnInv'
    <2>1. OwnFrame
      BY Zenon, <1>3 DEF addTimer, OwnFrame, Own, FiberVarType, Agents, Callers, conn, timerVars,
             fibers, ctxVars
    <2> QED BY Zenon, <2>1, OwnKept
  <1>4. ASSUME NEW c \in Callers, enqueue(c) PROVE OwnInv'
    <2>1. OwnFrame
      BY Zenon, <1>4 DEF enqueue, Push, Queued, OwnFrame, Own, FiberVarType, Agents, Callers, conn,
             timerVars, fibers, ctxVars
    <2> QED BY Zenon, <2>1, OwnKept
  <1>5. ASSUME NEW r \in Requests, resume(r) PROVE OwnInv'
    <2>1. OwnFrame
      BY Zenon, <1>5 DEF resume, OwnFrame, Own, FiberVarType, Agents, Callers, conn, timerVars,
             fibers, ctxVars
    <2> QED BY Zenon, <2>1, OwnKept
  <1>6. ASSUME NEW r \in Requests, onTimeOut(r) PROVE OwnInv'
    <2>1. OwnFrame
      BY Zenon, <1>6 DEF onTimeOut, Finish, OwnFrame, Own, FiberVarType, Agents, Callers, conn,
             timerVars, fibers, ctxVars
    <2> QED BY Zenon, <2>1, OwnKept
  <1>7. ASSUME NEW a \in Agents, takeAll(a) PROVE OwnInv'
    BY <1>7 DEF takeAll, Goto, FiberVarType, OwnInv, Own, Agents, Callers, conn, timerVars,
           fibers, ctxVars
  <1>8. ASSUME NEW a \in Agents, answerEach(a) PROVE OwnInv'
    BY <1>8, OwnKept DEF answerEach, Goto, OwnFrame, Own, FiberVarType, FiberType, Agents,
           Callers, conn, timerVars, fibers, ctxVars
  <1>9. ASSUME NEW a \in Agents, doRsp(a) PROVE OwnInv'
    <2>1. OwnFrame
      BY Zenon, <1>9 DEF doRsp, Finish, CancelTimer, Goto, OwnFrame, Own, FiberVarType, Agents,
             Callers, conn, timerVars, fibers, ctxVars
    <2> QED BY Zenon, <2>1, OwnKept
  <1>10. CASE readTop
    <2>1. OwnFrame
      BY <1>10 DEF readTop, Close, Goto, OwnFrame, Own, FiberVarType, Agents, Callers, conn,
             timerVars, fibers, ctxVars
    <2> QED BY Zenon, <2>1, OwnKept
  <1>11. CASE recvFails
    <2>1. OwnFrame
      BY Zenon, <1>11 DEF recvFails, Close, Goto, OwnFrame, Own, FiberVarType, Agents, Callers, conn,
             timerVars, fibers, ctxVars
    <2> QED BY Zenon, <2>1, OwnKept
  <1>12. ASSUME NEW r \in Requests, recv(r) PROVE OwnInv'
    BY <1>12 DEF recv, Goto, FiberVarType, OwnInv, Own, Agents, Callers, conn, timerVars,
           fibers, ctxVars
  <1>13. CASE setResult
    <2>1. OwnFrame
      BY Zenon, <1>13 DEF setResult, Goto, OwnFrame, Own, FiberVarType, Agents, Callers, conn,
             timerVars, fibers, ctxVars
    <2> QED BY Zenon, <2>1, OwnKept
  <1>14. CASE setResponse
    BY Zenon, <1>14, OwnKept DEF setResponse, Goto, OwnFrame, Own, FiberVarType, FiberType, Agents,
           Callers, conn, timerVars, fibers, ctxVars
  <1>15. CASE readExit
    <2>1. OwnFrame
      BY Zenon, <1>15 DEF readExit, Goto, OwnFrame, Own, FiberVarType, Agents, Callers, conn,
             timerVars, fibers, ctxVars
    <2> QED BY Zenon, <2>1, OwnKept
  <1>16. CASE writeTop
    <2>1. OwnFrame
      BY Zenon, <1>16 DEF writeTop, Goto, OwnFrame, Own, FiberVarType, Agents, Callers, conn,
             timerVars, fibers, ctxVars
    <2> QED BY Zenon, <2>1, OwnKept
  <1>17. CASE writeWait
    <2>1. OwnFrame
      BY Zenon, <1>17 DEF writeWait, Goto, OwnFrame, Own, FiberVarType, Agents, Callers, conn,
             timerVars, fibers, ctxVars
    <2> QED BY Zenon, <2>1, OwnKept
  <1>18. CASE writeSend
    <2>1. OwnFrame
      BY <1>18 DEF writeSend, Close, Goto, OwnFrame, Own, FiberVarType, Agents, Callers, conn,
             timerVars, fibers, ctxVars
    <2> QED BY Zenon, <2>1, OwnKept
  <1>19. CASE writeExit
    <2>1. OwnFrame
      BY Zenon, <1>19 DEF writeExit, Goto, OwnFrame, Own, FiberVarType, Agents, Callers, conn,
             timerVars, fibers, ctxVars
    <2> QED BY Zenon, <2>1, OwnKept
  <1>20. CASE startAgain
    <2>1. OwnFrame
      BY Zenon, <1>20 DEF startAgain, Goto, OwnFrame, Own, FiberVarType, Agents, Callers, conn,
             timerVars, fibers, ctxVars
    <2> QED BY Zenon, <2>1, OwnKept
  <1>21. CASE waitFiber
    <2>1. OwnFrame
      BY Zenon, <1>21 DEF waitFiber, Goto, OwnFrame, Own, FiberVarType, Agents, Callers, conn,
             timerVars, fibers, ctxVars
    <2> QED BY Zenon, <2>1, OwnKept
  <1>22. CASE reconnect
    <2>1. OwnFrame
      BY <1>22 DEF reconnect, Close, Goto, OwnFrame, Own, FiberVarType, Agents, Callers, conn,
             timerVars, fibers, ctxVars
    <2> QED BY Zenon, <2>1, OwnKept
  <1>23. CASE connectCb
    <2>1. UNCHANGED <<m_ctxs, at>>
      BY Zenon, <1>23 DEF connectCb
    <2> QED BY Zenon, <1>23, <2>1, Connected, OwnKept DEF OwnFrame, Own, FiberType, Agents
  <1>24. CASE startFailed
    <2>1. OwnFrame
      BY Zenon, <1>24 DEF startFailed, Goto, OwnFrame, Own, FiberVarType, Agents, Callers, conn,
             timerVars, fibers, ctxVars
    <2> QED BY Zenon, <2>1, OwnKept
  <1>25. CASE close
    <2>1. OwnFrame
      BY Zenon, <1>25 DEF close, OwnFrame, Own, FiberVarType, Agents, Callers, conn, timerVars,
             fibers, ctxVars
    <2> QED BY Zenon, <2>1, OwnKept
  <1> QED BY Zenon, <1>1, <1>2, <1>3, <1>4, <1>5, <1>6, <1>7, <1>8, <1>9, <1>10, <1>11, <1>12, <1>13,
         <1>14, <1>15, <1>16, <1>17, <1>18, <1>19, <1>20, <1>21, <1>22, <1>23, <1>24, <1>25
         DEF Next, Caller, ReadOn, Write, Start, Common, innerClose, Agents

\* a step that changes no result and brings no fiber to doRsp()
ResultFrame ==
  /\ UNCHANGED <<timer, timed, woken, result, answer, response>>
  /\ pc["read"] = "got" => pc'["read"] = "got" /\ cur'["read"] = cur["read"]
  /\ \A a \in Agents : pc'[a] = "rsp" => pc[a] = "rsp" /\ cur'[a] = cur[a]

\* what such a step does to ResultInv
LEMMA ResultKept ==
  ASSUME ResultInv, ResultFrame
  PROVE  ResultInv'
  BY Zenon DEF ResultInv, ResultFrame, Arrived

\* results and responses
LEMMA ResultStep ==
  ASSUME ConnType, CtxType, FiberVarType, FiberType, SessionInv, OwnInv, ResultInv, Next
  PROVE  ResultInv'
  <1>1. ASSUME NEW c \in Callers, call(c) PROVE ResultInv'
    BY <1>1 DEF call, CtxType, FiberVarType, FiberType, ResultInv, Arrived, Agents, conn,
           timerVars, fibers, ctxVars
  <1>2. ASSUME NEW r \in Requests, addCtx(r) PROVE ResultInv'
    <2>1. ResultFrame
      BY Zenon, <1>2 DEF addCtx, ResultFrame, FiberVarType, Agents, conn, timerVars, fibers, ctxVars
    <2> QED BY Zenon, <2>1, ResultKept
  <1>3. ASSUME NEW r \in Requests, addTimer(r) PROVE ResultInv'
    BY <1>3 DEF addTimer, CtxType, FiberVarType, FiberType, ResultInv, Arrived, Agents, conn,
           timerVars, fibers, ctxVars
  <1>4. ASSUME NEW c \in Callers, enqueue(c) PROVE ResultInv'
    <2>1. ResultFrame
      BY Zenon, <1>4 DEF enqueue, Push, Queued, ResultFrame, FiberVarType, Agents, conn, timerVars,
             fibers, ctxVars
    <2> QED BY Zenon, <2>1, ResultKept
  <1>5. ASSUME NEW r \in Requests, resume(r) PROVE ResultInv'
    BY <1>5 DEF resume, CtxType, FiberVarType, FiberType, ResultInv, Arrived, Agents, conn,
           timerVars, fibers, ctxVars
  <1>6. ASSUME NEW r \in Requests, onTimeOut(r) PROVE ResultInv'
    BY <1>6 DEF onTimeOut, Finish, CtxType, FiberVarType, FiberType, ResultInv, Arrived,
           Agents, conn, timerVars, fibers, ctxVars
  <1>7. ASSUME NEW a \in Agents, takeAll(a) PROVE ResultInv'
    <2>1. ResultFrame
      BY Zenon, <1>7 DEF takeAll, Goto, ResultFrame, FiberVarType, Agents, conn, timerVars, fibers,
             ctxVars
    <2> QED BY Zenon, <2>1, ResultKept
  <1>8. ASSUME NEW a \in Agents, answerEach(a) PROVE ResultInv'
    BY <1>8 DEF answerEach, Goto, CtxType, FiberVarType, FiberType, ResultInv, Arrived,
           Agents, OwnInv, Own, conn, timerVars, fibers, ctxVars
  <1>9. ASSUME NEW a \in Agents, doRsp(a) PROVE ResultInv'
    BY <1>9 DEF doRsp, Finish, CancelTimer, Goto, CtxType, FiberVarType, FiberType, ResultInv,
           Arrived, Agents, conn, timerVars, fibers, ctxVars
  <1>10. CASE readTop
    <2>1. ResultFrame
      BY Zenon, <1>10 DEF readTop, Close, Goto, ResultFrame, FiberVarType, Agents, conn, timerVars,
             fibers, ctxVars
    <2> QED BY Zenon, <2>1, ResultKept
  <1>11. CASE recvFails
    <2>1. ResultFrame
      BY Zenon, <1>11 DEF recvFails, Close, Goto, ResultFrame, FiberVarType, Agents, conn, timerVars,
             fibers, ctxVars
    <2> QED BY Zenon, <2>1, ResultKept
  <1>12. ASSUME NEW r \in Requests, recv(r) PROVE ResultInv'
    <2>1. ResultFrame
      BY Zenon, <1>12 DEF recv, Goto, ResultFrame, FiberVarType, Agents, conn, timerVars, fibers,
             ctxVars
    <2> QED BY Zenon, <2>1, ResultKept
  <1>13. CASE setResult
    BY <1>13 DEF setResult, Goto, CtxType, FiberVarType, FiberType, ResultInv, Arrived,
           Agents, OwnInv, Own, conn, timerVars, fibers, ctxVars
  <1>14. CASE setResponse
    BY <1>14 DEF setResponse, Goto, CtxType, FiberVarType, FiberType, ResultInv, Arrived,
           Agents, conn, timerVars, fibers, ctxVars
  <1>15. CASE readExit
    <2>1. ResultFrame
      BY Zenon, <1>15 DEF readExit, Goto, ResultFrame, FiberVarType, Agents, conn, timerVars, fibers,
             ctxVars
    <2> QED BY Zenon, <2>1, ResultKept
  <1>16. CASE writeTop
    <2>1. ResultFrame
      BY Zenon, <1>16 DEF writeTop, Goto, ResultFrame, FiberVarType, Agents, conn, timerVars, fibers,
             ctxVars
    <2> QED BY Zenon, <2>1, ResultKept
  <1>17. CASE writeWait
    <2>1. ResultFrame
      BY Zenon, <1>17 DEF writeWait, Goto, ResultFrame, FiberVarType, Agents, conn, timerVars,
             fibers, ctxVars
    <2> QED BY Zenon, <2>1, ResultKept
  <1>18. CASE writeSend
    <2>1. ResultFrame
      BY Zenon, <1>18 DEF writeSend, Close, Goto, ResultFrame, FiberVarType, Agents, conn, timerVars,
             fibers, ctxVars
    <2> QED BY Zenon, <2>1, ResultKept
  <1>19. CASE writeExit
    <2>1. ResultFrame
      BY Zenon, <1>19 DEF writeExit, Goto, ResultFrame, FiberVarType, Agents, conn, timerVars,
             fibers, ctxVars
    <2> QED BY Zenon, <2>1, ResultKept
  <1>20. CASE startAgain
    <2>1. ResultFrame
      BY Zenon, <1>20 DEF startAgain, Goto, ResultFrame, FiberVarType, Agents, conn, timerVars,
             fibers, ctxVars
    <2> QED BY Zenon, <2>1, ResultKept
  <1>21. CASE waitFiber
    <2>1. ResultFrame
      BY Zenon, <1>21 DEF waitFiber, Goto, ResultFrame, FiberVarType, Agents, conn, timerVars,
             fibers, ctxVars
    <2> QED BY Zenon, <2>1, ResultKept
  <1>22. CASE reconnect
    <2>1. ResultFrame
      BY Zenon, <1>22 DEF reconnect, Close, Goto, ResultFrame, FiberVarType, Agents, conn, timerVars,
             fibers, ctxVars
    <2> QED BY Zenon, <2>1, ResultKept
  <1>23. CASE connectCb
    <2>1. UNCHANGED <<timer, timed, woken, result, answer, response>>
      BY Zenon, <1>23 DEF connectCb, ctxVars
    <2>2. ResultFrame
      BY Zenon, <1>23, <2>1, Connected DEF ResultFrame, Agents
    <2> QED BY Zenon, <2>2, ResultKept
  <1>24. CASE startFailed
    <2>1. ResultFrame
      BY Zenon, <1>24 DEF startFailed, Goto, ResultFrame, FiberVarType, Agents, conn, timerVars,
             fibers, ctxVars
    <2> QED BY Zenon, <2>1, ResultKept
  <1>25. CASE close
    <2>1. ResultFrame
      BY Zenon, <1>25 DEF close, ResultFrame, FiberVarType, Agents, conn, timerVars, fibers, ctxVars
    <2> QED BY Zenon, <2>1, ResultKept
  <1> QED BY Zenon, <1>1, <1>2, <1>3, <1>4, <1>5, <1>6, <1>7, <1>8, <1>9, <1>10, <1>11, <1>12, <1>13,
         <1>14, <1>15, <1>16, <1>17, <1>18, <1>19, <1>20, <1>21, <1>22, <1>23, <1>24, <1>25
         DEF Next, Caller, ReadOn, Write, Start, Common, innerClose, Agents

-----------------------------------------------------------------------------
(* The theorems                                                            *)

StreamInv ==
  /\ ConnType /\ FiberVarType /\ CtxType /\ FiberType
  /\ SessionInv /\ NothingStuck /\ AnswerInv /\ OwnInv /\ ResultInv

\* the state of a new stream whose start() was called
LEMMA InitInv == Init => StreamInv
  <1> SUFFICES ASSUME Init PROVE StreamInv
    OBVIOUS
  <1> USE DEF Init, Agents
  <1>1. ConnType /\ FiberVarType /\ CtxType
    BY Zenon DEF ConnType, FiberVarType, CtxType, ReadLabel, WriteLabel, StartLabel, Callers
  <1>2. FiberType
    BY Zenon DEF FiberType, ReadLabel, WriteLabel, StartLabel
  <1>3. SessionInv
    BY DEF SessionInv
  <1>4. NothingStuck /\ AnswerInv
    BY DEF NothingStuck, AnswerInv, Callers
  <1>5. OwnInv
    BY Zenon DEF OwnInv, Own
  <1>6. ResultInv
    BY DEF ResultInv, Arrived
  <1> QED BY Zenon, <1>1, <1>2, <1>3, <1>4, <1>5, <1>6 DEF StreamInv

\* StreamInv is an invariant of the stream, whatever the fibers, the callers,
\* the timers and the peer do
THEOREM StreamInvariant == Spec => []StreamInv
  <1>1. ASSUME StreamInv, Next PROVE StreamInv'
    BY Zenon, <1>1, ConnStep, FiberVarStep, CtxStep, FiberStep, SessionStep, QueueStep, AnswerStep,
       OwnStep, ResultStep DEF StreamInv
  <1>2. ASSUME StreamInv, UNCHANGED vars PROVE StreamInv'
    <2>1. /\ UNCHANGED <<m_isConnected, m_autoConnect, sent, m_timer, again, m_queue, m_sem, m_waitSem>>
          /\ UNCHANGED <<pc, local, cur, after, m_ctxs, at>>
          /\ UNCHANGED <<scheduler, timer, timed, result, response, woken, answer>>
      BY Zenon, <1>2 DEF vars, conn, timerVars, fibers, ctxVars
    <2>2. ConnType' /\ FiberVarType'
      BY Zenon, <1>2, <2>1 DEF StreamInv, ConnType, FiberVarType
    <2>3. CtxType' /\ NothingStuck'
      BY Zenon, <1>2, <2>1 DEF StreamInv, CtxType, NothingStuck
    <2>4. FiberType'
      BY Zenon, <1>2, <2>1 DEF StreamInv, FiberType
    <2>5. SessionInv'
      BY Zenon, <1>2, <2>1 DEF StreamInv, SessionInv
    <2>6. AnswerInv'
      BY Zenon, <1>2, <2>1 DEF StreamInv, AnswerInv
    <2>7. OwnFrame /\ ResultFrame
      BY Zenon, <2>1 DEF OwnFrame, Own, ResultFrame
    <2> QED BY Zenon, <1>2, <2>2, <2>3, <2>4, <2>5, <2>6, <2>7, OwnKept, ResultKept DEF StreamInv
  <1> QED BY <1>1, <1>2, InitInv, PTL DEF Spec

\* doRsp(): response, timeout and loss of the connection together schedule the
\* fiber of a request once at most
THEOREM RequestAnsweredOnce == Spec => []AnsweredOnce
  <1>1. StreamInv => AnsweredOnce
    BY Zenon DEF StreamInv, AnswerInv, AnsweredOnce
  <1> QED BY <1>1, StreamInvariant, PTL

\* request() returns OK only if the response was received
THEOREM OkIsFromThePeer == Spec => []OkMeansAnswered
  <1>1. StreamInv => OkMeansAnswered
    BY Zenon DEF StreamInv, ResultInv, Arrived, OkMeansAnswered
  <1> QED BY <1>1, StreamInvariant, PTL

\* enqueue() and doWrite(): what is in the send queue has a permit or a caller
\* about to give one, or the writer is about to drop it
THEOREM QueueIsFetched == Spec => []NothingStuck
  <1>1. StreamInv => NothingStuck
    BY Zenon DEF StreamInv
  <1> QED BY <1>1, StreamInvariant, PTL

\* start() and the two fibers: a connection ends before the next one begins
THEOREM OneConnection == Spec => []OneSession
  <1>1. StreamInv => OneSession
    BY DEF StreamInv, ConnType, FiberVarType, SessionInv, OneSession, Agents
  <1> QED BY <1>1, StreamInvariant, PTL

=============================================================================
