------------------------- MODULE NetworkPartsProofs -------------------------
(***************************************************************************)
(* Proofs about Hook.tla, for any number of fibers, calls and arrivals: a  *)
(* fiber that waits in a hooked call is woken once, only its own timer     *)
(* makes it time out, close() does not hit the next socket's FdCtx, and a  *)
(* connect that succeeds has found the socket connected.  And about        *)
(* NameServer.tla, for any streams, commands and handlers: the directory   *)
(* lists what is registered.                                               *)
(***************************************************************************)
EXTENDS NetworkParts, WellFoundedInduction, TLAPS

Labels == {"out", "try", "timer", "add", "hold", "woken"}

-----------------------------------------------------------------------------
(* Wake-ups                                                                *)

WakeInv ==
  /\ pc \in [Fibers -> Labels]
  /\ owner \in Fibers \cup {none}
  /\ scheduled \subseteq Fibers
  /\ WaiterHasWakeUp

\* who ends a registration passes its fiber on to the scheduler
LEMMA EndEventWakes ==
  ASSUME WakeInv, ~asserted, endEvent, pc' = pc
  PROVE  WakeInv'
  <1>1. CASE owner # none /\ watched
    <2>1. scheduled' = scheduled \cup {owner} /\ owner' = none
      BY Zenon, <1>1 DEF endEvent
    <2>2. owner \in Fibers /\ pc[owner] = "hold" /\ owner \notin scheduled
      BY Zenon, <1>1 DEF WakeInv, WaiterHasWakeUp
    <2>3. \A f \in Fibers : owner' # f
      BY Zenon, <2>1, HookAssumption
    <2>4. WaiterHasWakeUp'
      BY <2>1, <2>2, <2>3 DEF WakeInv, WaiterHasWakeUp
    <2> QED BY Zenon, <2>1, <2>2, <2>4 DEF WakeInv
  <1>2. CASE ~(owner # none /\ watched)
    BY Zenon, <1>2 DEF endEvent, WakeInv, WaiterHasWakeUp
  <1> QED BY Zenon, <1>1, <1>2

\* a fiber that stays out of the wait moves between its other labels
LEMMA MoveWakes ==
  ASSUME WakeInv, ~asserted, NEW f \in Fibers, NEW label \in Labels \ {"hold"},
         pc[f] # "hold", Goto(f, label), UNCHANGED waiting
  PROVE  WakeInv'
  BY Zenon DEF WakeInv, WaiterHasWakeUp, Goto, waiting

\* each step keeps every waiting fiber registered or scheduled
LEMMA WakeStep == WakeInv /\ [Next]_vars => WakeInv'
  <1> SUFFICES ASSUME WakeInv, [Next]_vars PROVE WakeInv'
    OBVIOUS
  <1>1. CASE UNCHANGED vars
    BY Zenon, <1>1 DEF vars, waiting, fiber, others, WakeInv, WaiterHasWakeUp
  <1> SUFFICES ASSUME ~asserted, Next PROVE WakeInv'
    BY Zenon, <1>1 DEF Next
  <1>2. CASE triggerEvent \/ \E c \in 1..MaxCalls : cancelEvent(c)
    BY Zenon, <1>2, EndEventWakes DEF triggerEvent, cancelEvent, fiber
  <1>3. CASE arrive \/ (\E f \in Fibers : socket(f)) \/ \E c \in 1..MaxCalls : expire(c) \/ fire(c)
    <2>1. pc' = pc /\ UNCHANGED waiting
      BY Zenon, <1>3 DEF arrive, socket, expire, fire, fiber
    <2> QED BY Zenon, <2>1 DEF WakeInv, WaiterHasWakeUp, waiting
  <1>4. CASE close
    <2>1. CASE endEvent /\ pc' = pc
      BY Zenon, <2>1, EndEventWakes
    <2>2. CASE UNCHANGED waiting /\ pc' = pc
      BY Zenon, <2>2 DEF WakeInv, WaiterHasWakeUp, waiting
    <2> QED BY Zenon, <1>4, <2>1, <2>2 DEF close, fiber
  <1>5. ASSUME NEW f \in Fibers, NEW k \in {"io", "connect"}, NEW timed \in BOOLEAN,
               enter(f, k, timed)
        PROVE  WakeInv'
    <2>1. pc[f] = "out" /\ UNCHANGED waiting /\ (Goto(f, "try") \/ Goto(f, "out"))
      BY Zenon, <1>5 DEF enter, Return
    <2> QED BY Zenon, <2>1, MoveWakes DEF Labels
  <1>6. ASSUME NEW f \in Fibers, try(f) \/ addConditionTimer(f) \/ woken(f)
        PROVE  WakeInv'
    <2>1. pc[f] # "hold" /\ UNCHANGED waiting
      BY Zenon, <1>6 DEF try, addConditionTimer, woken
    <2>2. Goto(f, "out") \/ Goto(f, "try") \/ Goto(f, "timer") \/ Goto(f, "add")
      <3>1. CASE try(f)
        BY Zenon, <3>1 DEF try, Return
      <3>2. CASE addConditionTimer(f)
        BY Zenon, <3>2 DEF addConditionTimer
      <3>3. CASE woken(f)
        BY Zenon, <3>3 DEF woken, Return
      <3> QED BY Zenon, <1>6, <3>1, <3>2, <3>3
    <2> QED BY Zenon, <2>1, <2>2, MoveWakes DEF Labels
  <1>7. ASSUME NEW f \in Fibers, addEvent(f) PROVE WakeInv'
    <2>1. pc[f] = "add" /\ scheduled' = scheduled /\ asserted' = (owner # none)
      BY Zenon, <1>7 DEF addEvent
    <2>2. CASE Goto(f, "out") /\ owner' = owner
      BY Zenon, <2>1, <2>2, MoveWakes DEF Labels, waiting
    <2>3. CASE Goto(f, "hold") /\ owner' = f
      <3>1. pc' \in [Fibers -> Labels]
        BY Zenon, <2>3 DEF Goto, WakeInv, Labels
      <3>2. ASSUME owner = none PROVE WaiterHasWakeUp'
        <4>1. \A g \in Fibers : owner # g
          BY Zenon, <3>2, HookAssumption
        <4> QED BY Zenon, <2>1, <2>3, <4>1 DEF Goto, WakeInv, WaiterHasWakeUp
      <3>3. owner # none => asserted'
        BY Zenon, <2>1
      <3>4. WaiterHasWakeUp'
        BY Zenon, <3>2, <3>3 DEF WaiterHasWakeUp
      <3> QED BY Zenon, <2>1, <2>3, <3>1, <3>4 DEF WakeInv
    <2> QED BY Zenon, <1>7, <2>2, <2>3 DEF addEvent, Return
  <1>8. ASSUME NEW f \in Fibers, resume(f) PROVE WakeInv'
    <2>1. /\ pc[f] = "hold" /\ f \in scheduled /\ scheduled' = scheduled \ {f}
          /\ pc' = [pc EXCEPT ![f] = "woken"] /\ owner' = owner
      BY Zenon, <1>8 DEF resume, Goto
    <2> QED BY <2>1 DEF WakeInv, WaiterHasWakeUp, Labels
  <1> QED BY Zenon, <1>2, <1>3, <1>4, <1>5, <1>6, <1>7, <1>8 DEF Next, DoIo, TimerStep

\* nobody waits at first
LEMMA InitWake == Init => WakeInv
  <1> SUFFICES ASSUME Init PROVE WakeInv
    OBVIOUS
  <1>1. \A f \in Fibers : owner # f
    BY Zenon, HookAssumption DEF Init
  <1> QED BY Zenon, <1>1 DEF Init, WakeInv, WaiterHasWakeUp, Labels

(* Event, timeout and close() together wake a fiber that waits in a hooked
   call exactly once, for any number of fibers and calls, until an assertion
   of addEvent fails: whoever ends the registration also schedules it.      *)
THEOREM WokenOnce == Spec => []WaiterHasWakeUp
  <1>1. WakeInv => WaiterHasWakeUp
    BY Zenon DEF WakeInv
  <1> QED BY InitWake, <1>1, WakeStep, PTL DEF Spec

-----------------------------------------------------------------------------
(* Timeouts                                                                *)

\* calls have numbers of their own, timers belong to calls with a timeout
TimeInv ==
  /\ pc \in [Fibers -> Labels] /\ call \in [Fibers -> Nat] /\ calls \in Nat
  /\ to \in [Fibers -> BOOLEAN] /\ cancelled \in [Fibers -> BOOLEAN]
  /\ armed \subseteq 1..calls /\ listed \subseteq 1..calls /\ listed \subseteq late
  /\ \A f \in Fibers : /\ call[f] <= calls
                       /\ pc[f] # "out" => call[f] # 0
                       /\ pc[f] = "timer" => to[f]
                       /\ call[f] \in armed \cup listed => to[f]
  /\ \A f, g \in Fibers : call[f] = call[g] /\ call[f] # 0 => f = g
  /\ TimeoutIsOwn

\* a step that ends timers, and moves fibers that are in a call
LEMMA MoveTimes ==
  ASSUME TimeInv, NEW f \in Fibers, NEW label \in Labels, Goto(f, label), pc[f] # "out",
         label = "timer" => to[f], armed' \subseteq armed,
         UNCHANGED <<listed, late, to, cancelled, call, calls>>
  PROVE  TimeInv'
  <1>1. pc' \in [Fibers -> Labels] /\ \A g \in Fibers : pc'[g] = IF g = f THEN label ELSE pc[g]
    BY Zenon DEF Goto, TimeInv
  <1>2. \A g \in Fibers : /\ pc'[g] # "out" => call'[g] # 0
                          /\ pc'[g] = "timer" => to'[g]
    BY Zenon, <1>1 DEF TimeInv
  <1> QED BY Zenon, <1>1, <1>2 DEF TimeInv, TimeoutIsOwn

\* each step keeps the timers with their calls
LEMMA TimeStep == TimeInv /\ [Next]_vars => TimeInv'
  <1> SUFFICES ASSUME TimeInv, [Next]_vars PROVE TimeInv'
    OBVIOUS
  <1>1. CASE \/ UNCHANGED vars \/ triggerEvent \/ arrive \/ close
             \/ (\E f \in Fibers : socket(f)) \/ \E c \in 1..MaxCalls : cancelEvent(c)
    <2>1. UNCHANGED <<pc, call, calls, to, cancelled, armed, listed, late>>
      BY Zenon, <1>1 DEF vars, fiber, timers, triggerEvent, arrive, close, socket, cancelEvent
    <2> QED BY Zenon, <2>1 DEF TimeInv, TimeoutIsOwn
  <1>2. ASSUME NEW f \in Fibers, NEW k \in {"io", "connect"}, NEW timed \in BOOLEAN,
               enter(f, k, timed)
        PROVE  TimeInv'
    <2>1. /\ calls' = calls + 1 /\ call' = [call EXCEPT ![f] = calls + 1]
          /\ to' = [to EXCEPT ![f] = timed] /\ cancelled' = [cancelled EXCEPT ![f] = FALSE]
          /\ UNCHANGED <<armed, listed, late>>
      BY Zenon, <1>2 DEF enter, timers
    <2>2. pc' = [pc EXCEPT ![f] = "try"] \/ pc' = [pc EXCEPT ![f] = "out"]
      BY Zenon, <1>2 DEF enter, Return, Goto
    <2>3. /\ pc' \in [Fibers -> Labels] /\ pc'[f] # "timer"
          /\ \A g \in Fibers \ {f} : pc'[g] = pc[g]
      BY Zenon, <2>2 DEF TimeInv, Labels
    <2>4. /\ call'[f] = calls + 1 /\ calls + 1 \notin armed \cup listed
          /\ \A g \in Fibers \ {f} : call'[g] = call[g] /\ call'[g] # calls + 1
      BY <2>1 DEF TimeInv
    <2>5. \A g \in Fibers : /\ call'[g] <= calls'
                            /\ pc'[g] # "out" => call'[g] # 0
                            /\ pc'[g] = "timer" => to'[g]
                            /\ call'[g] \in armed' \cup listed' => to'[g]
      BY <2>1, <2>3, <2>4 DEF TimeInv
    <2>6. \A g, h \in Fibers : call'[g] = call'[h] /\ call'[g] # 0 => g = h
      BY <2>4 DEF TimeInv
    <2>7. TimeoutIsOwn'
      BY Zenon, <2>1 DEF TimeInv, TimeoutIsOwn
    <2>8. /\ call' \in [Fibers -> Nat] /\ calls' \in Nat
          /\ to' \in [Fibers -> BOOLEAN] /\ cancelled' \in [Fibers -> BOOLEAN]
          /\ armed' \subseteq 1..calls' /\ listed' \subseteq 1..calls' /\ listed' \subseteq late'
      BY <2>1 DEF TimeInv
    <2> QED BY Zenon, <2>3, <2>5, <2>6, <2>7, <2>8 DEF TimeInv
  <1>3. ASSUME NEW f \in Fibers, try(f) \/ addEvent(f) \/ resume(f) \/ woken(f)
        PROVE  TimeInv'
    <2>1. /\ pc[f] # "out" /\ armed' \subseteq armed
          /\ UNCHANGED <<listed, late, to, cancelled, call, calls>>
      <3>1. CASE try(f)
        BY Zenon, <3>1 DEF try, timers
      <3>2. CASE addEvent(f)
        BY Zenon, <3>2 DEF addEvent
      <3>3. CASE resume(f)
        BY Zenon, <3>3 DEF resume, timers
      <3>4. CASE woken(f)
        BY Zenon, <3>4 DEF woken
      <3> QED BY Zenon, <1>3, <3>1, <3>2, <3>3, <3>4
    <2>2. \E label \in Labels : Goto(f, label) /\ (label = "timer" => to[f])
      <3>1. CASE try(f)
        BY Zenon, <3>1 DEF try, Return, Labels
      <3>2. CASE addEvent(f)
        BY Zenon, <3>2 DEF addEvent, Return, Labels
      <3>3. CASE resume(f)
        BY Zenon, <3>3 DEF resume, Labels
      <3>4. CASE woken(f)
        BY Zenon, <3>4 DEF woken, Return, Labels
      <3> QED BY Zenon, <1>3, <3>1, <3>2, <3>3, <3>4
    <2> QED BY Zenon, <2>1, <2>2, MoveTimes
  <1>4. ASSUME NEW f \in Fibers, addConditionTimer(f) PROVE TimeInv'
    <2>1. /\ pc[f] = "timer" /\ armed' = armed \cup {call[f]}
          /\ pc' = [pc EXCEPT ![f] = "add"]
          /\ UNCHANGED <<listed, late, to, cancelled, call, calls>>
      BY Zenon, <1>4 DEF addConditionTimer, Goto
    <2>2. to[f] /\ call[f] \in 1..calls
      BY <2>1 DEF TimeInv
    <2>3. \A g \in Fibers : call[g] \in armed' \cup listed => to[g]
      BY Zenon, <2>1, <2>2 DEF TimeInv
    <2>4. pc' \in [Fibers -> Labels] /\ \A g \in Fibers : pc'[g] = "timer" => pc[g] = "timer"
      BY Zenon, <2>1 DEF TimeInv, Labels
    <2>5. \A g \in Fibers : pc'[g] # "out" => call[g] # 0
      BY Zenon, <2>1 DEF TimeInv
    <2> QED BY Zenon, <2>1, <2>2, <2>3, <2>4, <2>5 DEF TimeInv, TimeoutIsOwn
  <1>5. ASSUME NEW c \in 1..MaxCalls, expire(c) PROVE TimeInv'
    BY Zenon, <1>5 DEF expire, fiber, TimeInv, TimeoutIsOwn
  <1>6. ASSUME NEW c \in 1..MaxCalls, fire(c) PROVE TimeInv'
    <2>1. /\ c \in listed /\ listed' = listed \ {c}
          /\ UNCHANGED <<pc, call, calls, to, armed, late>>
      BY Zenon, <1>6 DEF fire
    <2>2. /\ cancelled' \in [Fibers -> BOOLEAN]
          /\ \A f \in Fibers : cancelled'[f] => cancelled[f] \/ call[f] = c
      BY Zenon, <1>6 DEF fire, TimeInv
    <2>3. TimeoutIsOwn'
      BY Zenon, <2>1, <2>2 DEF TimeInv, TimeoutIsOwn
    <2> QED BY Zenon, <2>1, <2>2, <2>3 DEF TimeInv
  <1> QED BY Zenon, <1>1, <1>2, <1>3, <1>4, <1>5, <1>6 DEF Next, DoIo, TimerStep

\* there is no call at first
LEMMA InitTime == Init => TimeInv
  BY DEF Init, TimeInv, TimeoutIsOwn, Labels

(* A hooked call fails with ETIMEDOUT only by its own timer, for any number
   of fibers and calls: the callback finds the timer_info of its call through
   winfo, or finds it gone.                                                 *)
THEOREM OwnTimeout == Spec => []TimeoutIsOwn
  <1>1. TimeInv => TimeoutIsOwn
    BY Zenon DEF TimeInv
  <1> QED BY InitTime, <1>1, TimeStep, PTL DEF Spec

-----------------------------------------------------------------------------
(* Descriptor numbers                                                      *)

\* close() in progress keeps the number from being given out
CloseInv == SocketHasCtx /\ (sock = "closed" => closing = "no")

(* A socket has its FdCtx until its own close(), for any number of fibers:
   close() takes the context away before it frees the number.               *)
THEOREM ContextKept == Spec => []SocketHasCtx
  <1>1. Init => CloseInv
    BY Zenon DEF Init, CloseInv, SocketHasCtx
  <1>2. CloseInv /\ [Next]_vars => CloseInv'
    <2> SUFFICES ASSUME CloseInv, [Next]_vars PROVE CloseInv'
      OBVIOUS
    <2>1. CASE close
      BY Zenon, <2>1 DEF close, kernel, CloseInv, SocketHasCtx
    <2>2. CASE \E f \in Fibers : socket(f)
      BY Zenon, <2>2 DEF socket, CloseInv, SocketHasCtx
    <2>3. CASE arrive \/ \E f \in Fibers : try(f)
      <3>1. /\ UNCHANGED <<ctx, closing>>
            /\ sock' = sock \/ (sock # "closed" /\ sock' # "closed")
        BY Zenon, <2>3 DEF arrive, try, others
      <3> QED BY Zenon, <3>1 DEF CloseInv, SocketHasCtx
    <2>4. CASE \/ UNCHANGED vars \/ triggerEvent \/ (\E c \in 1..MaxCalls : TimerStep(c))
               \/ \E f \in Fibers :
                    \/ \E k \in {"io", "connect"}, timed \in BOOLEAN : enter(f, k, timed)
                    \/ addConditionTimer(f) \/ addEvent(f) \/ resume(f) \/ woken(f)
      <3>1. UNCHANGED <<sock, ctx, closing>>
        BY Zenon, <2>4 DEF vars, kernel, others, triggerEvent, TimerStep, expire, fire, cancelEvent,
                    enter, addConditionTimer, addEvent, resume, woken
      <3> QED BY Zenon, <3>1 DEF CloseInv, SocketHasCtx
    <2> QED BY Zenon, <2>1, <2>2, <2>3, <2>4 DEF Next, DoIo
  <1>3. CloseInv => SocketHasCtx
    BY Zenon DEF CloseInv
  <1> QED BY <1>1, <1>2, <1>3, PTL DEF Spec

-----------------------------------------------------------------------------
(* connect()                                                               *)

Waiting == {"timer", "add", "hold", "woken"}

\* the first socket, until somebody closes it: its user's connect() is the
\* first call that waits, so while it is pending the timers are those of that
\* call, and whoever wakes it has marked it
FirstSocket ==
  /\ sock # "closed" /\ closing = "no"
  /\ \A f \in Fibers : pc[f] # "out" => f = user
  /\ sock \in {"fresh", "pending"} => ~ready
  /\ sock = "fresh" => /\ armed = {} /\ listed = {} /\ firing = {}
                       /\ \A f \in Fibers : pc[f] \in {"out", "try"}
  /\ sock = "pending" =>
       \A f \in Fibers : pc[f] \in Waiting =>
         /\ armed \cup listed \cup firing \subseteq {call[f]}
         /\ firing # {} => cancelled[f]
         /\ f \in scheduled \/ pc[f] = "woken" => cancelled[f]

ConnectInv ==
  /\ closes \in Nat /\ sock \in {"closed", "fresh", "pending", "linked", "failed"}
  /\ result \in [Fibers -> {"none", "ok", "error", "ETIMEDOUT"}]
  /\ \A f \in Fibers : pc[f] # "out" => result[f] = "none"
  /\ closes = 0 => FirstSocket

\* the results of the calls, on their own
LEMMA ConnectResults ==
  ASSUME ConnectInv, WakeInv, [Next]_vars
  PROVE  /\ closes' \in Nat
         /\ result' \in [Fibers -> {"none", "ok", "error", "ETIMEDOUT"}]
         /\ \A f \in Fibers : pc'[f] # "out" => result'[f] = "none"
  <1>1. CASE UNCHANGED <<pc, result>>
    <2>1. closes' = closes \/ closes' = closes + 1
      BY ZenonT(40) DEF Next, vars, others, arrive, triggerEvent, close, socket, DoIo, try,
           addConditionTimer, addEvent, resume, woken, TimerStep, expire, fire, cancelEvent, enter
    <2>2. closes' \in Nat
      BY <2>1 DEF ConnectInv
    <2> QED BY Zenon, <1>1, <2>2 DEF ConnectInv
  <1>2. ASSUME NEW f \in Fibers, closes' = closes,
               \/ \E label \in Labels : /\ Goto(f, label) /\ pc[f] # "out"
                                        /\ result' = result
               \/ \E label \in Labels : /\ Goto(f, label)
                                        /\ result' = [result EXCEPT ![f] = "none"]
               \/ \E v \in {"ok", "error", "ETIMEDOUT"} : Return(f, v)
        PROVE  /\ closes' \in Nat
               /\ result' \in [Fibers -> {"none", "ok", "error", "ETIMEDOUT"}]
               /\ \A g \in Fibers : pc'[g] # "out" => result'[g] = "none"
    BY ZenonT(40), <1>2 DEF Goto, Return, ConnectInv, WakeInv
  <1>3. ASSUME NEW f \in Fibers, NEW k \in {"io", "connect"}, NEW timed \in BOOLEAN,
               enter(f, k, timed)
        PROVE  /\ closes' \in Nat
               /\ result' \in [Fibers -> {"none", "ok", "error", "ETIMEDOUT"}]
               /\ \A g \in Fibers : pc'[g] # "out" => result'[g] = "none"
    <2>1. closes' = closes
      BY Zenon, <1>3 DEF enter, others
    <2>2. \/ Goto(f, "try") /\ result' = [result EXCEPT ![f] = "none"]
          \/ Return(f, "ok") \/ Return(f, "error")
      BY ZenonT(40), <1>3 DEF enter
    <2> QED BY ZenonT(40), <1>2, <2>1, <2>2 DEF Labels
  <1>4. ASSUME NEW f \in Fibers, DoIo(f)
        PROVE  /\ closes' \in Nat
               /\ result' \in [Fibers -> {"none", "ok", "error", "ETIMEDOUT"}]
               /\ \A g \in Fibers : pc'[g] # "out" => result'[g] = "none"
    <2>1. closes' = closes /\ pc[f] # "out"
      BY ZenonT(40), <1>4 DEF DoIo, try, addConditionTimer, addEvent, resume, woken, others
    <2>2. \/ \E label \in Labels : Goto(f, label) /\ result' = result
          \/ \E v \in {"ok", "error", "ETIMEDOUT"} : Return(f, v)
      <3>1. CASE try(f)
        BY ZenonT(40), <3>1 DEF try, Labels
      <3>2. CASE addConditionTimer(f) \/ resume(f)
        BY ZenonT(40), <3>2 DEF addConditionTimer, resume, Labels
      <3>3. CASE addEvent(f)
        BY ZenonT(40), <3>3 DEF addEvent, Labels
      <3>4. CASE woken(f)
        BY ZenonT(40), <3>4 DEF woken, Labels
      <3> QED BY Zenon, <1>4, <3>1, <3>2, <3>3, <3>4 DEF DoIo
    <2> QED BY ZenonT(40), <1>2, <2>1, <2>2
  <1>5. CASE \/ UNCHANGED vars \/ arrive \/ triggerEvent \/ close \/ (\E f \in Fibers : socket(f))
             \/ \E c \in 1..MaxCalls : TimerStep(c)
    <2>1. UNCHANGED <<pc, result>>
      BY ZenonT(40), <1>5 DEF vars, fiber, arrive, triggerEvent, close, socket, TimerStep,
           expire, fire, cancelEvent
    <2> QED BY Zenon, <1>1, <2>1
  <1> QED BY ZenonT(40), <1>3, <1>4, <1>5 DEF Next

\* nobody closes the socket: what the steps of its user do
LEMMA FirstSocketDoIo ==
  ASSUME ConnectInv, WakeInv, TimeInv, ~asserted, closes = 0, NEW f \in Fibers, DoIo(f)
  PROVE  FirstSocket'
  <1> USE DEF FirstSocket
  <1>1. /\ FirstSocket /\ pc[f] # "out" /\ f = user
        /\ \A g \in Fibers : g # f => pc[g] = "out"
        /\ UNCHANGED <<closing, user, call, cancelled, listed, firing>>
    BY ZenonT(40) DEF DoIo, try, addConditionTimer, addEvent, resume, woken, others, timers,
         ConnectInv
  <1>2. PICK label \in Labels :
          /\ pc' = [pc EXCEPT ![f] = label] /\ pc'[f] = label /\ f = user'
          /\ \A g \in Fibers : g # f => pc'[g] = "out"
    <2>1. \E label \in Labels : pc' = [pc EXCEPT ![f] = label]
      <3>1. CASE try(f)
        BY ZenonT(40), <3>1 DEF try, Return, Goto, Labels
      <3>2. CASE addConditionTimer(f) \/ resume(f)
        BY ZenonT(40), <3>2 DEF addConditionTimer, resume, Goto, Labels
      <3>3. CASE addEvent(f)
        BY ZenonT(40), <3>3 DEF addEvent, Return, Goto, Labels
      <3>4. CASE woken(f)
        BY ZenonT(40), <3>4 DEF woken, Return, Goto, Labels
      <3> QED BY Zenon, <3>1, <3>2, <3>3, <3>4 DEF DoIo
    <2> QED BY ZenonT(40), <1>1, <2>1 DEF WakeInv
  <1>3. \A g \in Fibers : pc'[g] # "out" => g = user'
    BY Zenon, <1>2
  <1>4. CASE try(f)
    <2>1. UNCHANGED <<armed, scheduled>> /\ f \notin scheduled
      BY ZenonT(40), <1>4 DEF try, timers, waiting, WakeInv, WaiterHasWakeUp
    <2>2. CASE sock' = sock /\ (ready' = ready \/ sock = "linked") /\ pc'[f] = "out"
      <3>1. \A g \in Fibers : pc'[g] \in {"out", "try"} /\ pc'[g] \notin Waiting
        BY ZenonT(40), <1>2, <2>2 DEF Waiting
      <3>2. sock' \in {"fresh", "pending"} => ~ready'
        BY ZenonT(40), <1>1, <2>2
      <3> QED BY ZenonT(40), <1>1, <1>3, <2>1, <2>2, <3>1, <3>2
    <2>3. CASE sock' = "linked"
      BY ZenonT(40), <1>1, <1>2, <1>3, <2>3
    <2>4. CASE sock = "fresh" /\ sock' = "pending" /\ ready' = ready /\ label \in {"timer", "add"}
      BY ZenonT(40), <1>1, <1>2, <1>3, <2>1, <2>4 DEF Waiting
    <2>5. \/ sock' = sock /\ (ready' = ready \/ sock = "linked") /\ pc' = [pc EXCEPT ![f] = "out"]
          \/ sock' = "linked"
          \/ /\ sock = "fresh" /\ sock' = "pending" /\ ready' = ready
             /\ pc' = [pc EXCEPT ![f] = "timer"] \/ pc' = [pc EXCEPT ![f] = "add"]
      BY ZenonT(40), <1>4 DEF try, Return, Goto
    <2>6. /\ pc' = [pc EXCEPT ![f] = "out"] => pc'[f] = "out"
          /\ pc' = [pc EXCEPT ![f] = "timer"] => label = "timer"
          /\ pc' = [pc EXCEPT ![f] = "add"] => label = "add"
      BY ZenonT(40), <1>2 DEF WakeInv
    <2> QED BY ZenonT(40), <2>2, <2>3, <2>4, <2>5, <2>6
  <1>5. CASE ~try(f)
    <2>1. pc[f] \in Waiting /\ UNCHANGED <<sock, ready>> /\ sock # "fresh"
      BY ZenonT(40), <1>1, <1>5 DEF DoIo, addConditionTimer, addEvent, resume, woken, kernel,
           Waiting
    <2>2. CASE sock # "pending"
      BY ZenonT(40), <1>1, <1>3, <2>1, <2>2
    <2>3. CASE sock = "pending"
      <3>1. armed' \cup listed' \cup firing' \subseteq {call'[f]}
        <4>1. armed' \subseteq armed \cup {call[f]}
          BY ZenonT(40), <1>5 DEF DoIo, addConditionTimer, addEvent, resume, woken, timers
        <4> QED BY ZenonT(40), <1>1, <2>1, <2>3, <4>1
      <3>2. firing' # {} => cancelled'[f]
        BY ZenonT(40), <1>1, <2>1, <2>3
      <3>3. f \in scheduled' => f \in scheduled
        BY ZenonT(40), <1>5 DEF DoIo, addConditionTimer, addEvent, resume, woken, waiting
      <3>4. label = "woken" => f \in scheduled
        <4>1. CASE addConditionTimer(f)
          BY ZenonT(40), <4>1, <1>2 DEF addConditionTimer, Goto, WakeInv
        <4>2. CASE addEvent(f)
          BY ZenonT(40), <4>2, <1>2 DEF addEvent, Return, Goto, WakeInv
        <4>3. CASE resume(f)
          BY ZenonT(40), <4>3 DEF resume
        <4>4. CASE woken(f)
          BY ZenonT(40), <4>4, <1>2 DEF woken, Return, Goto, WakeInv
        <4> QED BY Zenon, <1>5, <4>1, <4>2, <4>3, <4>4 DEF DoIo
      <3>5. f \in scheduled => cancelled[f]
        BY ZenonT(40), <1>1, <2>1, <2>3
      <3>6. f \in scheduled' \/ pc'[f] = "woken" => cancelled'[f]
        BY ZenonT(40), <1>1, <1>2, <3>3, <3>4, <3>5
      <3>7. \A g \in Fibers : pc'[g] \in Waiting => g = f
        BY ZenonT(40), <1>2 DEF Waiting
      <3>8. \A g \in Fibers : pc'[g] \in Waiting =>
              /\ armed' \cup listed' \cup firing' \subseteq {call'[g]}
              /\ firing' # {} => cancelled'[g]
              /\ g \in scheduled' \/ pc'[g] = "woken" => cancelled'[g]
        BY Zenon, <3>1, <3>2, <3>6, <3>7
      <3> QED BY ZenonT(40), <1>1, <1>3, <2>1, <2>3, <3>8
    <2> QED BY Zenon, <2>2, <2>3
  <1> QED BY Zenon, <1>4, <1>5

\* ... and what the others do
LEMMA FirstSocketRest ==
  ASSUME ConnectInv, WakeInv, TimeInv, ~asserted, closes = 0, closes' = 0,
         \/ arrive \/ triggerEvent \/ close
         \/ \E f \in Fibers : \/ \E k \in {"io", "connect"}, timed \in BOOLEAN : enter(f, k, timed)
                              \/ socket(f)
         \/ \E c \in 1..MaxCalls : TimerStep(c)
  PROVE  FirstSocket'
  <1> USE DEF FirstSocket
  <1>0. FirstSocket
    BY Zenon DEF ConnectInv
  <1>1. CASE arrive \/ triggerEvent
    <2>1. UNCHANGED <<pc, user, closing>>
      BY ZenonT(40), <1>1 DEF arrive, triggerEvent, fiber, others
    <2>2. sock' \notin {"closed", "fresh", "pending"}
      BY ZenonT(40), <1>0, <1>1 DEF arrive, triggerEvent
    <2> QED BY ZenonT(40), <1>0, <2>1, <2>2
  <1>2. CASE close
    <2>1. closes' = closes + 1 \/ closing # "no"
      BY ZenonT(40), <1>2 DEF close
    <2>2. closes' # closes + 1
      OBVIOUS
    <2> QED BY ZenonT(40), <1>0, <2>1, <2>2
  <1>3. ASSUME NEW f \in Fibers, socket(f) PROVE FirstSocket'
    BY ZenonT(40), <1>0, <1>3 DEF socket
  <1>4. ASSUME NEW f \in Fibers, NEW k \in {"io", "connect"}, NEW timed \in BOOLEAN,
               enter(f, k, timed)
        PROVE  FirstSocket'
    <2>1. user = f /\ UNCHANGED <<sock, ready, closing, user, armed, listed, firing>>
      BY ZenonT(40), <1>4 DEF enter, kernel, others, timers
    <2>2. pc' = [pc EXCEPT ![f] = "try"] \/ pc' = [pc EXCEPT ![f] = "out"]
      BY ZenonT(40), <1>4 DEF enter, Return, Goto
    <2>3. pc'[f] \in {"out", "try"} /\ \A g \in Fibers : g # f => pc'[g] = pc[g]
      BY ZenonT(40), <2>2 DEF WakeInv
    <2>4. \A g \in Fibers : pc'[g] \in {"out", "try"} /\ pc'[g] \notin Waiting
      BY ZenonT(40), <1>0, <2>1, <2>3 DEF Waiting
    <2> QED BY ZenonT(40), <1>0, <2>1, <2>3, <2>4
  <1>5. ASSUME NEW c \in 1..MaxCalls, TimerStep(c) PROVE FirstSocket'
    <2>1. /\ UNCHANGED <<sock, ready, closing, user, pc, call>>
          /\ sock # "fresh" /\ armed \cup listed \cup firing # {}
      BY ZenonT(40), <1>0, <1>5 DEF TimerStep, expire, fire, cancelEvent, kernel, others, fiber
    <2>2. CASE sock # "pending"
      BY ZenonT(40), <1>0, <2>1, <2>2
    <2>3. ASSUME sock = "pending", NEW f \in Fibers, pc[f] \in Waiting
          PROVE  /\ armed' \cup listed' \cup firing' \subseteq {call[f]}
                 /\ firing' # {} => cancelled'[f]
                 /\ f \in scheduled' \/ pc[f] = "woken" => cancelled'[f]
      <3>1. /\ armed \cup listed \cup firing \subseteq {call[f]}
            /\ firing # {} => cancelled[f]
            /\ f \in scheduled \/ pc[f] = "woken" => cancelled[f]
        BY Zenon, <1>0, <2>3
      <3>2. CASE expire(c)
        BY ZenonT(40), <3>1, <3>2 DEF expire, fiber, waiting
      <3>3. CASE fire(c)
        <4>1. /\ c \in listed /\ listed' = listed \ {c} /\ firing' \subseteq firing \cup {c}
              /\ UNCHANGED <<armed, scheduled>>
          BY ZenonT(40), <3>3 DEF fire, waiting
        <4>2. call[f] = c /\ pc[f] # "out"
          BY ZenonT(40), <2>3, <3>1, <4>1 DEF Waiting
        <4>3. cancelled'[f]
          BY ZenonT(40), <3>3, <4>2 DEF fire
        <4> QED BY ZenonT(40), <3>1, <4>1, <4>3
      <3>4. CASE cancelEvent(c)
        <4>1. /\ c \in firing /\ firing' = firing \ {c} /\ UNCHANGED <<armed, listed, cancelled>>
          BY ZenonT(40), <3>4 DEF cancelEvent, fiber
        <4> QED BY ZenonT(40), <3>1, <4>1
      <3> QED BY Zenon, <1>5, <3>2, <3>3, <3>4 DEF TimerStep
    <2> QED BY ZenonT(40), <1>0, <2>1, <2>2, <2>3
  <1> QED BY ZenonT(40), <1>1, <1>2, <1>3, <1>4, <1>5

\* ConnectInv is inductive, with the other two
LEMMA ConnectStep == ConnectInv /\ WakeInv /\ TimeInv /\ [Next]_vars => ConnectInv'
  <1> SUFFICES ASSUME ConnectInv, WakeInv, TimeInv, [Next]_vars PROVE ConnectInv'
    OBVIOUS
  <1>1. closes' = 0 => FirstSocket'
    <2> SUFFICES ASSUME closes' = 0 PROVE FirstSocket'
      OBVIOUS
    <2>1. CASE UNCHANGED vars
      BY ZenonT(40), <2>1 DEF vars, kernel, waiting, timers, fiber, others, ConnectInv, FirstSocket
    <2>2. CASE Next
      <3>1. closes' = closes \/ closes' = closes + 1
        BY ZenonT(40), <2>2 DEF Next, others, arrive, triggerEvent, close, socket, DoIo, try,
             addConditionTimer, addEvent, resume, woken, TimerStep, expire, fire, cancelEvent, enter
      <3>2. closes = 0
        BY <3>1 DEF ConnectInv
      <3> QED BY ZenonT(40), <2>2, <3>2, FirstSocketDoIo, FirstSocketRest DEF Next
    <2> QED BY Zenon, <2>1, <2>2
  <1>2. sock' \in {"closed", "fresh", "pending", "linked", "failed"}
    <2>1. sock' = sock \/ sock' \in {"closed", "fresh", "pending", "linked", "failed"}
      <3>1. CASE \E f \in Fibers : try(f)
        BY ZenonT(40), <3>1 DEF try
      <3>2. CASE UNCHANGED vars \/ ~\E f \in Fibers : try(f)
        BY ZenonT(40), <3>2 DEF Next, vars, kernel, arrive, triggerEvent, close, socket, DoIo,
             addConditionTimer, addEvent, resume, woken, TimerStep, expire, fire, cancelEvent, enter
      <3> QED BY Zenon, <3>1, <3>2
    <2> QED BY Zenon, <2>1 DEF ConnectInv
  <1> QED BY Zenon, <1>1, <1>2, ConnectResults DEF ConnectInv

\* connect() returns 0 from a wait only when it is told so by the socket
LEMMA ConnectReturns ==
  ASSUME ConnectInv, WakeInv, TimeInv, Next, NEW f \in Fibers,
         kind[f] = "connect", pc[f] = "woken", result'[f] = "ok"
  PROVE  sock = "linked" \/ closes > 0
  <1>1. woken(f)
    <2>1. result[f] = "none"
      BY Zenon DEF ConnectInv
    <2>2. ASSUME NEW g \in Fibers, DoIo(g), ~woken(f) PROVE result'[f] = result[f]
      <3>1. CASE g # f
        <4>1. result' = result \/ \E v \in {"ok", "error", "ETIMEDOUT"} : Return(g, v)
          <5>1. CASE try(g)
            BY ZenonT(40), <5>1 DEF try
          <5>2. CASE addConditionTimer(g) \/ resume(g)
            BY ZenonT(40), <5>2 DEF addConditionTimer, resume
          <5>3. CASE addEvent(g)
            BY ZenonT(40), <5>3 DEF addEvent
          <5>4. CASE woken(g)
            BY ZenonT(40), <5>4 DEF woken
          <5> QED BY Zenon, <2>2, <5>1, <5>2, <5>3, <5>4 DEF DoIo
        <4> QED BY ZenonT(40), <3>1, <4>1 DEF Return, ConnectInv
      <3>2. CASE g = f
        BY ZenonT(40), <2>2, <3>2 DEF DoIo, try, addConditionTimer, addEvent, resume
      <3> QED BY Zenon, <3>1, <3>2
    <2>3. ASSUME NEW g \in Fibers, NEW k \in {"io", "connect"}, NEW timed \in BOOLEAN,
                 enter(g, k, timed)
          PROVE  result'[f] = result[f]
      <3>1. g # f /\ \E v : result' = [result EXCEPT ![g] = v]
        BY ZenonT(40), <2>3 DEF enter, Return
      <3> QED BY ZenonT(40), <3>1 DEF ConnectInv
    <2>4. CASE \/ arrive \/ triggerEvent \/ close \/ (\E g \in Fibers : socket(g))
               \/ \E c \in 1..MaxCalls : TimerStep(c)
      BY ZenonT(40), <2>1, <2>4 DEF arrive, triggerEvent, close, socket, TimerStep, expire, fire,
           cancelEvent, fiber
    <2> QED BY ZenonT(40), <2>1, <2>2, <2>3, <2>4 DEF Next
  <1>2. ~cancelled[f] /\ sock \notin {"closed", "failed"}
    <2>1. CASE cancelled[f]
      <3>1. result' = [result EXCEPT ![f] = "ETIMEDOUT"]
        BY ZenonT(40), <1>1, <2>1 DEF woken, Return
      <3> QED BY ZenonT(40), <3>1 DEF ConnectInv
    <2>2. CASE ~cancelled[f] /\ sock \in {"closed", "failed"}
      <3>1. result' = [result EXCEPT ![f] = "error"]
        BY ZenonT(40), <1>1, <2>2 DEF woken, Return
      <3> QED BY ZenonT(40), <3>1 DEF ConnectInv
    <2> QED BY ZenonT(40), <2>1, <2>2
  <1>3. CASE closes = 0
    <2>1. sock \notin {"fresh", "pending"}
      BY ZenonT(40), <1>2, <1>3 DEF ConnectInv, FirstSocket, Waiting
    <2> QED BY ZenonT(40), <1>2, <2>1 DEF ConnectInv
  <1>4. CASE closes # 0
    BY <1>4 DEF ConnectInv
  <1> QED BY Zenon, <1>3, <1>4

(* connect() on a socket that nobody closes returns 0 from its wait only with
   the connection established, for any number of fibers, calls and timers,
   although getsockopt(SO_ERROR) does not tell a pending connection.        *)
THEOREM ConnectIsConnected == Spec => ConnectMeansConnected
  <1>1. Init => ConnectInv /\ WakeInv /\ TimeInv
    <2>1. Init => WakeInv /\ TimeInv
      BY InitWake, InitTime
    <2>2. Init => ConnectInv
      BY DEF Init, ConnectInv, FirstSocket, Waiting
    <2> QED BY Zenon, <2>1, <2>2
  <1>2. ConnectInv /\ WakeInv /\ TimeInv /\ [Next]_vars =>
          [\A f \in Fibers :
             kind[f] = "connect" /\ pc[f] = "woken" /\ result'[f] = "ok" =>
               sock = "linked" \/ closes > 0]_vars
    BY ZenonT(40), ConnectReturns
  <1> QED BY <1>1, <1>2, ConnectStep, WakeStep, TimeStep, PTL DEF Spec, ConnectMeansConnected

-----------------------------------------------------------------------------
(* The directory of NameServer                                             *)

\* a null pointer is no object
LEMMA NullFacts ==
  /\ N!nullptr \notin N!Objects /\ N!nullptr = 0
  /\ Cmds \subseteq N!Objects /\ Cmds \subseteq Nat /\ N!Objects \subseteq Nat
  BY ServerAssumption DEF N!nullptr, N!Objects

\* a set is walked from one of its elements
LEMMA LeastIn ==
  ASSUME NEW S \in SUBSET Nat, S # {}
  PROVE  N!Least(S) \in S
  <1>1. PICK x \in S : \A y \in S : <<y, x>> \notin OpToRel(<, Nat)
    BY ZenonT(40), NatLessThanWellFounded, WFMin
  <1>2. \A y \in S : ~(y < x)
    BY <1>1 DEF OpToRel
  <1>3. \A y \in S : x <= y
    BY <1>2
  <1> QED BY Zenon, <1>3 DEF N!Least

\* what a step of another handler leaves to handler k
Same(k) ==
  /\ pcOfSet'[k] = pcOfSet[k] /\ stream'[k] = stream[k] /\ new_value'[k] = new_value[k]
  /\ dels'[k] = dels[k] /\ news'[k] = news[k] /\ comms'[k] = comms[k]
  /\ d'[k] = d[k] /\ ns'[k] = ns[k]

\* what DirectoryInv promises while no calls race
Orderly ==
  /\ N!TypeOK /\ N!SetInv /\ N!ListInv
  /\ \A h \in Handlers : N!WorkInv(h) /\ N!HandInv(h)
  /\ \A h \in Handlers : \A k \in Handlers \ {h} : N!PairInv(h, k)

\* another handler's commands are where they were
LEMMA SameWork ==
  ASSUME NEW k \in Handlers, Same(k), N!WorkInv(k)
  PROVE  N!WorkInv(k)' /\ (N!Working(k)' <=> N!Working(k))
  BY ZenonT(40) DEF Same, N!WorkInv, N!Working, N!Active

\* calls that keep out of each other's way go on doing so while one works
LEMMA PairWork ==
  ASSUME Orderly, NEW h \in Handlers, N!Working(h), stream'[h] = stream[h],
         \A k \in Handlers \ {h} : Same(k),
         dels'[h] \subseteq dels[h],
         news'[h] \cup comms'[h] \subseteq news[h] \cup comms[h],
         domain # N!nullptr => domain' = domain,
         \A c \in Cmds : N!Exists(c) => N!Exists(c)' \/ c \in dels[h]
  PROVE  \A i \in Handlers : \A k \in Handlers \ {i} : N!PairInv(i, k)'
  <1> SUFFICES ASSUME NEW i \in Handlers, NEW k \in Handlers \ {i}
               PROVE  N!PairInv(i, k)'
    OBVIOUS
  <1>1. /\ dels'[i] \subseteq dels[i] /\ news'[i] \cup comms'[i] \subseteq news[i] \cup comms[i]
        /\ dels'[k] \subseteq dels[k] /\ news'[k] \cup comms'[k] \subseteq news[k] \cup comms[k]
        /\ stream'[i] = stream[i] /\ stream'[k] = stream[k]
    BY ZenonT(40) DEF Same
  <1>2. (N!Working(i)' => N!Working(i)) /\ (N!Working(k)' => N!Working(k))
    BY ZenonT(40) DEF Same, N!Working, N!Active
  <1>3. N!PairInv(i, k) /\ news[i] \cup comms[i] \subseteq Cmds
    BY ZenonT(40) DEF Orderly, N!TypeOK, N!Label
  <1>4. \A c \in news[i] \cup comms[i] : c \notin dels[h] \/ c \notin news[k] \cup comms[k]
    <2>1. CASE i # h
      <3>1. N!PairInv(h, i)
        BY Zenon, <2>1 DEF Orderly
      <3> QED BY ZenonT(40), <3>1 DEF N!PairInv
    <2>2. CASE i = h
      <3>1. N!PairInv(h, k)
        BY Zenon, <2>2 DEF Orderly
      <3> QED BY ZenonT(40), <3>1 DEF N!PairInv
    <2> QED BY Zenon, <2>1, <2>2
  <1>5. \A c \in (news'[i] \cup comms'[i]) \cap (news'[k] \cup comms'[k]) : N!Exists(c)'
    <2> SUFFICES ASSUME NEW c \in (news'[i] \cup comms'[i]) \cap (news'[k] \cup comms'[k])
                 PROVE  N!Exists(c)'
      OBVIOUS
    <2>1. c \in news[i] \cup comms[i] /\ c \in news[k] \cup comms[k] /\ c \in Cmds
      BY ZenonT(40), <1>1, <1>3
    <2>2. N!Exists(c)
      BY ZenonT(40), <2>1, <1>3 DEF N!PairInv
    <2>3. c \notin dels[h]
      BY Zenon, <2>1, <1>4
    <2> QED BY Zenon, <2>1, <2>2, <2>3
  <1>6. dels'[i] \cap (dels'[k] \cup news'[k] \cup comms'[k]) = {}
    <2>1. dels[i] \cap (dels[k] \cup news[k] \cup comms[k]) = {}
      BY Zenon, <1>3 DEF N!PairInv
    <2> QED BY <2>1, <1>1
  <1>7. domain' = N!nullptr => news'[i] \cup comms'[i] = {} \/ news'[k] \cup comms'[k] = {}
    <2>1. domain = N!nullptr => news[i] \cup comms[i] = {} \/ news[k] \cup comms[k] = {}
      BY Zenon, <1>3 DEF N!PairInv
    <2> QED BY <2>1, <1>1
  <1>8. N!Working(i)' /\ N!Working(k)' => stream'[i] # stream'[k]
    BY Zenon, <1>1, <1>2, <1>3 DEF N!PairInv
  <1>9. N!nullptr' = N!nullptr
    BY Zenon DEF N!nullptr
  <1> QED BY ZenonT(40), <1>5, <1>6, <1>7, <1>8, <1>9 DEF N!PairInv

\* the streams nobody works on, and those of the other calls, are listed as before
LEMMA ListWork ==
  ASSUME Orderly, NEW h \in Handlers, N!Working(h), N!Working(h)',
         UNCHANGED <<stream, new_value, m_sessions>>,
         \A k \in Handlers \ {h} : Same(k),
         NEW s \in Streams, stream[h] = s,
         \A c \in Cmds, r \in Streams : r # s => N!Listed(c, r)' = N!Listed(c, r),
         \A c \in Cmds :
           \/ N!Listed(c, s)' = N!Listed(c, s) /\ (N!Brought(h, c)' <=> N!Brought(h, c))
           \/ N!Listed(c, s)' = N!Wanted(h, c) /\ N!Brought(h, c)'
  PROVE  N!ListInv'
  <1>1. \A c \in Cmds, r \in Streams : N!Registered(c, r)' = N!Registered(c, r)
    BY Zenon DEF N!Registered
  <1>2. \A k \in Handlers : N!Working(k)' <=> N!Working(k)
    BY Zenon DEF Same, N!Working, N!Active
  <1>3. ASSUME NEW r \in Streams, \A k \in Handlers : N!Working(k)' => stream'[k] # r, NEW c \in Cmds
        PROVE  N!Listed(c, r)' = N!Registered(c, r)'
    <2>1. \A k \in Handlers : N!Working(k) => stream[k] # r
      BY Zenon, <1>2, <1>3
    <2>2. r # s
      BY Zenon, <2>1
    <2>3. N!Listed(c, r) = N!Registered(c, r)
      BY Zenon, <2>1 DEF Orderly, N!ListInv
    <2> QED BY Zenon, <2>2, <2>3, <1>1
  <1>4. ASSUME NEW k \in Handlers, N!Working(k)', NEW c \in Cmds, NEW r, r = stream'[k]
        PROVE  N!Listed(c, r)' =
                 IF N!Brought(k, c)' THEN N!Wanted(k, c)' ELSE N!Registered(c, r)'
    <2>1. N!Working(k) /\ r = stream[k] /\ N!Wanted(k, c)' = N!Wanted(k, c)
      BY Zenon, <1>2, <1>4 DEF N!Wanted
    <2>2. r \in Streams
      BY Zenon, <2>1 DEF Orderly, N!WorkInv, N!Working
    <2>3. N!Listed(c, r) = IF N!Brought(k, c) THEN N!Wanted(k, c) ELSE N!Registered(c, r)
      BY Zenon, <2>1 DEF Orderly, N!ListInv
    <2>4. CASE k = h
      BY ZenonT(40), <2>1, <2>2, <2>3, <2>4, <1>1
    <2>5. CASE k # h
      <3>1. N!PairInv(h, k) /\ Same(k)
        BY Zenon, <2>5 DEF Orderly
      <3>2. r # s
        BY Zenon, <3>1, <2>1 DEF N!PairInv
      <3>3. N!Brought(k, c)' <=> N!Brought(k, c)
        BY ZenonT(40), <3>1 DEF Same, N!Brought
      <3> QED BY ZenonT(40), <3>2, <3>3, <2>1, <2>2, <2>3, <1>1
    <2> QED BY Zenon, <2>4, <2>5
  <1>5. \A k \in Handlers : N!Working(k)' => \A c \in Cmds : N!Listed(c, stream[k])' =
          IF N!Brought(k, c)' THEN N!Wanted(k, c)' ELSE N!Registered(c, stream[k])'
    BY ZenonT(40), <1>4
  <1> QED BY ZenonT(40), <1>3, <1>5 DEF N!ListInv

\* what a step of a call at work has to show
LEMMA WorkStep ==
  ASSUME Orderly, NEW h \in Handlers, N!Working(h), N!Working(h)',
         UNCHANGED <<stream, new_value, m_sessions>>,
         \A k \in Handlers \ {h} : Same(k),
         dels'[h] \subseteq dels[h],
         news'[h] \cup comms'[h] \subseteq news[h] \cup comms[h],
         domain # N!nullptr => domain' = domain,
         \A c \in Cmds : N!Exists(c) => N!Exists(c)' \/ c \in dels[h],
         N!TypeOK', N!SetInv', N!WorkInv(h)', \A k \in Handlers : N!HandInv(k)',
         NEW s \in Streams, stream[h] = s,
         \A c \in Cmds, r \in Streams : r # s => N!Listed(c, r)' = N!Listed(c, r),
         \A c \in Cmds :
           \/ N!Listed(c, s)' = N!Listed(c, s) /\ (N!Brought(h, c)' <=> N!Brought(h, c))
           \/ N!Listed(c, s)' = N!Wanted(h, c) /\ N!Brought(h, c)'
  PROVE  Orderly'
  <1>1. stream'[h] = stream[h]
    OBVIOUS
  <1>2. \A i \in Handlers : \A k \in Handlers \ {i} : N!PairInv(i, k)'
    BY ZenonT(40), <1>1, PairWork
  <1>3. N!ListInv'
    BY ZenonT(40), ListWork
  <1>4. \A k \in Handlers : N!WorkInv(k)'
    BY ZenonT(40), SameWork DEF Orderly
  <1> QED BY ZenonT(40), <1>2, <1>3, <1>4 DEF Orderly

\* a step that leaves the directory alone
LEMMA DirectorySame ==
  ASSUME Orderly, NEW h \in Handlers, UNCHANGED <<domain, m_datas, members>>,
         \A k \in Handlers \ {h} : Same(k),
         \A k \in Handlers \ {h} : pcOfSet[k] = "addSet" => ns'[h] # ns[k]
  PROVE  /\ N!SetInv' /\ \A k \in Handlers \ {h} : N!HandInv(k)'
         /\ \A c \in Cmds : N!Exists(c)' <=> N!Exists(c)
         /\ \A c \in Cmds, r \in Streams : N!Listed(c, r)' = N!Listed(c, r)
  <1>1. \A c \in Cmds : N!Exists(c)' <=> N!Exists(c)
    BY Zenon DEF N!Exists, N!nullptr
  <1>2. N!SetInv'
    BY Zenon, <1>1 DEF Orderly, N!SetInv, N!nullptr
  <1>3. \A c \in Cmds, r \in Streams : N!Listed(c, r)' = N!Listed(c, r)
    BY Zenon, <1>1 DEF N!Listed
  <1>4. ASSUME NEW k \in Handlers \ {h}
        PROVE  N!HandInv(k)'
    <2>1. N!HandInv(k) /\ Same(k)
      BY Zenon DEF Orderly
    <2>2. pcOfSet[k] = "addSet" => \A i \in Handlers \ {k} : ns'[i] # ns[k]
      BY ZenonT(40), <2>1 DEF N!HandInv, Same
    <2> QED BY ZenonT(60), <2>1, <2>2
            DEF Same, N!HandInv, N!nullptr, N!Deleting, N!Adding
  <1> QED BY Zenon, <1>1, <1>2, <1>3, <1>4

\* the command set() turns to is one of those it has left
LEMMA Leasts ==
  ASSUME N!TypeOK, NEW h \in Handlers
  PROVE  /\ dels[h] # {} => N!Least(dels[h]) \in dels[h] /\ N!Least(dels[h]) \in Cmds
         /\ news[h] # {} => N!Least(news[h]) \in news[h] /\ N!Least(news[h]) \in Cmds
  <1>1. dels[h] \in SUBSET Cmds /\ news[h] \in SUBSET Cmds
    BY Zenon DEF N!TypeOK, N!Label
  <1>2. dels[h] \in SUBSET Nat /\ news[h] \in SUBSET Nat
    BY ZenonT(40), <1>1, NullFacts
  <1> QED BY ZenonT(40), <1>1, <1>2, LeastIn

\* what is registered: a weight, and commands
LEMMA InfoFacts ==
  \A i \in Infos \cup {N!noInfo} : i.weight \in Nat /\ i.cmds \in SUBSET Cmds
  BY ServerAssumption DEF N!noInfo

\* the sets of the directory are objects
LEMMA DirectoryType ==
  ASSUME N!TypeOK, domain # N!nullptr
  PROVE  /\ domain \in N!Objects /\ m_datas[domain] \in [Cmds -> N!Objects \cup {N!nullptr}]
         /\ \A c \in Cmds : m_datas[domain][c] \in N!Objects \cup {N!nullptr}
  <1>1. domain \in N!Objects
    BY Zenon DEF N!TypeOK, N!Label
  <1>2. m_datas[domain] \in [Cmds -> N!Objects \cup {N!nullptr}]
    BY Zenon, <1>1 DEF N!TypeOK, N!Label
  <1> QED BY Zenon, <1>1, <1>2

LEMMA GetDomainStep ==
  ASSUME Orderly, NEW h \in Handlers, N!getDomain(h)
  PROVE  Orderly'
  <1>0. N!TypeOK /\ N!WorkInv(h) /\ N!HandInv(h) /\ pcOfSet[h] \in {"dels", "news", "comms"}
    BY Zenon DEF Orderly, N!getDomain
  <1>1. PICK s \in Streams : s = stream[h] /\ N!Working(h)
    BY Zenon, <1>0 DEF N!Working, N!Active, N!WorkInv
  <1>2. /\ UNCHANGED <<stream, new_value, m_sessions, domain, members, ns>>
        /\ news'[h] = (IF pcOfSet[h] = "comms" THEN comms[h] ELSE news[h])
        /\ comms'[h] = (IF pcOfSet[h] = "comms" THEN {} ELSE comms[h])
        /\ \A k \in Handlers \ {h} : Same(k)
    BY ZenonT(60), <1>0 DEF N!getDomain, N!Goto, N!request, N!TypeOK, N!Label, Same
  <1>3. /\ news' \in [Handlers -> SUBSET Cmds] /\ comms' \in [Handlers -> SUBSET Cmds]
    BY ZenonT(60), <1>0 DEF N!getDomain, N!TypeOK, N!Label
  <1>4. news'[h] \cup comms'[h] = news[h] \cup comms[h] /\ news'[h] \cap comms'[h] = {}
    BY <1>0, <1>2 DEF N!WorkInv
  <1>5. CASE domain # N!nullptr
    <2>1. /\ d' = [d EXCEPT ![h] = domain] /\ UNCHANGED <<m_datas, dels>>
          /\ pcOfSet' = [pcOfSet EXCEPT ![h] = IF pcOfSet[h] = "dels" THEN "del" ELSE "add"]
      BY Zenon, <1>5 DEF N!getDomain, N!Goto
    <2>2. /\ pcOfSet'[h] = (IF pcOfSet[h] = "dels" THEN "del" ELSE "add")
          /\ d'[h] = domain /\ d' \in [Handlers -> N!Objects \cup {N!nullptr}]
          /\ pcOfSet' \in [Handlers -> N!Label]
      BY ZenonT(60), <1>0, <2>1 DEF N!TypeOK, N!Label, N!Deleting, N!Adding
    <2>3. N!TypeOK'
      BY ZenonT(60), <1>0, <1>2, <1>3, <2>1, <2>2 DEF N!TypeOK, N!Label, N!Objects, N!nullptr, N!noInfo, N!Deleting, N!Adding
    <2>4. N!Working(h)'
      BY Zenon, <2>2 DEF N!Working, N!Active
    <2>5. N!WorkInv(h)'
      BY ZenonT(60), <1>0, <1>1, <1>2, <1>4, <2>1, <2>2 DEF N!WorkInv, N!Active, N!Deleting, N!Adding
    <2>6. N!HandInv(h)'
      BY ZenonT(60), <1>2, <1>5, <2>2 DEF N!HandInv, N!Deleting, N!Adding, N!nullptr
    <2>7. \A k \in Handlers \ {h} : pcOfSet[k] = "addSet" => ns'[h] # ns[k]
      BY ZenonT(40), <1>2 DEF Orderly, N!HandInv
    <2>8. /\ N!SetInv' /\ \A k \in Handlers \ {h} : N!HandInv(k)'
          /\ \A c \in Cmds : N!Exists(c)' <=> N!Exists(c)
          /\ \A c \in Cmds, r \in Streams : N!Listed(c, r)' = N!Listed(c, r)
      BY ZenonT(40), DirectorySame, <1>2, <2>1, <2>7
    <2>9. \A c \in Cmds : N!Brought(h, c)' <=> N!Brought(h, c)
      BY ZenonT(60), <1>0, <1>2, <1>4, <2>1, <2>2 DEF N!Brought
    <2> QED BY ZenonT(60), WorkStep, <1>1, <1>2, <1>4, <2>1, <2>3, <2>4, <2>5, <2>6, <2>8, <2>9
  <1>6. CASE domain = N!nullptr /\ pcOfSet[h] = "dels"
    <2>1. /\ dels' = [dels EXCEPT ![h] = {}] /\ UNCHANGED <<m_datas, d>>
          /\ pcOfSet' = [pcOfSet EXCEPT ![h] = N!Phase({}, news[h], comms[h])]
      BY Zenon, <1>6 DEF N!getDomain, N!Goto
    <2> DEFINE p == pcOfSet'[h]
    <2>2. p = N!Phase({}, news[h], comms[h]) /\ dels'[h] = {}
      BY Zenon, <1>0, <2>1 DEF N!TypeOK, N!Label
    <2>3. /\ p \in {"dels", "news", "comms", "store"} /\ p # "dels"
          /\ p = "news" => news[h] # {}
          /\ p = "comms" => news[h] = {} /\ comms[h] # {}
          /\ p = "store" => news[h] = {} /\ comms[h] = {}
      BY <2>2 DEF N!Phase
    <2>4. N!TypeOK'
      <3>1. /\ dels' \in [Handlers -> SUBSET Cmds]
            /\ pcOfSet' \in [Handlers -> N!Label]
        BY ZenonT(60), <1>0, <2>1, <2>2, <2>3 DEF N!TypeOK, N!Label
      <3> QED BY ZenonT(60), <1>0, <1>2, <1>3, <2>1, <3>1 DEF N!TypeOK, N!Label, N!Objects, N!nullptr, N!noInfo, N!Deleting, N!Adding
    <2>5. N!Working(h)'
      BY Zenon, <2>3 DEF N!Working, N!Active
    <2>6. N!WorkInv(h)'
      BY ZenonT(60), <1>0, <1>1, <1>2, <1>4, <1>6, <2>2, <2>3 DEF N!WorkInv, N!Active, N!Deleting, N!Adding
    <2>7. N!HandInv(h)'
      BY ZenonT(60), <2>3 DEF N!HandInv, N!Deleting, N!Adding
    <2>8. \A k \in Handlers \ {h} : pcOfSet[k] = "addSet" => ns'[h] # ns[k]
      BY ZenonT(40), <1>2 DEF Orderly, N!HandInv
    <2>9. /\ N!SetInv' /\ \A k \in Handlers \ {h} : N!HandInv(k)'
          /\ \A c \in Cmds : N!Exists(c)' <=> N!Exists(c)
          /\ \A c \in Cmds, r \in Streams : N!Listed(c, r)' = N!Listed(c, r)
      BY ZenonT(40), DirectorySame, <1>2, <2>1, <2>8
    <2>10. ASSUME NEW c \in Cmds
           PROVE  \/ N!Listed(c, s)' = N!Listed(c, s) /\ (N!Brought(h, c)' <=> N!Brought(h, c))
                  \/ N!Listed(c, s)' = N!Wanted(h, c) /\ N!Brought(h, c)'
      <3>0. N!Listed(c, s)' = N!Listed(c, s) /\ N!Listed(c, s) = 0
        BY Zenon, <1>6, <2>9 DEF N!Listed, N!Exists
      <3>1. CASE c \in dels[h]
        <4>1. c \notin new_value[h].cmds /\ c \notin news[h] \cup comms[h]
          BY ZenonT(40), <1>0, <3>1 DEF N!WorkInv
        <4>2. N!Wanted(h, c) = 0 /\ N!Brought(h, c)'
          BY ZenonT(40), <1>2, <1>4, <2>2, <4>1 DEF N!Wanted, N!Brought
        <4> QED BY Zenon, <3>0, <4>2
      <3>2. CASE c \notin dels[h]
        BY ZenonT(40), <1>2, <1>4, <2>2, <3>0, <3>2 DEF N!Brought
      <3> QED BY Zenon, <3>1, <3>2
    <2>11. dels'[h] \subseteq dels[h]
      BY Zenon, <2>2
    <2>12. \A k \in Handlers : N!HandInv(k)'
      BY Zenon, <2>7, <2>9
    <2> HIDE DEF p
    <2> QED BY ZenonT(60), WorkStep, <1>1, <1>2, <1>4, <2>4, <2>5, <2>6, <2>9, <2>10, <2>11, <2>12
  <1>7. CASE domain = N!nullptr /\ pcOfSet[h] # "dels"
    <2> DEFINE o == N!Least(N!FreeDomains)
    <2>1. /\ N!FreeDomains # {} /\ d' = [d EXCEPT ![h] = o] /\ UNCHANGED dels
          /\ m_datas' = [m_datas EXCEPT ![o] = [c \in Cmds |-> N!nullptr]]
          /\ pcOfSet' = [pcOfSet EXCEPT ![h] = "addDomain"]
      BY Zenon, <1>7 DEF N!getDomain, N!Goto
    <2>2. o \in N!Objects /\ o # N!nullptr
      <3>1. N!FreeDomains \in SUBSET Nat /\ N!FreeDomains \subseteq N!Objects
        BY ZenonT(40), NullFacts DEF N!FreeDomains
      <3> QED BY ZenonT(40), <3>1, <2>1, LeastIn, NullFacts
    <2> HIDE DEF o
    <2>3. /\ pcOfSet'[h] = "addDomain" /\ d'[h] = o
          /\ d' \in [Handlers -> N!Objects \cup {N!nullptr}]
          /\ pcOfSet' \in [Handlers -> N!Label]
      BY ZenonT(60), <1>0, <2>1, <2>2 DEF N!TypeOK, N!Label
    <2>4. /\ m_datas' \in [N!Objects -> [Cmds -> N!Objects \cup {N!nullptr}]]
          /\ \A c \in Cmds : m_datas'[o][c] = N!nullptr
      BY ZenonT(60), <1>0, <2>1, <2>2 DEF N!TypeOK, N!Label
    <2>5. N!TypeOK'
      BY ZenonT(60), <1>0, <1>2, <1>3, <2>1, <2>3, <2>4 DEF N!TypeOK, N!Label, N!Objects, N!nullptr, N!noInfo, N!Deleting, N!Adding
    <2>6. N!Working(h)'
      BY Zenon, <2>3 DEF N!Working, N!Active
    <2>7. dels[h] = {} /\ news[h] \cup comms[h] # {} /\ news'[h] # {}
      BY ZenonT(60), <1>0, <1>2, <1>7 DEF N!WorkInv
    <2>8. N!WorkInv(h)'
      BY ZenonT(60), <1>0, <1>1, <1>2, <1>4, <2>1, <2>3, <2>7 DEF N!WorkInv, N!Active, N!Deleting, N!Adding
    <2>9. N!HandInv(h)'
      BY ZenonT(60), <1>2, <1>7, <2>2, <2>3, <2>4 DEF N!HandInv, N!Deleting, N!Adding, N!nullptr
    <2>10. ASSUME NEW k \in Handlers \ {h}
           PROVE  N!HandInv(k)'
      <3>1. N!PairInv(h, k) /\ N!HandInv(k) /\ N!WorkInv(k) /\ Same(k)
        BY Zenon, <1>2 DEF Orderly
      <3>2. news[k] = {} /\ pcOfSet[k] \notin N!Deleting \cup N!Adding
        BY ZenonT(40), <3>1, <2>7, <1>7 DEF N!PairInv, N!HandInv
      <3>3. pcOfSet[k] # "addDomain"
        BY ZenonT(40), <3>1, <3>2 DEF N!WorkInv
      <3> QED BY ZenonT(40), <3>1, <3>2, <3>3 DEF N!HandInv, Same, N!Deleting, N!Adding
    <2>11. \A c \in Cmds : ~N!Exists(c) /\ ~N!Exists(c)'
      BY Zenon, <1>2, <1>7 DEF N!Exists, N!nullptr
    <2>12. \A c \in Cmds, r \in Streams : N!Listed(c, r)' = N!Listed(c, r)
      BY Zenon, <2>11 DEF N!Listed
    <2>13. N!SetInv'
      BY Zenon, <1>2, <1>7 DEF N!SetInv, N!nullptr
    <2>14. \A c \in Cmds : N!Brought(h, c)' <=> N!Brought(h, c)
      BY ZenonT(60), <1>0, <1>2, <1>4, <2>1, <2>3 DEF N!Brought
    <2>15. \A k \in Handlers : N!HandInv(k)'
      BY Zenon, <2>9, <2>10
    <2> QED BY ZenonT(60), WorkStep, <1>1, <1>2, <1>4, <2>1, <2>5, <2>6, <2>8, <2>11, <2>12, <2>13, <2>14, <2>15
  <1> QED BY Zenon, <1>5, <1>6, <1>7

LEMMA AddDomainStep ==
  ASSUME Orderly, NEW h \in Handlers, N!addDomain(h)
  PROVE  Orderly'
  <1>0. N!TypeOK /\ N!WorkInv(h) /\ N!HandInv(h) /\ pcOfSet[h] = "addDomain"
    BY Zenon DEF Orderly, N!addDomain
  <1>1. PICK s \in Streams : s = stream[h] /\ N!Working(h)
    BY Zenon, <1>0 DEF N!Working, N!Active, N!WorkInv
  <1>2. /\ UNCHANGED <<stream, new_value, m_sessions, members, m_datas, dels, news, comms, d, ns>>
        /\ domain' = d[h] /\ pcOfSet' = [pcOfSet EXCEPT ![h] = "add"]
    BY ZenonT(40) DEF N!addDomain, N!Goto, N!request, N!work
  <1>3. /\ pcOfSet'[h] = "add" /\ \A k \in Handlers \ {h} : Same(k)
        /\ pcOfSet' \in [Handlers -> N!Label]
    BY ZenonT(40), <1>0, <1>2 DEF N!TypeOK, N!Label, Same, N!Adding
  <1>4. /\ domain = N!nullptr /\ d[h] # N!nullptr /\ d[h] \in N!Objects
        /\ \A c \in Cmds : m_datas[d[h]][c] = N!nullptr
    BY ZenonT(40), <1>0 DEF N!HandInv, N!TypeOK, N!Label
  <1>5. N!TypeOK'
    BY ZenonT(60), <1>0, <1>2, <1>3, <1>4 DEF N!TypeOK, N!Label, N!Objects, N!nullptr, N!noInfo, N!Deleting, N!Adding
  <1>6. N!Working(h)'
    BY Zenon, <1>3 DEF N!Working, N!Active
  <1>7. N!WorkInv(h)'
    BY ZenonT(60), <1>0, <1>1, <1>2, <1>3 DEF N!WorkInv, N!Active, N!Deleting, N!Adding
  <1>8. N!HandInv(h)'
    BY ZenonT(60), <1>2, <1>3, <1>4 DEF N!HandInv, N!Deleting, N!Adding, N!nullptr
  <1>9. ASSUME NEW k \in Handlers \ {h}
        PROVE  N!HandInv(k)'
    <2>1. N!PairInv(h, k) /\ N!HandInv(k) /\ N!WorkInv(k) /\ Same(k)
      BY Zenon, <1>3 DEF Orderly
    <2>2. news[h] # {}
      BY Zenon, <1>0 DEF N!WorkInv
    <2>3. news[k] = {} /\ pcOfSet[k] \notin N!Deleting \cup N!Adding
      BY ZenonT(40), <2>1, <2>2, <1>4 DEF N!PairInv, N!HandInv
    <2>4. pcOfSet[k] # "addDomain"
      BY ZenonT(40), <2>1, <2>3 DEF N!WorkInv
    <2> QED BY ZenonT(40), <2>1, <2>3, <2>4 DEF N!HandInv, Same, N!Deleting, N!Adding
  <1>10. \A c \in Cmds : ~N!Exists(c) /\ ~N!Exists(c)'
    BY Zenon, <1>2, <1>4 DEF N!Exists, N!nullptr
  <1>11. \A c \in Cmds, r \in Streams : N!Listed(c, r)' = N!Listed(c, r)
    BY Zenon, <1>10 DEF N!Listed
  <1>12. N!SetInv'
    BY Zenon, <1>10 DEF N!SetInv
  <1>13. \A c \in Cmds : N!Brought(h, c)' <=> N!Brought(h, c)
    BY ZenonT(60), <1>0, <1>2, <1>3 DEF N!Brought
  <1>14. \A k \in Handlers : N!HandInv(k)'
    BY Zenon, <1>8, <1>9
  <1>15. dels'[h] \subseteq dels[h] /\ news'[h] \cup comms'[h] \subseteq news[h] \cup comms[h]
    BY Zenon, <1>2
  <1> QED BY ZenonT(60), WorkStep, <1>1, <1>2, <1>3, <1>4, <1>5, <1>6, <1>7, <1>10, <1>11, <1>12, <1>13, <1>14, <1>15

\* a command is done with: what is left of the call
LEMMA NextDelFacts ==
  ASSUME Orderly, NEW h \in Handlers, pcOfSet[h] \in N!Deleting, NEW c, c = N!Least(dels[h]),
         N!NextDel(h, c), UNCHANGED <<domain, stream, new_value, news, comms, d>>
  PROVE  /\ N!Working(h)' /\ N!WorkInv(h)' /\ N!HandInv(h)'
         /\ \A k \in Handlers \ {h} : Same(k)
         /\ \A k \in Handlers \ {h} : pcOfSet[k] = "addSet" => ns'[h] # ns[k]
         /\ dels'[h] = dels[h] \ {c} /\ c \in dels[h] /\ c \in Cmds
         /\ dels' \in [Handlers -> SUBSET Cmds] /\ ns' \in [Handlers -> N!Objects \cup {N!nullptr}]
         /\ pcOfSet' \in [Handlers -> N!Label]
         /\ N!Wanted(h, c) = 0 /\ N!Brought(h, c)'
         /\ \A e \in Cmds \ {c} : N!Brought(h, e)' <=> N!Brought(h, e)
  <1>0. N!TypeOK /\ N!WorkInv(h) /\ N!HandInv(h) /\ dels[h] # {}
    BY ZenonT(40) DEF Orderly, N!WorkInv
  <1>1. c \in dels[h] /\ c \in Cmds
    BY Zenon, <1>0, Leasts
  <1> DEFINE p == IF dels[h] = {c} THEN N!Phase({}, news[h], comms[h]) ELSE "del"
  <1>2. /\ dels' = [dels EXCEPT ![h] = @ \ {c}] /\ ns' = [ns EXCEPT ![h] = N!nullptr]
        /\ pcOfSet' = [pcOfSet EXCEPT ![h] = p]
    BY Zenon DEF N!NextDel, N!Goto
  <1>3. /\ p \in {"del", "news", "comms", "store"}
        /\ p = "del" => dels[h] # {c}
        /\ p = "news" => dels[h] = {c} /\ news[h] # {}
        /\ p = "comms" => dels[h] = {c} /\ news[h] = {} /\ comms[h] # {}
        /\ p = "store" => dels[h] = {c} /\ news[h] = {} /\ comms[h] = {}
    BY DEF N!Phase
  <1> HIDE DEF p
  <1>4. /\ \A k \in Handlers \ {h} : Same(k)
        /\ dels'[h] = dels[h] \ {c} /\ ns'[h] = N!nullptr /\ pcOfSet'[h] = p
    BY ZenonT(40), <1>0, <1>2 DEF N!TypeOK, N!Label, Same
  <1>5. /\ dels' \in [Handlers -> SUBSET Cmds] /\ ns' \in [Handlers -> N!Objects \cup {N!nullptr}]
        /\ pcOfSet' \in [Handlers -> N!Label]
    BY ZenonT(60), <1>0, <1>2, <1>3 DEF N!TypeOK, N!Label, N!Deleting
  <1>6. N!Working(h)'
    BY Zenon, <1>3, <1>4 DEF N!Working, N!Active
  <1>7. stream[h] \in Streams
    BY Zenon, <1>0 DEF N!WorkInv, N!Active, N!Deleting
  <1>8. (p = "del" => dels'[h] # {}) /\ (p # "del" => dels'[h] = {})
    BY <1>1, <1>3, <1>4
  <1>9. N!WorkInv(h)'
    <2>1. /\ dels'[h] \cap new_value[h].cmds = {} /\ news[h] \cap comms[h] = {}
          /\ news[h] \cup comms[h] \subseteq new_value[h].cmds
      BY ZenonT(40), <1>0, <1>4 DEF N!WorkInv
    <2> QED BY ZenonT(60), <2>1, <1>3, <1>4, <1>7, <1>8 DEF N!WorkInv, N!Active, N!Deleting, N!Adding
  <1>10. N!HandInv(h)'
    <2>1. d[h] = domain /\ domain # N!nullptr
      BY Zenon, <1>0 DEF N!HandInv
    <2> QED BY ZenonT(60), <2>1, <1>3, <1>4 DEF N!HandInv, N!Deleting, N!Adding, N!nullptr
  <1>11. \A k \in Handlers \ {h} : pcOfSet[k] = "addSet" => ns'[h] # ns[k]
    BY ZenonT(40), <1>4 DEF Orderly, N!HandInv
  <1>12. c \notin new_value[h].cmds /\ c \notin news[h] \cup comms[h]
    BY ZenonT(40), <1>0, <1>1 DEF N!WorkInv
  <1>13. N!Wanted(h, c) = 0 /\ N!Brought(h, c)'
    BY ZenonT(40), <1>4, <1>12 DEF N!Wanted, N!Brought
  <1>14. \A e \in Cmds \ {c} : N!Brought(h, e)' <=> N!Brought(h, e)
    BY ZenonT(60), <1>3, <1>4 DEF N!Brought
  <1> QED BY ZenonT(40), <1>1, <1>4, <1>5, <1>6, <1>9, <1>10, <1>11, <1>13, <1>14

LEMMA DelGetStep ==
  ASSUME Orderly, NEW h \in Handlers, N!delGet(h)
  PROVE  Orderly'
  <1>0. /\ N!TypeOK /\ N!WorkInv(h) /\ N!HandInv(h) /\ pcOfSet[h] = "del" /\ dels[h] # {}
        /\ d[h] = domain /\ domain # N!nullptr
    BY ZenonT(40) DEF Orderly, N!delGet, N!WorkInv, N!HandInv, N!Deleting
  <1>1. PICK s \in Streams : s = stream[h] /\ N!Working(h)
    BY Zenon, <1>0 DEF N!Working, N!Active, N!WorkInv
  <1>2. UNCHANGED <<stream, new_value, m_sessions, domain, members, m_datas, news, comms, d>>
    BY ZenonT(40) DEF N!delGet, N!request, N!directory
  <1>3. PICK c \in Cmds : c = N!Least(dels[h]) /\ c \in dels[h]
    BY Zenon, <1>0, Leasts
  <1>4. CASE m_datas[d[h]][c] = N!nullptr
    <2>1. N!NextDel(h, c)
      BY Zenon, <1>3, <1>4 DEF N!delGet
    <2>2. /\ N!Working(h)' /\ N!WorkInv(h)' /\ N!HandInv(h)'
          /\ \A k \in Handlers \ {h} : Same(k)
          /\ \A k \in Handlers \ {h} : pcOfSet[k] = "addSet" => ns'[h] # ns[k]
          /\ dels'[h] = dels[h] \ {c}
          /\ dels' \in [Handlers -> SUBSET Cmds] /\ ns' \in [Handlers -> N!Objects \cup {N!nullptr}]
          /\ pcOfSet' \in [Handlers -> N!Label]
          /\ N!Wanted(h, c) = 0 /\ N!Brought(h, c)'
          /\ \A e \in Cmds \ {c} : N!Brought(h, e)' <=> N!Brought(h, e)
      <3>1. pcOfSet[h] \in N!Deleting
        BY Zenon, <1>0 DEF N!Deleting
      <3> QED BY ZenonT(40), NextDelFacts, <1>2, <1>3, <2>1, <3>1
    <2>3. N!TypeOK'
      BY ZenonT(60), <1>0, <1>2, <2>2 DEF N!TypeOK, N!Label, N!Objects, N!nullptr, N!noInfo, N!Deleting, N!Adding
    <2>4. /\ N!SetInv' /\ \A k \in Handlers \ {h} : N!HandInv(k)'
          /\ \A e \in Cmds : N!Exists(e)' <=> N!Exists(e)
          /\ \A e \in Cmds, r \in Streams : N!Listed(e, r)' = N!Listed(e, r)
      BY ZenonT(40), DirectorySame, <1>2, <2>2
    <2>5. \A k \in Handlers : N!HandInv(k)'
      BY Zenon, <2>2, <2>4
    <2>6. N!Listed(c, s) = 0
      BY Zenon, <1>0, <1>4 DEF N!Listed, N!Exists
    <2>7. dels'[h] \subseteq dels[h] /\ news'[h] \cup comms'[h] \subseteq news[h] \cup comms[h]
      BY ZenonT(40), <1>2, <2>2
    <2>9. ASSUME NEW e \in Cmds
          PROVE  \/ N!Listed(e, s)' = N!Listed(e, s) /\ (N!Brought(h, e)' <=> N!Brought(h, e))
                 \/ N!Listed(e, s)' = N!Wanted(h, e) /\ N!Brought(h, e)'
      <3>1. N!Listed(e, s)' = N!Listed(e, s)
        BY ZenonT(40), <2>4
      <3>2. CASE e = c
        BY ZenonT(40), <3>1, <3>2, <2>2, <2>6
      <3>3. CASE e # c
        BY ZenonT(40), <3>1, <3>3, <2>2
      <3> QED BY Zenon, <3>2, <3>3
    <2> QED BY ZenonT(60), WorkStep, <1>1, <1>2, <2>2, <2>3, <2>4, <2>5, <2>7, <2>9
  <1>5. CASE m_datas[d[h]][c] # N!nullptr
    <2>1. /\ ns' = [ns EXCEPT ![h] = m_datas[d[h]][c]] /\ UNCHANGED dels
          /\ pcOfSet' = [pcOfSet EXCEPT ![h] = "delNode"]
      BY Zenon, <1>3, <1>5 DEF N!delGet, N!Goto
    <2>2. m_datas[d[h]][c] \in N!Objects /\ d[h] \in N!Objects
      BY ZenonT(40), <1>0, <1>3, <1>5, DirectoryType
    <2>3. /\ pcOfSet'[h] = "delNode" /\ ns'[h] = m_datas[domain][c] /\ \A k \in Handlers \ {h} : Same(k)
          /\ ns' \in [Handlers -> N!Objects \cup {N!nullptr}]
          /\ pcOfSet' \in [Handlers -> N!Label]
      BY ZenonT(60), <1>0, <1>2, <2>1, <2>2 DEF N!TypeOK, N!Label, Same, N!Deleting
    <2>4. N!TypeOK'
      BY ZenonT(60), <1>0, <1>2, <2>1, <2>3 DEF N!TypeOK, N!Label, N!Objects, N!nullptr, N!noInfo, N!Deleting, N!Adding
    <2>5. N!Working(h)'
      BY Zenon, <2>3 DEF N!Working, N!Active
    <2>6. N!WorkInv(h)'
      BY ZenonT(60), <1>0, <1>1, <1>2, <2>1, <2>3 DEF N!WorkInv, N!Active, N!Deleting, N!Adding
    <2>7. N!HandInv(h)'
      BY ZenonT(60), <1>0, <1>2, <1>3, <1>5, <2>1, <2>3 DEF N!HandInv, N!Deleting, N!Adding, N!nullptr
    <2>8. \A k \in Handlers \ {h} : pcOfSet[k] = "addSet" => ns'[h] # ns[k]
      BY ZenonT(40), <1>3, <2>3 DEF Orderly, N!HandInv
    <2>9. /\ N!SetInv' /\ \A k \in Handlers \ {h} : N!HandInv(k)'
          /\ \A e \in Cmds : N!Exists(e)' <=> N!Exists(e)
          /\ \A e \in Cmds, r \in Streams : N!Listed(e, r)' = N!Listed(e, r)
      BY ZenonT(40), DirectorySame, <1>2, <2>3, <2>8
    <2>10. \A e \in Cmds : N!Brought(h, e)' <=> N!Brought(h, e)
      BY ZenonT(60), <1>0, <1>2, <2>1, <2>3 DEF N!Brought
    <2>11. dels'[h] \subseteq dels[h] /\ news'[h] \cup comms'[h] \subseteq news[h] \cup comms[h]
      BY ZenonT(40), <1>2, <2>1
    <2>12. \A k \in Handlers : N!HandInv(k)'
      BY Zenon, <2>7, <2>9
    <2> QED BY ZenonT(60), WorkStep, <1>1, <1>2, <2>3, <2>4, <2>5, <2>6, <2>9, <2>10, <2>11, <2>12
  <1> QED BY Zenon, <1>4, <1>5

LEMMA DelNodeStep ==
  ASSUME Orderly, NEW h \in Handlers, N!delNode(h)
  PROVE  Orderly'
  <1>0. /\ N!TypeOK /\ N!WorkInv(h) /\ N!HandInv(h) /\ pcOfSet[h] = "delNode" /\ dels[h] # {}
        /\ d[h] = domain /\ domain # N!nullptr
        /\ ns[h] # N!nullptr /\ ns[h] = m_datas[domain][N!Least(dels[h])]
    BY ZenonT(40) DEF Orderly, N!delNode, N!WorkInv, N!HandInv, N!Deleting
  <1>1. PICK s \in Streams : s = stream[h] /\ N!Working(h)
    BY Zenon, <1>0 DEF N!Working, N!Active, N!WorkInv
  <1>2. /\ UNCHANGED <<stream, new_value, m_sessions, domain, m_datas, dels, news, comms, d, ns>>
        /\ members' = [members EXCEPT ![ns[h]][s] = 0]
        /\ pcOfSet' = [pcOfSet EXCEPT ![h] = "delSize"]
    BY ZenonT(40), <1>1 DEF N!delNode, N!Goto, N!request, N!work
  <1>3. PICK c \in Cmds : c = N!Least(dels[h]) /\ c \in dels[h]
    BY Zenon, <1>0, Leasts
  <1>4. PICK o \in N!Objects : o = ns[h] /\ o = m_datas[domain][c]
    BY ZenonT(40), <1>0, <1>3, DirectoryType
  <1>5. /\ \A x \in N!Objects, r \in Streams :
             members'[x][r] = IF x = o /\ r = s THEN 0 ELSE members[x][r]
        /\ members' \in [N!Objects -> [Streams -> Nat]]
    <2>1. members \in [N!Objects -> [Streams -> Nat]] /\ members' = [members EXCEPT ![o][s] = 0]
      BY Zenon, <1>0, <1>2, <1>4 DEF N!TypeOK, N!Label
    <2> QED BY <2>1
  <1>6. /\ pcOfSet'[h] = "delSize" /\ \A k \in Handlers \ {h} : Same(k)
        /\ pcOfSet' \in [Handlers -> N!Label]
    BY ZenonT(40), <1>0, <1>2 DEF N!TypeOK, N!Label, Same, N!Deleting
  <1>7. N!TypeOK'
    BY ZenonT(60), <1>0, <1>2, <1>5, <1>6 DEF N!TypeOK, N!Label, N!Objects, N!nullptr, N!noInfo, N!Deleting, N!Adding
  <1>8. N!Working(h)'
    BY Zenon, <1>6 DEF N!Working, N!Active
  <1>9. N!WorkInv(h)'
    BY ZenonT(60), <1>0, <1>1, <1>2, <1>6 DEF N!WorkInv, N!Active, N!Deleting, N!Adding
  <1>10. N!HandInv(h)'
    BY ZenonT(60), <1>0, <1>2, <1>6 DEF N!HandInv, N!Deleting, N!Adding, N!nullptr
  <1>11. ASSUME NEW k \in Handlers \ {h}
         PROVE  N!HandInv(k)'
    <2>1. N!HandInv(k) /\ Same(k) /\ ns[k] \in N!Objects \cup {N!nullptr}
      BY Zenon, <1>0, <1>6 DEF Orderly, N!TypeOK, N!Label
    <2>2. pcOfSet[k] \in {"addSet", "delCmd"} => \A r \in Streams : members'[ns[k]][r] = 0
      <3>1. pcOfSet[k] \in {"addSet", "delCmd"} => ns[k] \in N!Objects
        BY Zenon, <2>1 DEF N!HandInv
      <3> QED BY ZenonT(40), <2>1, <3>1, <1>5 DEF N!HandInv
    <2> QED BY ZenonT(60), <2>1, <2>2, <1>2 DEF Same, N!HandInv, N!nullptr, N!Deleting, N!Adding
  <1>12. \A e \in Cmds : N!Exists(e)' <=> N!Exists(e)
    BY Zenon, <1>2 DEF N!Exists, N!nullptr
  <1>13. N!SetInv'
    BY Zenon, <1>2, <1>12 DEF Orderly, N!SetInv, N!nullptr
  <1>14. ASSUME NEW e \in Cmds, NEW r \in Streams
         PROVE  N!Listed(e, r)' = IF e = c /\ r = s THEN 0 ELSE N!Listed(e, r)
    <2>1. CASE ~N!Exists(e)
      <3>1. ~N!Exists(e)' /\ e # c
        BY Zenon, <2>1, <1>0, <1>4, <1>12 DEF N!Exists
      <3> QED BY Zenon, <3>1, <2>1 DEF N!Listed
    <2>2. CASE N!Exists(e)
      <3>1. m_datas[domain][e] \in N!Objects /\ (m_datas[domain][e] = o => e = c)
        <4>1. m_datas[domain][e] \in N!Objects
          BY ZenonT(40), <2>2, <1>0, DirectoryType DEF N!Exists
        <4> QED BY ZenonT(40), <4>1, <2>2, <1>0, <1>4 DEF Orderly, N!SetInv
      <3>2. N!Listed(e, r)' = members'[m_datas[domain][e]][r] /\ N!Listed(e, r) = members[m_datas[domain][e]][r]
        BY Zenon, <2>2, <1>2, <1>12 DEF N!Listed
      <3> QED BY ZenonT(40), <3>1, <3>2, <1>4, <1>5
    <2> QED BY Zenon, <2>1, <2>2
  <1>15. ASSUME NEW e \in Cmds
         PROVE  \/ N!Listed(e, s)' = N!Listed(e, s) /\ (N!Brought(h, e)' <=> N!Brought(h, e))
                \/ N!Listed(e, s)' = N!Wanted(h, e) /\ N!Brought(h, e)'
    <2>1. CASE e = c
      <3>1. N!Brought(h, c)'
        BY ZenonT(40), <1>2, <1>3, <1>6 DEF N!Brought
      <3>2. N!Wanted(h, c) = 0
        <4>1. c \notin new_value[h].cmds
          BY Zenon, <1>0, <1>3 DEF N!WorkInv
        <4> QED BY Zenon, <4>1 DEF N!Wanted
      <3> QED BY ZenonT(40), <3>1, <3>2, <2>1, <1>14
    <2>2. CASE e # c
      <3>1. N!Brought(h, e)' <=> N!Brought(h, e)
        BY ZenonT(40), <2>2, <1>0, <1>2, <1>3, <1>6 DEF N!Brought
      <3> QED BY ZenonT(40), <3>1, <2>2, <1>14
    <2> QED BY Zenon, <2>1, <2>2
  <1>16. dels'[h] \subseteq dels[h] /\ news'[h] \cup comms'[h] \subseteq news[h] \cup comms[h]
    BY ZenonT(40), <1>2
  <1>17. \A k \in Handlers : N!HandInv(k)'
    BY Zenon, <1>10, <1>11
  <1>18. \A e \in Cmds, r \in Streams : r # s => N!Listed(e, r)' = N!Listed(e, r)
    BY Zenon, <1>14
  <1> QED BY ZenonT(60), WorkStep, <1>1, <1>2, <1>6, <1>7, <1>8, <1>9, <1>12, <1>13, <1>15, <1>16, <1>17, <1>18

LEMMA DelSizeStep ==
  ASSUME Orderly, NEW h \in Handlers, N!delSize(h)
  PROVE  Orderly'
  <1>0. /\ N!TypeOK /\ N!WorkInv(h) /\ N!HandInv(h) /\ pcOfSet[h] = "delSize" /\ dels[h] # {}
        /\ d[h] = domain /\ domain # N!nullptr /\ pcOfSet[h] \in N!Deleting
    BY ZenonT(40) DEF Orderly, N!delSize, N!WorkInv, N!HandInv, N!Deleting
  <1>1. PICK s \in Streams : s = stream[h] /\ N!Working(h)
    BY Zenon, <1>0 DEF N!Working, N!Active, N!WorkInv
  <1>2. UNCHANGED <<stream, new_value, m_sessions, domain, members, m_datas, news, comms, d>>
    BY ZenonT(40) DEF N!delSize, N!request, N!directory
  <1>3. PICK c \in Cmds : c = N!Least(dels[h]) /\ c \in dels[h]
    BY Zenon, <1>0, Leasts
  <1>4. CASE ~(\A r \in Streams : members[ns[h]][r] = 0)
    <2>1. N!NextDel(h, c)
      BY Zenon, <1>3, <1>4 DEF N!delSize
    <2>2. /\ N!Working(h)' /\ N!WorkInv(h)' /\ N!HandInv(h)'
          /\ \A k \in Handlers \ {h} : Same(k)
          /\ \A k \in Handlers \ {h} : pcOfSet[k] = "addSet" => ns'[h] # ns[k]
          /\ dels'[h] = dels[h] \ {c}
          /\ dels' \in [Handlers -> SUBSET Cmds] /\ ns' \in [Handlers -> N!Objects \cup {N!nullptr}]
          /\ pcOfSet' \in [Handlers -> N!Label]
          /\ N!Wanted(h, c) = 0 /\ N!Brought(h, c)'
          /\ \A e \in Cmds \ {c} : N!Brought(h, e)' <=> N!Brought(h, e)
      BY ZenonT(40), NextDelFacts, <1>0, <1>2, <1>3, <2>1
    <2>3. N!TypeOK'
      BY ZenonT(60), <1>0, <1>2, <2>2 DEF N!TypeOK, N!Label, N!Objects, N!nullptr, N!noInfo, N!Deleting, N!Adding
    <2>4. /\ N!SetInv' /\ \A k \in Handlers \ {h} : N!HandInv(k)'
          /\ \A e \in Cmds : N!Exists(e)' <=> N!Exists(e)
          /\ \A e \in Cmds, r \in Streams : N!Listed(e, r)' = N!Listed(e, r)
      BY ZenonT(40), DirectorySame, <1>2, <2>2
    <2>5. \A k \in Handlers : N!HandInv(k)'
      BY Zenon, <2>2, <2>4
    <2>6. dels'[h] \subseteq dels[h] /\ news'[h] \cup comms'[h] \subseteq news[h] \cup comms[h]
      BY ZenonT(40), <1>2, <2>2
    <2>7. N!Brought(h, c)
      BY Zenon, <1>0, <1>3 DEF N!Brought
    <2>8. \A e \in Cmds : N!Brought(h, e)' <=> N!Brought(h, e)
      BY ZenonT(40), <2>2, <2>7
    <2> QED BY ZenonT(60), WorkStep, <1>1, <1>2, <2>2, <2>3, <2>4, <2>5, <2>6, <2>8
  <1>5. CASE \A r \in Streams : members[ns[h]][r] = 0
    <2>1. UNCHANGED <<dels, ns>> /\ pcOfSet' = [pcOfSet EXCEPT ![h] = "delCmd"]
      BY Zenon, <1>5 DEF N!delSize, N!Goto
    <2>2. /\ pcOfSet'[h] = "delCmd" /\ \A k \in Handlers \ {h} : Same(k)
          /\ pcOfSet' \in [Handlers -> N!Label]
      BY ZenonT(60), <1>0, <1>2, <2>1 DEF N!TypeOK, N!Label, Same, N!Deleting
    <2>3. N!TypeOK'
      BY ZenonT(60), <1>0, <1>2, <2>1, <2>2 DEF N!TypeOK, N!Label, N!Objects, N!nullptr, N!noInfo, N!Deleting, N!Adding
    <2>4. N!Working(h)'
      BY Zenon, <2>2 DEF N!Working, N!Active
    <2>5. N!WorkInv(h)'
      BY ZenonT(60), <1>0, <1>1, <1>2, <2>1, <2>2 DEF N!WorkInv, N!Active, N!Deleting, N!Adding
    <2>6. N!HandInv(h)'
      BY ZenonT(60), <1>0, <1>2, <1>5, <2>1, <2>2 DEF N!HandInv, N!Deleting, N!Adding, N!nullptr
    <2>7. \A k \in Handlers \ {h} : pcOfSet[k] = "addSet" => ns'[h] # ns[k]
      BY ZenonT(40), <2>1 DEF Orderly, N!HandInv
    <2>8. /\ N!SetInv' /\ \A k \in Handlers \ {h} : N!HandInv(k)'
          /\ \A e \in Cmds : N!Exists(e)' <=> N!Exists(e)
          /\ \A e \in Cmds, r \in Streams : N!Listed(e, r)' = N!Listed(e, r)
      BY ZenonT(40), DirectorySame, <1>2, <2>2, <2>7
    <2>9. \A e \in Cmds : N!Brought(h, e)' <=> N!Brought(h, e)
      BY ZenonT(60), <1>0, <1>2, <2>1, <2>2 DEF N!Brought
    <2>10. dels'[h] \subseteq dels[h] /\ news'[h] \cup comms'[h] \subseteq news[h] \cup comms[h]
      BY ZenonT(40), <1>2, <2>1
    <2>11. \A k \in Handlers : N!HandInv(k)'
      BY Zenon, <2>6, <2>8
    <2> QED BY ZenonT(60), WorkStep, <1>1, <1>2, <2>2, <2>3, <2>4, <2>5, <2>8, <2>9, <2>10, <2>11
  <1> QED BY Zenon, <1>4, <1>5

LEMMA DelCmdStep ==
  ASSUME Orderly, NEW h \in Handlers, N!delCmd(h)
  PROVE  Orderly'
  <1>0. /\ N!TypeOK /\ N!WorkInv(h) /\ N!HandInv(h) /\ pcOfSet[h] = "delCmd" /\ dels[h] # {}
        /\ d[h] = domain /\ domain # N!nullptr /\ pcOfSet[h] \in N!Deleting
        /\ ns[h] = m_datas[domain][N!Least(dels[h])] /\ \A r \in Streams : members[ns[h]][r] = 0
    BY ZenonT(40) DEF Orderly, N!delCmd, N!WorkInv, N!HandInv, N!Deleting
  <1>1. PICK s \in Streams : s = stream[h] /\ N!Working(h)
    BY Zenon, <1>0 DEF N!Working, N!Active, N!WorkInv
  <1>2. PICK c \in Cmds : c = N!Least(dels[h]) /\ c \in dels[h]
    BY Zenon, <1>0, Leasts
  <1>3. /\ UNCHANGED <<stream, new_value, m_sessions, domain, members, news, comms, d>>
        /\ N!NextDel(h, c) /\ m_datas' = [m_datas EXCEPT ![domain][c] = N!nullptr]
    BY ZenonT(40), <1>0, <1>2 DEF N!delCmd, N!request
  <1>4. /\ N!Working(h)' /\ N!WorkInv(h)' /\ N!HandInv(h)'
        /\ \A k \in Handlers \ {h} : Same(k)
        /\ \A k \in Handlers \ {h} : pcOfSet[k] = "addSet" => ns'[h] # ns[k]
        /\ dels'[h] = dels[h] \ {c}
        /\ dels' \in [Handlers -> SUBSET Cmds] /\ ns' \in [Handlers -> N!Objects \cup {N!nullptr}]
        /\ pcOfSet' \in [Handlers -> N!Label]
        /\ N!Brought(h, c)' /\ \A e \in Cmds \ {c} : N!Brought(h, e)' <=> N!Brought(h, e)
    BY ZenonT(40), NextDelFacts, <1>0, <1>2, <1>3
  <1>5. /\ \A e \in Cmds : m_datas'[domain][e] = IF e = c THEN N!nullptr ELSE m_datas[domain][e]
        /\ m_datas' \in [N!Objects -> [Cmds -> N!Objects \cup {N!nullptr}]]
    <2>1. domain \in N!Objects /\ m_datas \in [N!Objects -> [Cmds -> N!Objects \cup {N!nullptr}]]
      BY Zenon, <1>0, DirectoryType DEF N!TypeOK, N!Label
    <2> QED BY <2>1, <1>3
  <1>6. N!TypeOK'
    BY ZenonT(60), <1>0, <1>3, <1>4, <1>5 DEF N!TypeOK, N!Label, N!Objects, N!nullptr, N!noInfo, N!Deleting, N!Adding
  <1>7. \A e \in Cmds : N!Exists(e)' <=> e # c /\ N!Exists(e)
    BY ZenonT(40), <1>0, <1>3, <1>5 DEF N!Exists, N!nullptr
  <1>8. N!SetInv'
    <2>1. \A e, f \in Cmds : m_datas'[domain][e] = m_datas'[domain][f] /\ N!Exists(e)' => e = f
      <3> SUFFICES ASSUME NEW e \in Cmds, NEW f \in Cmds, N!Exists(e)',
                          m_datas'[domain][e] = m_datas'[domain][f]
                   PROVE  e = f
        OBVIOUS
      <3>1. e # c /\ N!Exists(e) /\ m_datas[domain][e] # N!nullptr
        BY Zenon, <1>7 DEF N!Exists
      <3>2. f # c /\ m_datas[domain][e] = m_datas[domain][f]
        BY ZenonT(40), <3>1, <1>5
      <3> QED BY Zenon, <3>1, <3>2, <1>0 DEF Orderly, N!SetInv
    <2> QED BY ZenonT(40), <2>1, <1>3 DEF N!SetInv
  <1>9. \A e \in Cmds, r \in Streams : N!Listed(e, r)' = N!Listed(e, r)
    <2> SUFFICES ASSUME NEW e \in Cmds, NEW r \in Streams
                 PROVE  N!Listed(e, r)' = N!Listed(e, r)
      OBVIOUS
    <2>1. CASE e = c
      <3>1. N!Listed(c, r) = 0
        BY Zenon, <1>0, <1>2 DEF N!Listed
      <3>2. N!Listed(c, r)' = 0
        BY Zenon, <1>7 DEF N!Listed
      <3> QED BY Zenon, <3>1, <3>2, <2>1
    <2>2. CASE e # c
      <3>1. (N!Exists(e)' <=> N!Exists(e)) /\ m_datas'[domain][e] = m_datas[domain][e]
        BY Zenon, <2>2, <1>5, <1>7
      <3>2. domain' = domain /\ members' = members
        BY Zenon, <1>3
      <3> QED BY Zenon, <3>1, <3>2 DEF N!Listed
    <2> QED BY Zenon, <2>1, <2>2
  <1>10. ASSUME NEW k \in Handlers \ {h}
         PROVE  N!HandInv(k)'
    <2>1. N!HandInv(k) /\ Same(k) /\ N!PairInv(h, k) /\ N!WorkInv(k)
      BY Zenon, <1>4 DEF Orderly
    <2>2. c \notin dels[k] /\ c \notin news[k]
      BY ZenonT(40), <2>1, <1>2 DEF N!PairInv
    <2>3. /\ dels[k] # {} => N!Least(dels[k]) \in Cmds /\ N!Least(dels[k]) # c
          /\ news[k] # {} => N!Least(news[k]) \in Cmds /\ N!Least(news[k]) # c
      BY ZenonT(40), <2>2, <1>0, Leasts
    <2>4. pcOfSet[k] \in {"delNode", "delSize", "delCmd"} =>
            m_datas'[domain][N!Least(dels[k])] = m_datas[domain][N!Least(dels[k])]
      BY ZenonT(40), <2>1, <2>3, <1>5 DEF N!WorkInv, N!Deleting
    <2>5. pcOfSet[k] \in {"addNode", "addSet"} =>
            m_datas'[domain][N!Least(news[k])] = m_datas[domain][N!Least(news[k])]
      BY ZenonT(40), <2>1, <2>3, <1>5 DEF N!WorkInv, N!Adding
    <2>6. pcOfSet[k] = "addSet" =>
            /\ \A e \in Cmds : m_datas'[domain][e] # ns[k]
            /\ \A i \in Handlers \ {k} : ns'[i] # ns[k]
      BY ZenonT(40), <2>1, <1>4, <1>5 DEF N!HandInv, Same
    <2>7. pcOfSet[k] # "addDomain"
      BY Zenon, <2>1, <1>0 DEF N!HandInv
    <2> QED BY ZenonT(60), <2>1, <2>4, <2>5, <2>6, <2>7, <1>3
            DEF Same, N!HandInv, N!nullptr, N!Deleting, N!Adding
  <1>11. N!Brought(h, c)
    BY Zenon, <1>0, <1>2 DEF N!Brought
  <1>12. \A e \in Cmds : N!Brought(h, e)' <=> N!Brought(h, e)
    BY ZenonT(40), <1>4, <1>11
  <1>13. dels'[h] \subseteq dels[h] /\ news'[h] \cup comms'[h] \subseteq news[h] \cup comms[h]
    BY ZenonT(40), <1>3, <1>4
  <1>14. \A k \in Handlers : N!HandInv(k)'
    BY Zenon, <1>4, <1>10
  <1>15. \A e \in Cmds : N!Exists(e) => N!Exists(e)' \/ e \in dels[h]
    BY Zenon, <1>2, <1>7
  <1> QED BY ZenonT(60), WorkStep, <1>1, <1>3, <1>4, <1>6, <1>8, <1>9, <1>12, <1>13, <1>14, <1>15

LEMMA AddGetStep ==
  ASSUME Orderly, NEW h \in Handlers, N!addGet(h)
  PROVE  Orderly'
  <1>0. /\ N!TypeOK /\ N!WorkInv(h) /\ N!HandInv(h) /\ pcOfSet[h] = "add"
        /\ dels[h] = {} /\ news[h] # {} /\ d[h] = domain /\ domain # N!nullptr
    BY ZenonT(40) DEF Orderly, N!addGet, N!WorkInv, N!HandInv, N!Adding
  <1>1. PICK s \in Streams : s = stream[h] /\ N!Working(h)
    BY Zenon, <1>0 DEF N!Working, N!Active, N!WorkInv
  <1>2. UNCHANGED <<stream, new_value, m_sessions, domain, m_datas, dels, news, comms, d>>
    BY ZenonT(40) DEF N!addGet, N!request
  <1>3. PICK c \in Cmds : c = N!Least(news[h]) /\ c \in news[h]
    BY Zenon, <1>0, Leasts
  <1>4. dels'[h] \subseteq dels[h] /\ news'[h] \cup comms'[h] \subseteq news[h] \cup comms[h]
    BY ZenonT(40), <1>2
  <1>5. \A e \in Cmds : N!Brought(h, e)' <=> N!Brought(h, e)
    BY ZenonT(40), <1>0, <1>2 DEF N!Brought
  <1>6. CASE m_datas[domain][c] # N!nullptr
    <2>1. /\ ns' = [ns EXCEPT ![h] = m_datas[domain][c]] /\ UNCHANGED members
          /\ pcOfSet' = [pcOfSet EXCEPT ![h] = "addNode"]
      BY Zenon, <1>0, <1>3, <1>6 DEF N!addGet, N!Goto
    <2>2. m_datas[domain][c] \in N!Objects
      BY Zenon, <1>0, <1>6, DirectoryType
    <2>3. /\ pcOfSet'[h] = "addNode" /\ ns'[h] = m_datas[domain][c] /\ \A k \in Handlers \ {h} : Same(k)
          /\ ns' \in [Handlers -> N!Objects \cup {N!nullptr}]
          /\ pcOfSet' \in [Handlers -> N!Label]
      BY ZenonT(60), <1>0, <1>2, <2>1, <2>2 DEF N!TypeOK, N!Label, Same, N!Adding
    <2>4. N!TypeOK'
      BY ZenonT(60), <1>0, <1>2, <2>1, <2>3 DEF N!TypeOK, N!Label, N!Objects, N!nullptr, N!noInfo, N!Deleting, N!Adding
    <2>5. N!Working(h)'
      BY Zenon, <2>3 DEF N!Working, N!Active
    <2>6. N!WorkInv(h)'
      BY ZenonT(60), <1>0, <1>1, <1>2, <2>3 DEF N!WorkInv, N!Active, N!Deleting, N!Adding
    <2>7. N!HandInv(h)'
      BY ZenonT(60), <1>0, <1>2, <1>3, <1>6, <2>3 DEF N!HandInv, N!Deleting, N!Adding, N!nullptr
    <2>8. \A k \in Handlers \ {h} : pcOfSet[k] = "addSet" => ns'[h] # ns[k]
      BY ZenonT(40), <1>3, <2>3 DEF Orderly, N!HandInv
    <2>9. /\ N!SetInv' /\ \A k \in Handlers \ {h} : N!HandInv(k)'
          /\ \A e \in Cmds : N!Exists(e)' <=> N!Exists(e)
          /\ \A e \in Cmds, r \in Streams : N!Listed(e, r)' = N!Listed(e, r)
      BY ZenonT(40), DirectorySame, <1>2, <2>1, <2>3, <2>8
    <2>10. \A k \in Handlers : N!HandInv(k)'
      BY Zenon, <2>7, <2>9
    <2> QED BY ZenonT(60), WorkStep, <1>1, <1>2, <1>4, <1>5, <2>3, <2>4, <2>5, <2>6, <2>9, <2>10
  <1>7. CASE m_datas[domain][c] = N!nullptr
    <2>1. PICK o \in N!Objects : o = N!Least(N!FreeNodeSets) /\ o \in N!FreeNodeSets /\ o # N!nullptr
      <3>1. N!FreeNodeSets # {}
        BY Zenon, <1>0, <1>3, <1>7 DEF N!addGet
      <3>2. N!FreeNodeSets \in SUBSET Nat /\ N!FreeNodeSets \subseteq N!Objects
        BY ZenonT(40), NullFacts DEF N!FreeNodeSets
      <3> QED BY ZenonT(40), <3>1, <3>2, LeastIn, NullFacts
    <2>2. /\ ns' = [ns EXCEPT ![h] = o]
          /\ members' = [members EXCEPT ![o] = [r \in Streams |-> 0]]
          /\ pcOfSet' = [pcOfSet EXCEPT ![h] = "addSet"]
      BY Zenon, <1>0, <1>3, <1>7, <2>1 DEF N!addGet, N!Goto
    <2>3. /\ \A k \in Handlers : ns[k] # o
          /\ \A e \in Cmds : m_datas[domain][e] # o
      <3>1. domain \in N!Domains \ {N!nullptr}
        BY Zenon, <1>0 DEF N!Domains
      <3>2. o \notin N!NodeSets
        BY Zenon, <2>1 DEF N!FreeNodeSets
      <3>3. \A k \in Handlers : ns[k] \in N!NodeSets
        BY DEF N!NodeSets
      <3>4. \A e \in Cmds : m_datas[domain][e] \in N!NodeSets
        BY <3>1 DEF N!NodeSets
      <3> QED BY Zenon, <3>2, <3>3, <3>4
    <2>4. /\ pcOfSet'[h] = "addSet" /\ ns'[h] = o /\ \A k \in Handlers \ {h} : Same(k)
          /\ ns' \in [Handlers -> N!Objects \cup {N!nullptr}]
          /\ pcOfSet' \in [Handlers -> N!Label]
      BY ZenonT(60), <1>0, <1>2, <2>2 DEF N!TypeOK, N!Label, Same, N!Adding
    <2>5. /\ \A x \in N!Objects, r \in Streams :
               members'[x][r] = IF x = o THEN 0 ELSE members[x][r]
          /\ members' \in [N!Objects -> [Streams -> Nat]]
      <3>1. members \in [N!Objects -> [Streams -> Nat]]
        BY Zenon, <1>0 DEF N!TypeOK, N!Label
      <3> QED BY <3>1, <2>2
    <2>6. N!TypeOK'
      BY ZenonT(60), <1>0, <1>2, <2>4, <2>5 DEF N!TypeOK, N!Label, N!Objects, N!nullptr, N!noInfo, N!Deleting, N!Adding
    <2>7. N!Working(h)'
      BY Zenon, <2>4 DEF N!Working, N!Active
    <2>8. N!WorkInv(h)'
      BY ZenonT(60), <1>0, <1>1, <1>2, <2>4 DEF N!WorkInv, N!Active, N!Deleting, N!Adding
    <2>9. N!HandInv(h)'
      <3>1. \A k \in Handlers \ {h} : ns'[k] # ns'[h]
        BY Zenon, <2>3, <2>4 DEF Same
      <3>2. \A r \in Streams : members'[o][r] = 0
        BY Zenon, <2>5
      <3> QED BY ZenonT(60), <3>1, <3>2, <1>0, <1>2, <1>3, <1>7, <2>1, <2>3, <2>4
              DEF N!HandInv, N!Deleting, N!Adding, N!nullptr
    <2>10. ASSUME NEW k \in Handlers \ {h}
           PROVE  N!HandInv(k)'
      <3>1. N!HandInv(k) /\ Same(k) /\ ns[k] \in N!Objects \cup {N!nullptr}
        BY Zenon, <1>0, <2>4 DEF Orderly, N!TypeOK, N!Label
      <3>2. pcOfSet[k] \in {"addSet", "delCmd"} => \A r \in Streams : members'[ns[k]][r] = 0
        <4>1. pcOfSet[k] \in {"addSet", "delCmd"} => ns[k] \in N!Objects
          BY Zenon, <3>1 DEF N!HandInv
        <4> QED BY ZenonT(40), <3>1, <4>1, <2>5 DEF N!HandInv
      <3>3. pcOfSet[k] = "addSet" => \A i \in Handlers \ {k} : ns'[i] # ns[k]
        BY ZenonT(40), <3>1, <2>3, <2>4 DEF N!HandInv, Same
      <3> QED BY ZenonT(60), <3>1, <3>2, <3>3, <1>2 DEF Same, N!HandInv, N!nullptr, N!Deleting, N!Adding
    <2>11. \A e \in Cmds : N!Exists(e)' <=> N!Exists(e)
      BY Zenon, <1>2 DEF N!Exists, N!nullptr
    <2>12. N!SetInv'
      BY Zenon, <1>2, <2>11 DEF Orderly, N!SetInv, N!nullptr
    <2>13. \A e \in Cmds, r \in Streams : N!Listed(e, r)' = N!Listed(e, r)
      <3> SUFFICES ASSUME NEW e \in Cmds, NEW r \in Streams
                   PROVE  N!Listed(e, r)' = N!Listed(e, r)
        OBVIOUS
      <3>1. CASE ~N!Exists(e)
        BY Zenon, <3>1, <2>11 DEF N!Listed
      <3>2. CASE N!Exists(e)
        <4>1. m_datas[domain][e] \in N!Objects
          BY ZenonT(40), <3>2, <1>0, DirectoryType DEF N!Exists
        <4>2. N!Listed(e, r)' = members'[m_datas[domain][e]][r] /\ N!Listed(e, r) = members[m_datas[domain][e]][r]
          BY Zenon, <3>2, <1>2, <2>11 DEF N!Listed
        <4> QED BY ZenonT(40), <4>1, <4>2, <2>3, <2>5
      <3> QED BY Zenon, <3>1, <3>2
    <2>14. \A k \in Handlers : N!HandInv(k)'
      BY Zenon, <2>9, <2>10
    <2> QED BY ZenonT(60), WorkStep, <1>1, <1>2, <1>4, <1>5, <2>4, <2>6, <2>7, <2>8, <2>11, <2>12, <2>13, <2>14
  <1> QED BY Zenon, <1>6, <1>7

LEMMA AddSetStep ==
  ASSUME Orderly, NEW h \in Handlers, N!addSet(h)
  PROVE  Orderly'
  <1>0. /\ N!TypeOK /\ N!WorkInv(h) /\ N!HandInv(h) /\ pcOfSet[h] = "addSet"
        /\ dels[h] = {} /\ news[h] # {} /\ d[h] = domain /\ domain # N!nullptr
        /\ ns[h] # N!nullptr /\ m_datas[domain][N!Least(news[h])] = N!nullptr
        /\ \A e \in Cmds : m_datas[domain][e] # ns[h]
        /\ \A r \in Streams : members[ns[h]][r] = 0
    BY ZenonT(40) DEF Orderly, N!addSet, N!WorkInv, N!HandInv, N!Adding
  <1>1. PICK s \in Streams : s = stream[h] /\ N!Working(h)
    BY Zenon, <1>0 DEF N!Working, N!Active, N!WorkInv
  <1>2. PICK c \in Cmds : c = N!Least(news[h]) /\ c \in news[h]
    BY Zenon, <1>0, Leasts
  <1>3. /\ UNCHANGED <<stream, new_value, m_sessions, domain, members, dels, news, comms, d, ns>>
        /\ m_datas' = [m_datas EXCEPT ![domain][c] = ns[h]]
        /\ pcOfSet' = [pcOfSet EXCEPT ![h] = "addNode"]
    BY ZenonT(40), <1>0, <1>2 DEF N!addSet, N!Goto, N!request, N!work
  <1>4. PICK o \in N!Objects : o = ns[h]
    BY Zenon, <1>0 DEF N!TypeOK, N!Label
  <1>5. /\ \A e \in Cmds : m_datas'[domain][e] = IF e = c THEN o ELSE m_datas[domain][e]
        /\ m_datas' \in [N!Objects -> [Cmds -> N!Objects \cup {N!nullptr}]]
    <2>1. domain \in N!Objects /\ m_datas \in [N!Objects -> [Cmds -> N!Objects \cup {N!nullptr}]]
      BY Zenon, <1>0, DirectoryType DEF N!TypeOK, N!Label
    <2> QED BY <2>1, <1>3, <1>4
  <1>6. /\ pcOfSet'[h] = "addNode" /\ \A k \in Handlers \ {h} : Same(k)
        /\ pcOfSet' \in [Handlers -> N!Label]
    BY ZenonT(60), <1>0, <1>3 DEF N!TypeOK, N!Label, Same, N!Adding
  <1>7. N!TypeOK'
    BY ZenonT(60), <1>0, <1>3, <1>5, <1>6 DEF N!TypeOK, N!Label, N!Objects, N!nullptr, N!noInfo, N!Deleting, N!Adding
  <1>8. N!Working(h)'
    BY Zenon, <1>6 DEF N!Working, N!Active
  <1>9. N!WorkInv(h)'
    BY ZenonT(60), <1>0, <1>1, <1>3, <1>6 DEF N!WorkInv, N!Active, N!Deleting, N!Adding
  <1>10. N!HandInv(h)'
    BY ZenonT(60), <1>0, <1>2, <1>3, <1>4, <1>5, <1>6 DEF N!HandInv, N!Deleting, N!Adding, N!nullptr
  <1>11. ~N!Exists(c) /\ \A e \in Cmds : N!Exists(e)' <=> e = c \/ N!Exists(e)
    BY ZenonT(40), <1>0, <1>2, <1>3, <1>4, <1>5 DEF N!Exists, N!nullptr
  <1>12. N!SetInv'
    <2>1. \A e, f \in Cmds : m_datas'[domain][e] = m_datas'[domain][f] /\ N!Exists(e)' => e = f
      <3> SUFFICES ASSUME NEW e \in Cmds, NEW f \in Cmds, N!Exists(e)',
                          m_datas'[domain][e] = m_datas'[domain][f]
                   PROVE  e = f
        OBVIOUS
      <3>1. CASE e = c
        BY ZenonT(40), <3>1, <1>0, <1>4, <1>5
      <3>2. CASE e # c
        <4>1. N!Exists(e) /\ f # c /\ m_datas[domain][e] = m_datas[domain][f]
          BY ZenonT(40), <3>2, <1>0, <1>4, <1>5, <1>11
        <4> QED BY Zenon, <4>1, <1>0 DEF Orderly, N!SetInv
      <3> QED BY Zenon, <3>1, <3>2
    <2> QED BY ZenonT(40), <2>1, <1>3 DEF N!SetInv
  <1>13. \A e \in Cmds, r \in Streams : N!Listed(e, r)' = N!Listed(e, r)
    <2> SUFFICES ASSUME NEW e \in Cmds, NEW r \in Streams
                 PROVE  N!Listed(e, r)' = N!Listed(e, r)
      OBVIOUS
    <2>0. domain' = domain /\ members' = members
      BY Zenon, <1>3
    <2>1. CASE e = c
      <3>1. N!Listed(c, r) = 0
        BY Zenon, <1>11 DEF N!Listed
      <3>2. N!Listed(c, r)' = members[o][r]
        BY Zenon, <2>0, <1>5, <1>11 DEF N!Listed
      <3> QED BY Zenon, <3>1, <3>2, <2>1, <1>0, <1>4
    <2>2. CASE e # c
      <3>1. (N!Exists(e)' <=> N!Exists(e)) /\ m_datas'[domain][e] = m_datas[domain][e]
        BY Zenon, <2>2, <1>5, <1>11
      <3> QED BY Zenon, <3>1, <2>0 DEF N!Listed
    <2> QED BY Zenon, <2>1, <2>2
  <1>14. ASSUME NEW k \in Handlers \ {h}
         PROVE  N!HandInv(k)'
    <2>1. N!HandInv(k) /\ Same(k) /\ N!PairInv(h, k) /\ N!PairInv(k, h) /\ N!WorkInv(k)
      BY Zenon, <1>6 DEF Orderly
    <2>2. c \notin dels[k] /\ c \notin news[k]
      BY ZenonT(40), <2>1, <1>2, <1>11 DEF N!PairInv
    <2>3. /\ dels[k] # {} => N!Least(dels[k]) \in Cmds /\ N!Least(dels[k]) # c
          /\ news[k] # {} => N!Least(news[k]) \in Cmds /\ N!Least(news[k]) # c
      BY ZenonT(40), <2>2, <1>0, Leasts
    <2>4. pcOfSet[k] \in {"delNode", "delSize", "delCmd"} =>
            m_datas'[domain][N!Least(dels[k])] = m_datas[domain][N!Least(dels[k])]
      BY ZenonT(40), <2>1, <2>3, <1>5 DEF N!WorkInv, N!Deleting
    <2>5. pcOfSet[k] \in {"addNode", "addSet"} =>
            m_datas'[domain][N!Least(news[k])] = m_datas[domain][N!Least(news[k])]
      BY ZenonT(40), <2>1, <2>3, <1>5 DEF N!WorkInv, N!Adding
    <2>6. pcOfSet[k] = "addSet" =>
            /\ \A e \in Cmds : m_datas'[domain][e] # ns[k]
            /\ \A i \in Handlers \ {k} : ns'[i] # ns[k]
      BY ZenonT(40), <2>1, <1>3, <1>4, <1>5 DEF N!HandInv
    <2>7. pcOfSet[k] # "addDomain"
      BY Zenon, <2>1, <1>0 DEF N!HandInv
    <2> QED BY ZenonT(60), <2>1, <2>4, <2>5, <2>6, <2>7, <1>3
            DEF Same, N!HandInv, N!nullptr, N!Deleting, N!Adding
  <1>15. \A e \in Cmds : N!Brought(h, e)' <=> N!Brought(h, e)
    BY ZenonT(40), <1>0, <1>3 DEF N!Brought
  <1>16. dels'[h] \subseteq dels[h] /\ news'[h] \cup comms'[h] \subseteq news[h] \cup comms[h]
    BY ZenonT(40), <1>3
  <1>17. \A k \in Handlers : N!HandInv(k)'
    BY Zenon, <1>10, <1>14
  <1> QED BY ZenonT(60), WorkStep, <1>1, <1>3, <1>6, <1>7, <1>8, <1>9, <1>11, <1>12, <1>13, <1>15, <1>16, <1>17

LEMMA AddNodeStep ==
  ASSUME Orderly, NEW h \in Handlers, N!addNode(h)
  PROVE  Orderly'
  <1>0. /\ N!TypeOK /\ N!WorkInv(h) /\ N!HandInv(h) /\ pcOfSet[h] = "addNode"
        /\ dels[h] = {} /\ news[h] # {} /\ d[h] = domain /\ domain # N!nullptr
        /\ ns[h] # N!nullptr /\ ns[h] = m_datas[domain][N!Least(news[h])]
    BY ZenonT(40) DEF Orderly, N!addNode, N!WorkInv, N!HandInv, N!Adding
  <1>1. PICK s \in Streams : s = stream[h] /\ N!Working(h)
    BY Zenon, <1>0 DEF N!Working, N!Active, N!WorkInv
  <1>2. PICK c \in Cmds : c = N!Least(news[h]) /\ c \in news[h]
    BY Zenon, <1>0, Leasts
  <1>3. PICK o \in N!Objects : o = ns[h] /\ o = m_datas[domain][c]
    BY ZenonT(40), <1>0, <1>2, DirectoryType
  <1> DEFINE p == IF news[h] = {c} THEN N!Phase({}, {}, comms[h]) ELSE "add"
             w == new_value[h].weight
  <1>4. /\ UNCHANGED <<stream, new_value, m_sessions, domain, m_datas, dels, comms, d>>
        /\ members' = [members EXCEPT ![o][s] = w]
        /\ news' = [news EXCEPT ![h] = @ \ {c}] /\ ns' = [ns EXCEPT ![h] = N!nullptr]
        /\ pcOfSet' = [pcOfSet EXCEPT ![h] = p]
    BY ZenonT(40), <1>1, <1>2, <1>3 DEF N!addNode, N!Goto, N!request
  <1>5. /\ p \in {"add", "comms", "store"}
        /\ p = "add" => news[h] # {c}
        /\ p = "comms" => news[h] = {c} /\ comms[h] # {}
        /\ p = "store" => news[h] = {c} /\ comms[h] = {}
    BY DEF N!Phase
  <1>6. w \in Nat
    BY ZenonT(40), <1>0, InfoFacts DEF N!TypeOK, N!Label
  <1> HIDE DEF p
  <1>7. /\ \A x \in N!Objects, r \in Streams :
             members'[x][r] = IF x = o /\ r = s THEN w ELSE members[x][r]
        /\ members' \in [N!Objects -> [Streams -> Nat]]
    <2>1. members \in [N!Objects -> [Streams -> Nat]]
      BY Zenon, <1>0 DEF N!TypeOK, N!Label
    <2> HIDE DEF w
    <2> QED BY <2>1, <1>4, <1>6
  <1>8. /\ \A k \in Handlers \ {h} : Same(k)
        /\ news'[h] = news[h] \ {c} /\ ns'[h] = N!nullptr /\ pcOfSet'[h] = p
    BY ZenonT(40), <1>0, <1>4 DEF N!TypeOK, N!Label, Same
  <1>9. /\ news' \in [Handlers -> SUBSET Cmds] /\ ns' \in [Handlers -> N!Objects \cup {N!nullptr}]
        /\ pcOfSet' \in [Handlers -> N!Label]
    BY ZenonT(60), <1>0, <1>4, <1>5 DEF N!TypeOK, N!Label, N!Adding
  <1>10. N!TypeOK'
    BY ZenonT(60), <1>0, <1>4, <1>7, <1>9 DEF N!TypeOK, N!Label, N!Objects, N!nullptr, N!noInfo, N!Deleting, N!Adding
  <1>11. N!Working(h)'
    BY Zenon, <1>5, <1>8 DEF N!Working, N!Active
  <1>12. (p = "add" => news'[h] # {}) /\ (p # "add" => news'[h] = {})
    BY <1>2, <1>5, <1>8
  <1>13. N!WorkInv(h)'
    <2>1. /\ news'[h] \cap comms[h] = {} /\ dels[h] \cap new_value[h].cmds = {}
          /\ news'[h] \cup comms[h] \subseteq new_value[h].cmds
      BY ZenonT(40), <1>0, <1>8 DEF N!WorkInv
    <2> QED BY ZenonT(60), <2>1, <1>0, <1>1, <1>4, <1>5, <1>8, <1>12 DEF N!WorkInv, N!Active, N!Deleting, N!Adding
  <1>14. N!HandInv(h)'
    BY ZenonT(60), <1>0, <1>4, <1>5, <1>8 DEF N!HandInv, N!Deleting, N!Adding, N!nullptr
  <1>15. \A e \in Cmds : N!Exists(e)' <=> N!Exists(e)
    BY Zenon, <1>4 DEF N!Exists, N!nullptr
  <1>16. N!SetInv'
    BY Zenon, <1>4, <1>15 DEF Orderly, N!SetInv, N!nullptr
  <1>17. ASSUME NEW e \in Cmds, NEW r \in Streams
         PROVE  N!Listed(e, r)' = IF e = c /\ r = s THEN w ELSE N!Listed(e, r)
    <2>1. CASE ~N!Exists(e)
      <3>1. ~N!Exists(e)' /\ e # c
        BY Zenon, <2>1, <1>0, <1>3, <1>15 DEF N!Exists
      <3> QED BY Zenon, <3>1, <2>1 DEF N!Listed
    <2>2. CASE N!Exists(e)
      <3>1. m_datas[domain][e] \in N!Objects /\ (m_datas[domain][e] = o => e = c)
        <4>1. m_datas[domain][e] \in N!Objects
          BY ZenonT(40), <2>2, <1>0, DirectoryType DEF N!Exists
        <4> QED BY ZenonT(40), <4>1, <2>2, <1>0, <1>3 DEF Orderly, N!SetInv
      <3>2. N!Listed(e, r)' = members'[m_datas[domain][e]][r] /\ N!Listed(e, r) = members[m_datas[domain][e]][r]
        BY Zenon, <2>2, <1>4, <1>15 DEF N!Listed
      <3> QED BY ZenonT(40), <3>1, <3>2, <1>3, <1>7
    <2> QED BY Zenon, <2>1, <2>2
  <1>18. ASSUME NEW k \in Handlers \ {h}
         PROVE  N!HandInv(k)'
    <2>1. N!HandInv(k) /\ Same(k) /\ N!PairInv(k, h) /\ N!WorkInv(k) /\ ns[k] \in N!Objects \cup {N!nullptr}
      BY Zenon, <1>0, <1>8 DEF Orderly, N!TypeOK, N!Label
    <2>2. pcOfSet[k] \in {"addSet", "delCmd"} => ns[k] \in N!Objects /\ ns[k] # o
      <3>1. CASE pcOfSet[k] = "addSet"
        BY ZenonT(40), <3>1, <2>1, <1>3 DEF N!HandInv
      <3>2. CASE pcOfSet[k] = "delCmd"
        <4>1. ns[k] # N!nullptr /\ ns[k] = m_datas[domain][N!Least(dels[k])] /\ dels[k] # {}
          BY ZenonT(40), <3>2, <2>1 DEF N!HandInv, N!WorkInv, N!Deleting
        <4>2. N!Least(dels[k]) \in dels[k] /\ N!Least(dels[k]) \in Cmds
          BY Zenon, <4>1, <1>0, Leasts
        <4>3. N!Least(dels[k]) # c
          BY ZenonT(40), <4>2, <2>1, <1>2 DEF N!PairInv
        <4>4. N!Exists(c)
          BY Zenon, <1>0, <1>2, <1>3 DEF N!Exists
        <4> QED BY ZenonT(40), <4>1, <4>2, <4>3, <4>4, <2>1, <1>0, <1>3 DEF Orderly, N!SetInv
      <3> QED BY Zenon, <3>1, <3>2
    <2>3. pcOfSet[k] \in {"addSet", "delCmd"} => \A r \in Streams : members'[ns[k]][r] = 0
      BY ZenonT(40), <2>1, <2>2, <1>7 DEF N!HandInv
    <2>4. pcOfSet[k] = "addSet" => \A i \in Handlers \ {k} : ns'[i] # ns[k]
      BY ZenonT(40), <2>1, <1>8 DEF N!HandInv, Same
    <2> QED BY ZenonT(60), <2>1, <2>3, <2>4, <1>4 DEF Same, N!HandInv, N!nullptr, N!Deleting, N!Adding
  <1>19. c \in new_value[h].cmds /\ c \notin comms[h]
    BY ZenonT(40), <1>0, <1>2 DEF N!WorkInv
  <1>20. ASSUME NEW e \in Cmds
         PROVE  \/ N!Listed(e, s)' = N!Listed(e, s) /\ (N!Brought(h, e)' <=> N!Brought(h, e))
                \/ N!Listed(e, s)' = N!Wanted(h, e) /\ N!Brought(h, e)'
    <2>1. CASE e = c
      <3>1. N!Brought(h, c)' /\ N!Wanted(h, c) = w
        BY ZenonT(40), <1>0, <1>4, <1>8, <1>19 DEF N!Brought, N!Wanted
      <3> QED BY ZenonT(40), <3>1, <2>1, <1>17
    <2>2. CASE e # c
      <3>1. N!Brought(h, e)' <=> N!Brought(h, e)
        BY ZenonT(40), <2>2, <1>0, <1>4, <1>8 DEF N!Brought
      <3> QED BY ZenonT(40), <3>1, <2>2, <1>17
    <2> QED BY Zenon, <2>1, <2>2
  <1>21. dels'[h] \subseteq dels[h] /\ news'[h] \cup comms'[h] \subseteq news[h] \cup comms[h]
    BY ZenonT(40), <1>4, <1>8
  <1>22. \A k \in Handlers : N!HandInv(k)'
    BY Zenon, <1>14, <1>18
  <1>23. \A e \in Cmds, r \in Streams : r # s => N!Listed(e, r)' = N!Listed(e, r)
    BY Zenon, <1>17
  <1> QED BY ZenonT(60), WorkStep, <1>1, <1>4, <1>8, <1>10, <1>11, <1>13, <1>15, <1>16, <1>20, <1>21, <1>22, <1>23

\* a call begins or ends: nothing is at work that was not before
LEMMA OutsideStep ==
  ASSUME Orderly, NEW h \in Handlers, ~N!Working(h), ~N!Working(h)',
         UNCHANGED <<m_sessions, domain, m_datas, members, dels, news, comms, d, ns>>,
         \A k \in Handlers \ {h} : Same(k), N!TypeOK', N!WorkInv(h)'
  PROVE  Orderly'
  <1>1. \A k \in Handlers \ {h} : pcOfSet[k] = "addSet" => ns'[h] # ns[k]
    BY ZenonT(40) DEF Orderly, N!HandInv
  <1>2. /\ N!SetInv' /\ \A k \in Handlers \ {h} : N!HandInv(k)'
        /\ \A c \in Cmds : N!Exists(c)' <=> N!Exists(c)
        /\ \A c \in Cmds, r \in Streams : N!Listed(c, r)' = N!Listed(c, r)
    BY ZenonT(40), DirectorySame, <1>1
  <1>3. N!HandInv(h)'
    BY ZenonT(40) DEF N!HandInv, N!Working, N!Active, N!Deleting, N!Adding
  <1>4. \A k \in Handlers : N!WorkInv(k)'
    BY ZenonT(40), SameWork DEF Orderly
  <1>5. \A k \in Handlers : N!Working(k)' <=> N!Working(k)
    BY ZenonT(40) DEF Same, N!Working, N!Active
  <1>6. \A k \in Handlers : N!Working(k) => stream'[k] = stream[k]
    BY ZenonT(40) DEF Same
  <1>7. ASSUME NEW i \in Handlers, NEW k \in Handlers \ {i}
        PROVE  N!PairInv(i, k)'
    <2>1. N!PairInv(i, k) /\ news[i] \cup comms[i] \subseteq Cmds
      BY ZenonT(40) DEF Orderly, N!TypeOK, N!Label
    <2>2. \A c \in (news[i] \cup comms[i]) \cap (news[k] \cup comms[k]) : N!Exists(c)'
      BY ZenonT(40), <2>1, <1>2 DEF N!PairInv
    <2>3. N!Working(i)' /\ N!Working(k)' => stream'[i] # stream'[k]
      BY ZenonT(40), <2>1, <1>5, <1>6 DEF N!PairInv
    <2> QED BY ZenonT(40), <2>1, <2>2, <2>3 DEF N!PairInv, N!nullptr
  <1>8. N!ListInv'
    <2>1. \A c \in Cmds, r \in Streams : N!Registered(c, r)' = N!Registered(c, r)
      BY Zenon DEF N!Registered
    <2>2. ASSUME NEW r \in Streams, \A k \in Handlers : N!Working(k)' => stream'[k] # r, NEW c \in Cmds
          PROVE  N!Listed(c, r)' = N!Registered(c, r)'
      <3>1. \A k \in Handlers : N!Working(k) => stream[k] # r
        BY Zenon, <1>5, <1>6, <2>2
      <3>2. N!Listed(c, r) = N!Registered(c, r)
        BY Zenon, <3>1 DEF Orderly, N!ListInv
      <3> QED BY Zenon, <3>2, <2>1, <1>2
    <2>3. ASSUME NEW k \in Handlers, N!Working(k)', NEW c \in Cmds, NEW r, r = stream'[k]
          PROVE  N!Listed(c, r)' =
                   IF N!Brought(k, c)' THEN N!Wanted(k, c)' ELSE N!Registered(c, r)'
      <3>1. N!Working(k) /\ r = stream[k] /\ k # h
        BY Zenon, <1>5, <1>6, <2>3
      <3>2. r \in Streams
        BY Zenon, <3>1 DEF Orderly, N!WorkInv, N!Working
      <3>3. N!Listed(c, r) = IF N!Brought(k, c) THEN N!Wanted(k, c) ELSE N!Registered(c, r)
        BY Zenon, <3>1 DEF Orderly, N!ListInv
      <3>4. (N!Brought(k, c)' <=> N!Brought(k, c)) /\ N!Wanted(k, c)' = N!Wanted(k, c)
        BY ZenonT(40), <3>1 DEF Same, N!Brought, N!Wanted
      <3> QED BY ZenonT(40), <3>2, <3>3, <3>4, <2>1, <1>2
    <2>4. \A k \in Handlers : N!Working(k)' => \A c \in Cmds : N!Listed(c, stream[k])' =
            IF N!Brought(k, c)' THEN N!Wanted(k, c)' ELSE N!Registered(c, stream[k])'
      BY ZenonT(40), <2>3
    <2> QED BY ZenonT(40), <2>2, <2>4 DEF N!ListInv
  <1>9. \A k \in Handlers : N!HandInv(k)'
    BY Zenon, <1>2, <1>3
  <1> QED BY ZenonT(40), <1>2, <1>4, <1>7, <1>8, <1>9 DEF Orderly

LEMMA StartStep ==
  ASSUME Orderly, NEW h \in Handlers, NEW s \in Streams, NEW info \in Infos \cup {N!noInfo},
         N!Start(h, s, info)
  PROVE  Orderly'
  <1>0. N!TypeOK /\ N!WorkInv(h) /\ pcOfSet[h] = "idle"
    BY Zenon DEF Orderly, N!Start
  <1>1. /\ UNCHANGED <<m_sessions, domain, m_datas, members, dels, news, comms, d, ns>>
        /\ stream' = [stream EXCEPT ![h] = s] /\ new_value' = [new_value EXCEPT ![h] = info]
        /\ pcOfSet' = [pcOfSet EXCEPT ![h] = "get"]
    BY ZenonT(40) DEF N!Start, N!Goto, N!directory, N!work
  <1>2. /\ pcOfSet'[h] = "get" /\ stream'[h] = s /\ \A k \in Handlers \ {h} : Same(k)
        /\ stream' \in [Handlers -> Streams \cup {N!nullptr}]
        /\ new_value' \in [Handlers -> Infos \cup {N!noInfo}]
        /\ pcOfSet' \in [Handlers -> N!Label]
    BY ZenonT(60), <1>0, <1>1 DEF N!TypeOK, N!Label, Same
  <1>3. N!TypeOK'
    BY ZenonT(60), <1>0, <1>1, <1>2 DEF N!TypeOK, N!Label, N!Objects, N!nullptr, N!noInfo, N!Deleting, N!Adding
  <1>4. dels[h] = {} /\ news[h] = {} /\ comms[h] = {}
    BY Zenon, <1>0 DEF N!WorkInv
  <1>5. N!WorkInv(h)'
    BY ZenonT(60), <1>1, <1>2, <1>4 DEF N!WorkInv, N!Active, N!Deleting, N!Adding
  <1>6. ~N!Working(h) /\ ~N!Working(h)'
    BY Zenon, <1>0, <1>2 DEF N!Working, N!Active
  <1> QED BY ZenonT(40), OutsideStep, <1>1, <1>2, <1>3, <1>5, <1>6

LEMMA InnerCloseStep ==
  ASSUME Orderly, NEW h \in Handlers, N!innerClose(h)
  PROVE  Orderly'
  <1>0. N!TypeOK /\ N!WorkInv(h) /\ pcOfSet[h] = "close"
    BY Zenon DEF Orderly, N!innerClose
  <1>1. /\ UNCHANGED <<m_sessions, domain, m_datas, members, new_value, dels, news, comms, d, ns>>
        /\ stream' = [stream EXCEPT ![h] = N!nullptr]
        /\ pcOfSet' = [pcOfSet EXCEPT ![h] = "idle"]
    BY ZenonT(40) DEF N!innerClose, N!Goto, N!directory, N!work
  <1>2. /\ pcOfSet'[h] = "idle" /\ \A k \in Handlers \ {h} : Same(k)
        /\ stream' \in [Handlers -> Streams \cup {N!nullptr}]
        /\ pcOfSet' \in [Handlers -> N!Label]
    BY ZenonT(60), <1>0, <1>1 DEF N!TypeOK, N!Label, Same
  <1>3. N!TypeOK'
    BY ZenonT(60), <1>0, <1>1, <1>2 DEF N!TypeOK, N!Label, N!Objects, N!nullptr, N!noInfo, N!Deleting, N!Adding
  <1>4. dels[h] = {} /\ news[h] = {} /\ comms[h] = {}
    BY Zenon, <1>0 DEF N!WorkInv
  <1>5. N!WorkInv(h)'
    BY ZenonT(60), <1>1, <1>2, <1>4 DEF N!WorkInv, N!Active, N!Deleting, N!Adding
  <1>6. ~N!Working(h) /\ ~N!Working(h)'
    BY Zenon, <1>0, <1>2 DEF N!Working, N!Active
  <1> QED BY ZenonT(40), OutsideStep, <1>1, <1>2, <1>3, <1>5, <1>6

\* set() finds its differences, and keeps out of the way of the calls at work
LEMMA DiffStep ==
  ASSUME Orderly, NEW h \in Handlers, N!diff(h), ~raced'
  PROVE  Orderly'
  <1>0. N!TypeOK /\ N!WorkInv(h) /\ N!HandInv(h) /\ pcOfSet[h] = "get"
    BY Zenon DEF Orderly, N!diff
  <1>1. PICK s \in Streams : s = stream[h]
    BY Zenon, <1>0 DEF N!Active, N!WorkInv
  <1> DEFINE old == m_sessions[s]
             new == new_value[h]
             D == old.cmds \ new.cmds
             A == new.cmds \ old.cmds
             C == IF old.weight # new.weight THEN old.cmds \cap new.cmds ELSE {}
             p == N!Phase(D, A, C)
  <1>2. /\ UNCHANGED <<stream, new_value, m_sessions, domain, m_datas, members, d, ns>>
        /\ dels' = [dels EXCEPT ![h] = D] /\ news' = [news EXCEPT ![h] = A]
        /\ comms' = [comms EXCEPT ![h] = C]
        /\ pcOfSet' = [pcOfSet EXCEPT ![h] = N!Phase(dels'[h], news'[h], comms'[h])]
    BY ZenonT(40), <1>1 DEF N!diff, N!Goto, N!directory
  <1>3. \A k \in Handlers \ {h} : N!Active(k) => ~N!Clash(h, k, D, A \cup C)
    BY ZenonT(40), <1>1 DEF N!diff
  <1>4. old.cmds \in SUBSET Cmds /\ new.cmds \in SUBSET Cmds
    BY ZenonT(40), <1>0, InfoFacts DEF N!TypeOK, N!Label
  <1>5. dels'[h] = D /\ news'[h] = A /\ comms'[h] = C
    BY Zenon, <1>0, <1>2 DEF N!TypeOK, N!Label
  <1>6. pcOfSet' = [pcOfSet EXCEPT ![h] = p]
    BY Zenon, <1>2, <1>5
  <1>7. /\ p \in {"dels", "news", "comms", "store"}
        /\ p = "dels" => D # {}
        /\ p = "news" => D = {} /\ A # {}
        /\ p = "comms" => D = {} /\ A = {} /\ C # {}
        /\ p = "store" => D = {} /\ A = {} /\ C = {}
    <2> HIDE DEF D, A, C
    <2> QED BY DEF N!Phase
  <1>8. /\ D \in SUBSET Cmds /\ A \in SUBSET Cmds /\ C \in SUBSET Cmds
        /\ A \cap C = {} /\ D \cap new.cmds = {} /\ A \cup C \subseteq new.cmds
    <2> HIDE DEF old, new
    <2> QED BY <1>4
  <1> HIDE DEF p
  <1>9. pcOfSet'[h] = p /\ \A k \in Handlers \ {h} : Same(k)
    <2> HIDE DEF D, A, C
    <2> QED BY ZenonT(40), <1>0, <1>2, <1>6 DEF N!TypeOK, N!Label, Same
  <1>10. N!TypeOK'
    <2>1. pcOfSet' \in [Handlers -> N!Label]
      BY ZenonT(40), <1>0, <1>6, <1>7 DEF N!TypeOK, N!Label
    <2> HIDE DEF D, A, C
    <2>2. /\ dels' \in [Handlers -> SUBSET Cmds] /\ news' \in [Handlers -> SUBSET Cmds]
          /\ comms' \in [Handlers -> SUBSET Cmds]
      BY ZenonT(40), <1>0, <1>2, <1>8 DEF N!TypeOK, N!Label
    <2> QED BY ZenonT(60), <2>1, <2>2, <1>0, <1>2 DEF N!TypeOK, N!Label, N!Objects, N!nullptr, N!noInfo, N!Deleting, N!Adding
  <1>11. N!WorkInv(h)'
    <2>1. new' = new
      BY Zenon, <1>2
    <2> HIDE DEF D, A, C
    <2> QED BY ZenonT(60), <1>1, <1>2, <1>5, <1>7, <1>8, <1>9 DEF N!WorkInv, N!Active, N!Deleting, N!Adding
  <1>12. N!HandInv(h)'
    BY ZenonT(60), <1>7, <1>9 DEF N!HandInv, N!Deleting, N!Adding
  <1>13. \A k \in Handlers \ {h} : pcOfSet[k] = "addSet" => ns'[h] # ns[k]
    BY ZenonT(40), <1>2 DEF Orderly, N!HandInv
  <1>14. /\ N!SetInv' /\ \A k \in Handlers \ {h} : N!HandInv(k)'
         /\ \A c \in Cmds : N!Exists(c)' <=> N!Exists(c)
         /\ \A c \in Cmds, r \in Streams : N!Listed(c, r)' = N!Listed(c, r)
    BY ZenonT(40), DirectorySame, <1>2, <1>9, <1>13
  <1>15. \A k \in Handlers : N!WorkInv(k)'
    BY ZenonT(40), SameWork, <1>9, <1>11 DEF Orderly
  <1>16. \A k \in Handlers : N!HandInv(k)'
    BY Zenon, <1>12, <1>14
  <1>17. \A k \in Handlers \ {h} : N!Working(k)' <=> N!Working(k)
    BY ZenonT(40), <1>9 DEF Same, N!Working, N!Active
  <1>18. ~N!Working(h) /\ N!Working(h)'
    BY ZenonT(40), <1>0, <1>7, <1>9 DEF N!Working, N!Active
  <1>19. ASSUME NEW k \in Handlers \ {h}
         PROVE  N!PairInv(h, k)' /\ N!PairInv(k, h)'
    <2>1. /\ dels'[k] = dels[k] /\ news'[k] = news[k] /\ comms'[k] = comms[k] /\ N!WorkInv(k)
          /\ dels[k] \in SUBSET Cmds /\ news[k] \in SUBSET Cmds /\ comms[k] \in SUBSET Cmds
      BY ZenonT(40), <1>0, <1>9 DEF Same, Orderly, N!TypeOK, N!Label
    <2> HIDE DEF D, A, C
    <2>2. /\ N!Active(k) => stream[k] # s
          /\ D \cap (dels[k] \cup news[k] \cup comms[k]) = {} /\ (A \cup C) \cap dels[k] = {}
          /\ \A c \in (A \cup C) \cap (news[k] \cup comms[k]) : N!Exists(c)
          /\ domain = N!nullptr => A \cup C = {} \/ news[k] \cup comms[k] = {}
      <3>1. CASE ~N!Active(k)
        <4>1. dels[k] = {} /\ news[k] = {} /\ comms[k] = {}
          BY Zenon, <2>1, <3>1 DEF N!Active, N!WorkInv
        <4> QED BY ZenonT(40), <4>1, <3>1
      <3>2. CASE N!Active(k)
        <4>1. ~N!Clash(h, k, D, A \cup C)
          BY Zenon, <3>2, <1>3
        <4> QED BY ZenonT(40), <4>1, <2>1, <1>1, <1>8 DEF N!Clash
      <3> QED BY Zenon, <3>1, <3>2
    <2>3. \A c \in (A \cup C) \cap (news[k] \cup comms[k]) : N!Exists(c)'
      BY ZenonT(40), <2>1, <2>2, <1>14
    <2>4. N!Working(k)' => stream'[k] # stream'[h]
      BY Zenon, <2>2, <1>1, <1>2, <1>17 DEF N!Working
    <2>5. dels[k] \cap (D \cup A \cup C) = {}
      BY ZenonT(40), <2>2
    <2>6. N!PairInv(h, k)'
      BY ZenonT(40), <2>1, <2>2, <2>3, <2>4, <1>2, <1>5 DEF N!PairInv, N!nullptr
    <2>7. N!PairInv(k, h)'
      BY ZenonT(40), <2>1, <2>2, <2>3, <2>4, <2>5, <1>2, <1>5 DEF N!PairInv, N!nullptr
    <2> QED BY Zenon, <2>6, <2>7
  <1>20. ASSUME NEW i \in Handlers \ {h}, NEW k \in Handlers \ {h, i}
         PROVE  N!PairInv(i, k)'
    <2>1. N!PairInv(i, k) /\ Same(i) /\ Same(k) /\ news[i] \cup comms[i] \subseteq Cmds
      BY ZenonT(40), <1>9 DEF Orderly, N!TypeOK, N!Label
    <2>2. \A c \in (news[i] \cup comms[i]) \cap (news[k] \cup comms[k]) : N!Exists(c)'
      BY ZenonT(40), <2>1, <1>14 DEF N!PairInv
    <2>3. N!Working(i)' /\ N!Working(k)' => stream'[i] # stream'[k]
      BY ZenonT(40), <2>1, <1>17 DEF N!PairInv, Same
    <2> QED BY ZenonT(40), <2>1, <2>2, <2>3, <1>2 DEF N!PairInv, N!nullptr, Same
  <1>21. \A i \in Handlers : \A k \in Handlers \ {i} : N!PairInv(i, k)'
    BY ZenonT(40), <1>19, <1>20
  <1>22. N!ListInv'
    <2>1. \A c \in Cmds, r \in Streams : N!Registered(c, r)' = N!Registered(c, r)
      BY Zenon, <1>2 DEF N!Registered
    <2>2. ASSUME NEW r \in Streams, \A k \in Handlers : N!Working(k)' => stream'[k] # r, NEW c \in Cmds
          PROVE  N!Listed(c, r)' = N!Registered(c, r)'
      <3>1. \A k \in Handlers : N!Working(k) => stream[k] # r
        BY Zenon, <1>2, <1>17, <1>18, <2>2
      <3>2. N!Listed(c, r) = N!Registered(c, r)
        BY Zenon, <3>1 DEF Orderly, N!ListInv
      <3> QED BY Zenon, <3>2, <2>1, <1>14
    <2>3. ASSUME NEW k \in Handlers, N!Working(k)', NEW c \in Cmds, NEW r, r = stream'[k]
          PROVE  N!Listed(c, r)' =
                   IF N!Brought(k, c)' THEN N!Wanted(k, c)' ELSE N!Registered(c, r)'
      <3>1. CASE k # h
        <4>1. N!Working(k) /\ r = stream[k] /\ Same(k)
          BY Zenon, <3>1, <1>2, <1>9, <1>17, <2>3
        <4>2. r \in Streams
          BY Zenon, <4>1 DEF Orderly, N!WorkInv, N!Working
        <4>3. N!Listed(c, r) = IF N!Brought(k, c) THEN N!Wanted(k, c) ELSE N!Registered(c, r)
          BY Zenon, <4>1 DEF Orderly, N!ListInv
        <4>4. (N!Brought(k, c)' <=> N!Brought(k, c)) /\ N!Wanted(k, c)' = N!Wanted(k, c)
          BY ZenonT(40), <4>1 DEF Same, N!Brought, N!Wanted
        <4> QED BY ZenonT(40), <4>2, <4>3, <4>4, <2>1, <1>14
      <3>2. CASE k = h
        <4>1. r = s
          BY Zenon, <3>2, <2>3, <1>1, <1>2
        <4>2. \A i \in Handlers : N!Working(i) => stream[i] # s
          BY Zenon, <1>1, <1>2, <1>17, <1>18, <1>19 DEF N!PairInv
        <4>3. N!Listed(c, s)' = N!Registered(c, s)
          BY Zenon, <4>2, <1>14 DEF Orderly, N!ListInv
        <4>4. N!Wanted(h, c)' = N!Wanted(h, c)
          BY Zenon, <1>2 DEF N!Wanted
        <4>5. N!Brought(h, c)' => c \notin D /\ c \notin A /\ c \notin C
          <5> HIDE DEF D, A, C
          <5> QED BY ZenonT(40), <1>5, <1>7, <1>9 DEF N!Brought
        <4>6. N!Brought(h, c)' => N!Wanted(h, c) = N!Registered(c, s)
          BY ZenonT(40), <4>5 DEF N!Wanted, N!Registered
        <4> QED BY ZenonT(40), <3>2, <4>1, <4>3, <4>4, <4>6, <2>1
      <3> QED BY Zenon, <3>1, <3>2
    <2>4. \A k \in Handlers : N!Working(k)' => \A c \in Cmds : N!Listed(c, stream[k])' =
            IF N!Brought(k, c)' THEN N!Wanted(k, c)' ELSE N!Registered(c, stream[k])'
      BY ZenonT(40), <2>3
    <2> QED BY ZenonT(40), <2>2, <2>4 DEF N!ListInv
  <1> QED BY ZenonT(40), <1>10, <1>14, <1>15, <1>16, <1>21, <1>22 DEF Orderly

\* set() ends: what it has brought is what is registered from now on
LEMMA StoreStep ==
  ASSUME Orderly, NEW h \in Handlers, N!store(h)
  PROVE  Orderly'
  <1>0. N!TypeOK /\ N!WorkInv(h) /\ N!HandInv(h) /\ pcOfSet[h] = "store"
    BY Zenon DEF Orderly, N!store
  <1>1. PICK s \in Streams : s = stream[h] /\ N!Working(h)
    BY Zenon, <1>0 DEF N!Working, N!Active, N!WorkInv
  <1>2. /\ UNCHANGED <<domain, m_datas, members, dels, news, comms, ns>>
        /\ m_sessions' = [m_sessions EXCEPT ![s] = new_value[h]]
        /\ d' = [d EXCEPT ![h] = N!nullptr] /\ new_value' = [new_value EXCEPT ![h] = N!noInfo]
        /\ stream' = stream \/ stream' = [stream EXCEPT ![h] = N!nullptr]
        /\ pcOfSet' = [pcOfSet EXCEPT ![h] = "close"] \/ pcOfSet' = [pcOfSet EXCEPT ![h] = "idle"]
    BY ZenonT(40), <1>1 DEF N!store, N!Goto, N!directory
  <1>3. /\ pcOfSet'[h] \in {"close", "idle"}
        /\ pcOfSet' \in [Handlers -> N!Label]
        /\ \A k \in Handlers \ {h} : pcOfSet'[k] = pcOfSet[k]
    BY ZenonT(40), <1>0, <1>2 DEF N!TypeOK, N!Label
  <1>4. /\ stream' \in [Handlers -> Streams \cup {N!nullptr}]
        /\ \A k \in Handlers \ {h} : stream'[k] = stream[k]
    BY ZenonT(40), <1>0, <1>2 DEF N!TypeOK, N!Label
  <1>5. \A k \in Handlers \ {h} : Same(k)
    BY ZenonT(40), <1>0, <1>2, <1>3, <1>4 DEF N!TypeOK, N!Label, Same
  <1>6. N!TypeOK'
    <2>1. /\ d' \in [Handlers -> N!Objects \cup {N!nullptr}]
          /\ new_value' \in [Handlers -> Infos \cup {N!noInfo}]
          /\ m_sessions' \in [Streams -> Infos \cup {N!noInfo}]
      BY ZenonT(40), <1>0, <1>2 DEF N!TypeOK, N!Label
    <2> QED BY ZenonT(60), <2>1, <1>0, <1>2, <1>3, <1>4 DEF N!TypeOK, N!Label, N!Objects, N!nullptr, N!noInfo, N!Deleting, N!Adding
  <1>7. dels[h] = {} /\ news[h] = {} /\ comms[h] = {}
    BY Zenon, <1>0 DEF N!WorkInv
  <1>8. N!WorkInv(h)' /\ ~N!Working(h)'
    BY ZenonT(60), <1>2, <1>3, <1>7 DEF N!WorkInv, N!Working, N!Active, N!Deleting, N!Adding
  <1>9. N!HandInv(h)'
    BY ZenonT(60), <1>3 DEF N!HandInv, N!Deleting, N!Adding
  <1>10. \A k \in Handlers \ {h} : pcOfSet[k] = "addSet" => ns'[h] # ns[k]
    BY ZenonT(40), <1>2 DEF Orderly, N!HandInv
  <1>11. /\ N!SetInv' /\ \A k \in Handlers \ {h} : N!HandInv(k)'
         /\ \A c \in Cmds : N!Exists(c)' <=> N!Exists(c)
         /\ \A c \in Cmds, r \in Streams : N!Listed(c, r)' = N!Listed(c, r)
    BY ZenonT(40), DirectorySame, <1>2, <1>5, <1>10
  <1>12. \A k \in Handlers : N!WorkInv(k)'
    BY ZenonT(40), SameWork, <1>5, <1>8 DEF Orderly
  <1>13. \A k \in Handlers : N!HandInv(k)'
    BY Zenon, <1>9, <1>11
  <1>14. \A k \in Handlers \ {h} : N!Working(k)' <=> N!Working(k)
    BY ZenonT(40), <1>5 DEF Same, N!Working, N!Active
  <1>15. ASSUME NEW i \in Handlers, NEW k \in Handlers \ {i}
         PROVE  N!PairInv(i, k)'
    <2>1. N!PairInv(i, k) /\ news[i] \cup comms[i] \subseteq Cmds
      BY ZenonT(40) DEF Orderly, N!TypeOK, N!Label
    <2>2. \A c \in (news[i] \cup comms[i]) \cap (news[k] \cup comms[k]) : N!Exists(c)'
      BY ZenonT(40), <2>1, <1>11 DEF N!PairInv
    <2>3. N!Working(i)' /\ N!Working(k)' => stream'[i] # stream'[k]
      BY ZenonT(40), <2>1, <1>4, <1>8, <1>14 DEF N!PairInv
    <2> QED BY ZenonT(40), <2>1, <2>2, <2>3, <1>2 DEF N!PairInv, N!nullptr
  <1>16. ASSUME NEW c \in Cmds, NEW r \in Streams
         PROVE  N!Registered(c, r)' = IF r = s THEN N!Wanted(h, c) ELSE N!Registered(c, r)
    <2>1. m_sessions'[r] = IF r = s THEN new_value[h] ELSE m_sessions[r]
      BY ZenonT(40), <1>0, <1>2 DEF N!TypeOK, N!Label
    <2> QED BY ZenonT(40), <2>1 DEF N!Registered, N!Wanted
  <1>17. N!ListInv'
    <2>1. ASSUME NEW r \in Streams, \A k \in Handlers : N!Working(k)' => stream'[k] # r, NEW c \in Cmds
          PROVE  N!Listed(c, r)' = N!Registered(c, r)'
      <3>1. CASE r = s
        <4>1. N!Brought(h, c)
          BY Zenon, <1>7 DEF N!Brought
        <4>2. N!Listed(c, s) = N!Wanted(h, c)
          BY Zenon, <4>1, <1>1 DEF Orderly, N!ListInv
        <4> QED BY Zenon, <3>1, <4>2, <1>11, <1>16
      <3>2. CASE r # s
        <4>1. \A k \in Handlers : N!Working(k) => stream[k] # r
          BY Zenon, <3>2, <2>1, <1>1, <1>4, <1>14
        <4>2. N!Listed(c, r) = N!Registered(c, r)
          BY Zenon, <4>1 DEF Orderly, N!ListInv
        <4> QED BY Zenon, <3>2, <4>2, <1>11, <1>16
      <3> QED BY Zenon, <3>1, <3>2
    <2>2. ASSUME NEW k \in Handlers, N!Working(k)', NEW c \in Cmds, NEW r, r = stream'[k]
          PROVE  N!Listed(c, r)' =
                   IF N!Brought(k, c)' THEN N!Wanted(k, c)' ELSE N!Registered(c, r)'
      <3>1. k # h
        BY Zenon, <2>2, <1>8
      <3>2. N!Working(k) /\ r = stream[k] /\ Same(k)
        BY Zenon, <3>1, <2>2, <1>4, <1>5, <1>14
      <3>3. r \in Streams /\ r # s
        BY Zenon, <3>1, <3>2, <1>1 DEF Orderly, N!WorkInv, N!Working, N!PairInv
      <3>4. N!Listed(c, r) = IF N!Brought(k, c) THEN N!Wanted(k, c) ELSE N!Registered(c, r)
        BY Zenon, <3>2 DEF Orderly, N!ListInv
      <3>5. (N!Brought(k, c)' <=> N!Brought(k, c)) /\ N!Wanted(k, c)' = N!Wanted(k, c)
        BY ZenonT(40), <3>2 DEF Same, N!Brought, N!Wanted
      <3> QED BY ZenonT(40), <3>3, <3>4, <3>5, <1>11, <1>16
    <2>3. \A k \in Handlers : N!Working(k)' => \A c \in Cmds : N!Listed(c, stream[k])' =
            IF N!Brought(k, c)' THEN N!Wanted(k, c)' ELSE N!Registered(c, stream[k])'
      BY ZenonT(40), <2>2
    <2> QED BY ZenonT(40), <2>1, <2>3 DEF N!ListInv
  <1> QED BY ZenonT(40), <1>6, <1>11, <1>12, <1>13, <1>15, <1>17 DEF Orderly

\* nothing that the directory depends on changes
LEMMA ServerStutter ==
  ASSUME Orderly,
         UNCHANGED <<m_sessions, domain, m_datas, members, pcOfSet, stream, new_value,
                     dels, news, comms, d, ns>>
  PROVE  Orderly'
  <1>1. N!TypeOK'
    BY ZenonT(40) DEF Orderly, N!TypeOK, N!Label, N!Objects, N!nullptr, N!noInfo, N!Deleting, N!Adding
  <1>2. \A c \in Cmds : N!Exists(c)' <=> N!Exists(c)
    BY Zenon DEF N!Exists, N!nullptr
  <1>3. N!SetInv'
    BY Zenon, <1>2 DEF Orderly, N!SetInv, N!nullptr
  <1>4. \A h \in Handlers : N!WorkInv(h)' /\ N!HandInv(h)'
    BY ZenonT(40) DEF Orderly, N!WorkInv, N!HandInv, N!Active, N!nullptr, N!Deleting, N!Adding
  <1>5. \A h \in Handlers : N!Working(h)' <=> N!Working(h)
    BY Zenon DEF N!Working, N!Active
  <1>6. ASSUME NEW h \in Handlers, NEW k \in Handlers \ {h}
        PROVE  N!PairInv(h, k)'
    <2>1. N!PairInv(h, k) /\ news[h] \cup comms[h] \subseteq Cmds
      BY ZenonT(40) DEF Orderly, N!TypeOK, N!Label
    <2>2. \A c \in (news[h] \cup comms[h]) \cap (news[k] \cup comms[k]) : N!Exists(c)'
      BY ZenonT(40), <2>1, <1>2 DEF N!PairInv
    <2> QED BY ZenonT(40), <2>1, <2>2, <1>5 DEF N!PairInv, N!nullptr
  <1>7. \A c \in Cmds : \A s : N!Listed(c, s)' = N!Listed(c, s) /\ N!Registered(c, s)' = N!Registered(c, s)
    BY Zenon, <1>2 DEF N!Listed, N!Registered
  <1>8. \A h \in Handlers, c \in Cmds :
          (N!Brought(h, c)' <=> N!Brought(h, c)) /\ N!Wanted(h, c)' = N!Wanted(h, c)
    BY Zenon DEF N!Brought, N!Wanted
  <1>9. N!ListInv'
    <2>1. ASSUME NEW s \in Streams, \A h \in Handlers : N!Working(h)' => stream'[h] # s, NEW c \in Cmds
          PROVE  N!Listed(c, s)' = N!Registered(c, s)'
      <3>1. \A h \in Handlers : N!Working(h) => stream[h] # s
        BY Zenon, <2>1, <1>5
      <3>2. N!Listed(c, s) = N!Registered(c, s)
        BY Zenon, <3>1 DEF Orderly, N!ListInv
      <3> QED BY Zenon, <3>2, <1>7
    <2>2. ASSUME NEW h \in Handlers, N!Working(h)', NEW c \in Cmds, NEW s, s = stream'[h]
          PROVE  N!Listed(c, s)' =
                   IF N!Brought(h, c)' THEN N!Wanted(h, c)' ELSE N!Registered(c, s)'
      <3>1. N!Listed(c, s) = IF N!Brought(h, c) THEN N!Wanted(h, c) ELSE N!Registered(c, s)
        BY Zenon, <2>2, <1>5 DEF Orderly, N!ListInv
      <3> QED BY ZenonT(40), <3>1, <1>7, <1>8
    <2>3. \A h \in Handlers : N!Working(h)' => \A c \in Cmds : N!Listed(c, stream[h])' =
            IF N!Brought(h, c)' THEN N!Wanted(h, c)' ELSE N!Registered(c, stream[h])'
      BY ZenonT(40), <2>2
    <2> QED BY ZenonT(40), <2>1, <2>3 DEF N!ListInv
  <1> QED BY ZenonT(40), <1>1, <1>3, <1>4, <1>6, <1>9 DEF Orderly

\* before the first call
LEMMA ServerInit == N!Init => Orderly
  <1> SUFFICES ASSUME N!Init
               PROVE  Orderly
    OBVIOUS
  <1>1. /\ m_sessions \in [Streams -> Infos \cup {N!noInfo}]
        /\ domain = (IF \A s \in Streams : m_sessions[s] = N!noInfo THEN N!nullptr ELSE 1)
        /\ m_datas = [o \in N!Objects |-> [c \in Cmds |->
             IF o = domain /\ \E s \in Streams : c \in m_sessions[s].cmds THEN c ELSE N!nullptr]]
        /\ members = [o \in N!Objects |-> [s \in Streams |->
             IF o \in m_sessions[s].cmds THEN m_sessions[s].weight ELSE 0]]
    BY Zenon DEF N!Init
  <1>2. \A h \in Handlers :
          /\ pcOfSet[h] = "idle" /\ new_value[h] = N!noInfo
          /\ dels[h] = {} /\ news[h] = {} /\ comms[h] = {}
    BY Zenon DEF N!Init
  <1>3. \A s \in Streams : m_sessions[s].weight \in Nat /\ m_sessions[s].cmds \in SUBSET Cmds
    BY Zenon, <1>1, InfoFacts
  <1>4. 1 \in N!Objects /\ 1 # N!nullptr
    BY ServerAssumption DEF N!Objects, N!nullptr
  <1>5. domain \in N!Objects \cup {N!nullptr} /\ (domain # N!nullptr => domain \in N!Objects)
    BY Zenon, <1>1, <1>4
  <1>6. m_datas \in [N!Objects -> [Cmds -> N!Objects \cup {N!nullptr}]]
    BY ZenonT(40), <1>1, NullFacts
  <1>7. members \in [N!Objects -> [Streams -> Nat]]
    <2>1. \A o \in N!Objects, s \in Streams :
            (IF o \in m_sessions[s].cmds THEN m_sessions[s].weight ELSE 0) \in Nat
      BY <1>3
    <2> QED BY ZenonT(40), <2>1, <1>1
  <1>8. N!TypeOK
    <2>1. /\ pcOfSet \in [Handlers -> N!Label]
          /\ stream \in [Handlers -> Streams \cup {N!nullptr}]
          /\ new_value \in [Handlers -> Infos \cup {N!noInfo}]
      BY ZenonT(40) DEF N!Init, N!Label
    <2>2. /\ dels \in [Handlers -> SUBSET Cmds] /\ news \in [Handlers -> SUBSET Cmds]
          /\ comms \in [Handlers -> SUBSET Cmds]
          /\ d \in [Handlers -> N!Objects \cup {N!nullptr}] /\ ns \in [Handlers -> N!Objects \cup {N!nullptr}]
      BY ZenonT(40) DEF N!Init
    <2> QED BY Zenon, <2>1, <2>2, <1>1, <1>5, <1>6, <1>7 DEF N!TypeOK, N!Label
  <1>9. \A h \in Handlers : N!WorkInv(h) /\ N!HandInv(h) /\ ~N!Working(h)
    BY ZenonT(40), <1>2 DEF N!WorkInv, N!HandInv, N!Working, N!Active, N!Deleting, N!Adding
  <1>10. \A h \in Handlers : \A k \in Handlers \ {h} : N!PairInv(h, k)
    BY ZenonT(40), <1>2, <1>9 DEF N!PairInv
  <1>11. ASSUME domain # N!nullptr, NEW c \in Cmds
         PROVE  /\ c \in N!Objects /\ c # N!nullptr
                /\ m_datas[domain][c] = IF \E s \in Streams : c \in m_sessions[s].cmds
                                          THEN c ELSE N!nullptr
    <2>1. c \in N!Objects /\ c # N!nullptr
      BY Zenon, NullFacts
    <2> QED BY ZenonT(40), <2>1, <1>1, <1>5, <1>11
  <1>12. N!SetInv
    BY ZenonT(40), <1>11 DEF N!SetInv, N!Exists
  <1>13. ASSUME NEW c \in Cmds, NEW s \in Streams
         PROVE  N!Listed(c, s) = N!Registered(c, s)
    <2>1. CASE N!Exists(c)
      <3>1. domain # N!nullptr /\ m_datas[domain][c] = c /\ c \in N!Objects
        BY ZenonT(40), <2>1, <1>11 DEF N!Exists
      <3>2. members[c][s] = N!Registered(c, s)
        BY Zenon, <3>1, <1>1 DEF N!Registered
      <3> QED BY Zenon, <2>1, <3>1, <3>2 DEF N!Listed
    <2>2. CASE ~N!Exists(c)
      <3>1. c \notin m_sessions[s].cmds
        <4>1. CASE domain = N!nullptr
          <5>1. m_sessions[s] = N!noInfo
            BY Zenon, <4>1, <1>1, <1>4
          <5> QED BY <5>1 DEF N!noInfo
        <4>2. CASE domain # N!nullptr
          BY ZenonT(40), <4>2, <2>2, <1>11 DEF N!Exists
        <4> QED BY Zenon, <4>1, <4>2
      <3> QED BY Zenon, <3>1, <2>2 DEF N!Listed, N!Registered
    <2> QED BY Zenon, <2>1, <2>2
  <1>14. N!ListInv
    BY ZenonT(40), <1>9, <1>13 DEF N!ListInv
  <1> QED BY Zenon, <1>8, <1>9, <1>10, <1>12, <1>14 DEF Orderly

\* DirectoryInv is inductive
LEMMA ServerStep == N!DirectoryInv /\ [N!Next]_N!vars => N!DirectoryInv'
  <1> SUFFICES ASSUME N!DirectoryInv, [N!Next]_N!vars, ~raced'
               PROVE  Orderly'
    BY Zenon DEF N!DirectoryInv, Orderly
  <1>0. ASSUME ~raced
        PROVE  Orderly
    BY Zenon, <1>0 DEF N!DirectoryInv, Orderly
  <1>1. ASSUME NEW h \in Handlers, NEW s \in Streams, NEW info \in Infos \cup {N!noInfo},
               N!handleRegister(h, s, info)
        PROVE  Orderly'
    <2>1. PICK i \in Infos \cup {N!noInfo} : N!Start(h, s, i)
      BY Zenon, <1>1 DEF N!handleRegister
    <2>2. ~raced
      BY Zenon, <2>1 DEF N!Start
    <2> QED BY Zenon, <1>0, <2>1, <2>2, StartStep
  <1>2. ASSUME NEW h \in Handlers, NEW s \in Streams, N!onDisconnect(h, s)
        PROVE  Orderly'
    <2>1. N!Start(h, s, N!noInfo)
      BY Zenon, <1>2 DEF N!onDisconnect
    <2>2. ~raced
      BY Zenon, <2>1 DEF N!Start
    <2> QED BY Zenon, <1>0, <2>1, <2>2, StartStep
  <1>3. ASSUME NEW s \in Streams, N!refuse(s)
        PROVE  Orderly'
    <2>1. /\ ~raced
          /\ UNCHANGED <<m_sessions, domain, m_datas, members, pcOfSet, stream, new_value,
                         dels, news, comms, d, ns>>
      BY Zenon, <1>3 DEF N!refuse, N!directory, N!work
    <2> QED BY Zenon, <1>0, <2>1, ServerStutter
  <1>4. ASSUME NEW h \in Handlers, N!diff(h)
        PROVE  Orderly'
    <2>1. ~raced
      BY Zenon, <1>4 DEF N!diff
    <2> QED BY Zenon, <1>0, <1>4, <2>1, DiffStep
  <1>5. ASSUME NEW h \in Handlers, N!getDomain(h) \/ N!addDomain(h)
        PROVE  Orderly'
    <2>1. ~raced
      BY Zenon, <1>5 DEF N!getDomain, N!addDomain
    <2> QED BY Zenon, <1>0, <1>5, <2>1, GetDomainStep, AddDomainStep
  <1>6. ASSUME NEW h \in Handlers, N!delGet(h) \/ N!delNode(h) \/ N!delSize(h) \/ N!delCmd(h)
        PROVE  Orderly'
    <2>1. ~raced
      BY Zenon, <1>6 DEF N!delGet, N!delNode, N!delSize, N!delCmd
    <2> QED BY Zenon, <1>0, <1>6, <2>1, DelGetStep, DelNodeStep, DelSizeStep, DelCmdStep
  <1>7. ASSUME NEW h \in Handlers, N!addGet(h) \/ N!addSet(h) \/ N!addNode(h)
        PROVE  Orderly'
    <2>1. ~raced
      BY Zenon, <1>7 DEF N!addGet, N!addSet, N!addNode
    <2> QED BY Zenon, <1>0, <1>7, <2>1, AddGetStep, AddSetStep, AddNodeStep
  <1>8. ASSUME NEW h \in Handlers, N!store(h) \/ N!innerClose(h)
        PROVE  Orderly'
    <2>1. ~raced
      BY Zenon, <1>8 DEF N!store, N!innerClose
    <2> QED BY Zenon, <1>0, <1>8, <2>1, StoreStep, InnerCloseStep
  <1>9. CASE UNCHANGED N!vars
    <2>1. /\ ~raced
          /\ UNCHANGED <<m_sessions, domain, m_datas, members, pcOfSet, stream, new_value,
                         dels, news, comms, d, ns>>
      BY Zenon, <1>9 DEF N!vars, N!directory, N!work, N!request
    <2> QED BY Zenon, <1>0, <2>1, ServerStutter
  <1> QED BY ZenonT(40), <1>1, <1>2, <1>3, <1>4, <1>5, <1>6, <1>7, <1>8, <1>9 DEF N!Next

(* The directory lists what the streams have registered whenever set() is *)
(* not at work on it, for any number of streams, commands and handlers and *)
(* however their calls overlap, as long as none has raced with another.    *)
THEOREM DirectoryIsAgreed == N!Spec => []DirectoryAgrees
  <1>1. N!Init => N!DirectoryInv
    BY Zenon, ServerInit DEF N!DirectoryInv, Orderly
  <1>2. N!DirectoryInv => DirectoryAgrees
    <2> SUFFICES ASSUME N!DirectoryInv, ~raced, \A h \in Handlers : ~N!Active(h)
                 PROVE  \A c \in Cmds, s \in Streams : N!Listed(c, s) = N!Registered(c, s)
      BY Zenon DEF DirectoryAgrees, N!DirectoryAgrees
    <2>1. N!ListInv
      BY Zenon DEF N!DirectoryInv
    <2> QED BY Zenon, <2>1 DEF N!ListInv, N!Working
  <1> QED BY <1>1, <1>2, ServerStep, PTL DEF N!Spec

=============================================================================
