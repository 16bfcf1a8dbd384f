-------------------------------- MODULE Hook --------------------------------
(***************************************************************************)
(* The hooked calls of one descriptor number (Helens/hook.cc): do_io and   *)
(* connect_with_timeout wait for an event with a condition timer behind    *)
(* them, close() cancels what waits, and the number may be given out again *)
(* for a new socket.  Of IOManager only the registration of the fiber is   *)
(* kept; that a registered and ready fd is triggered is IOManager.tla's    *)
(* ReadyIsServed.  The event is WRITE, which connect and the sends share.  *)
(***************************************************************************)
EXTENDS Naturals, FiniteSets

CONSTANTS
  Fibers,
  none,
  MaxCloses,    \* bound on the calls of close()
  MaxCalls,     \* bound on the hooked calls, over all fibers
  MaxArrivals   \* bound on the changes of the socket's readiness

ASSUME HookAssumption ==
  /\ IsFiniteSet(Fibers) /\ none \notin Fibers
  /\ MaxCloses \in Nat /\ MaxCalls \in Nat /\ MaxArrivals \in Nat

VARIABLES
  sock,        \* kernel: closed, fresh, pending, linked or failed
  ready,       \* kernel: the socket is writable or has an error
  watched,     \* kernel: the epoll instance has the descriptor
  ctx,         \* FdMgr has an FdCtx for the number
  user,        \* the fiber that uses the socket, or none
  owner,       \* the fiber registered in the FdContext, or none
  scheduled,   \* fibers that were triggered or cancelled, not yet resumed
  pc,
  kind,        \* io or connect
  to,          \* the call has a timeout
  cancelled,   \* tinfo->cancelled
  result,      \* of the last call
  call,        \* the number of the call, which names its timer_info
  armed,       \* numbers of the calls with a timer in the timer set
  listed,      \* calls with an expired timer whose callback has not run
  firing,      \* calls whose callback is about to call cancelEvent
  late,        \* calls that have had a timer expire
  closing,     \* what close() does next, or no
  closes, calls, arrivals,
  asserted     \* addEvent's HELENS_ASSERT failed

kernel == <<sock, ready, watched>>
waiting == <<owner, scheduled>>
timers == <<armed, listed, firing, late>>
fiber == <<pc, kind, to, cancelled, result, call, calls>>
others == <<user, ctx, closing, closes, arrivals, asserted>>
vars == <<kernel, waiting, timers, fiber, others>>

Init ==
  /\ sock = "fresh" /\ ready = FALSE /\ watched = FALSE
  /\ ctx = TRUE /\ user \in Fibers /\ owner = none /\ scheduled = {}
  /\ pc = [f \in Fibers |-> "out"]
  /\ kind = [f \in Fibers |-> "io"]
  /\ to = [f \in Fibers |-> FALSE]
  /\ cancelled = [f \in Fibers |-> FALSE]
  /\ result = [f \in Fibers |-> "none"]
  /\ call = [f \in Fibers |-> 0]
  /\ armed = {} /\ listed = {} /\ firing = {} /\ late = {}
  /\ closing = "no" /\ closes = 0 /\ calls = 0 /\ arrivals = 0 /\ asserted = FALSE

-----------------------------------------------------------------------------
(* The kernel                                                              *)

\* room in the send buffer, or the end of a connection attempt
arrive ==
  /\ arrivals < MaxArrivals
  /\ ~ready
  /\ \/ sock \in {"linked", "failed"} /\ sock' = sock
     \/ sock = "pending" /\ sock' \in {"linked", "failed"}
  /\ ready' = TRUE
  /\ arrivals' = arrivals + 1
  /\ UNCHANGED <<watched, waiting, timers, fiber, user, ctx, closing, closes, asserted>>

\* mutant: the registration stays
endEventKeeps ==
  IF owner # none /\ watched
    THEN /\ scheduled' = scheduled \cup {owner}
         /\ UNCHANGED <<owner, watched>>
    ELSE UNCHANGED <<scheduled, owner, watched>>

\* the registration ends and its owner is scheduled: triggerEvent, cancelEvent,
\* cancelAll; epoll_ctl refuses if the kernel does not have the descriptor
endEvent ==
  IF owner # none /\ watched
    THEN /\ scheduled' = scheduled \cup {owner}
         /\ owner' = none
         /\ watched' = FALSE
    ELSE UNCHANGED <<scheduled, owner, watched>>

\* idle() finds the descriptor among the results of epoll_wait
triggerEvent ==
  /\ watched /\ ready /\ owner # none
  /\ endEvent
  /\ UNCHANGED <<sock, ready, timers, fiber, others>>

-----------------------------------------------------------------------------
(* do_io and connect_with_timeout                                          *)

Goto(f, label) == pc' = [pc EXCEPT ![f] = label]

Return(f, value) ==
  /\ Goto(f, "out")
  /\ result' = [result EXCEPT ![f] = value]

\* a new call with a timer_info of its own; without an FdCtx it is the plain
\* system call, or EBADF for connect
enter(f, k, timed) ==
  /\ pc[f] = "out" /\ user = f /\ calls < MaxCalls
  /\ k = "connect" <=> sock \in {"fresh", "pending"}
  /\ calls' = calls + 1
  /\ call' = [call EXCEPT ![f] = calls + 1]
  /\ kind' = [kind EXCEPT ![f] = k]
  /\ to' = [to EXCEPT ![f] = timed]
  /\ cancelled' = [cancelled EXCEPT ![f] = FALSE]
  /\ IF ctx THEN Goto(f, "try") /\ result' = [result EXCEPT ![f] = "none"]
            ELSE Return(f, IF k = "io" /\ sock = "linked" /\ ready THEN "ok" ELSE "error")
  /\ UNCHANGED <<kernel, waiting, timers, others>>

\* fun() or connect_f(): done, failed, or EAGAIN / EINPROGRESS
try(f) ==
  /\ pc[f] = "try"
  /\ \/ /\ kind[f] = "io" /\ sock = "linked" /\ ready
        /\ ready' \in BOOLEAN
        /\ Return(f, "ok") /\ sock' = sock
     \/ /\ kind[f] = "connect" /\ sock = "fresh"
        /\ sock' = "linked" /\ ready' = TRUE
        /\ Return(f, "ok")
     \/ /\ kind[f] = "io" => sock # "linked"
        /\ Return(f, "error") /\ UNCHANGED <<sock, ready>>
     \/ /\ kind[f] = "io" /\ sock = "linked" /\ ~ready
        /\ Goto(f, IF to[f] THEN "timer" ELSE "add")
        /\ UNCHANGED <<sock, ready, result>>
     \/ /\ kind[f] = "connect" /\ sock = "fresh"
        /\ sock' = "pending" /\ ready' = ready
        /\ Goto(f, IF to[f] THEN "timer" ELSE "add") /\ result' = result
  /\ UNCHANGED <<watched, waiting, timers, kind, to, cancelled, call, calls, others>>

addConditionTimer(f) ==
  /\ pc[f] = "timer"
  /\ armed' = armed \cup {call[f]}
  /\ Goto(f, "add")
  /\ UNCHANGED <<kernel, waiting, listed, firing, late, kind, to, cancelled,
                 result, call, calls, others>>

\* mutant: epoll_ctl is missing
addEventUnwatched(f) ==
  /\ pc[f] = "add"
  /\ asserted' = (owner # none)
  /\ owner' = f
  /\ Goto(f, "hold")
  /\ UNCHANGED <<kernel, scheduled, timers, kind, to, cancelled, result, call, calls,
                 user, ctx, closing, closes, arrivals>>

\* the registration; on failure the timer is cancelled and the call fails,
\* connect by way of getsockopt on a closed descriptor
addEvent(f) ==
  /\ pc[f] = "add"
  /\ asserted' = (owner # none)
  /\ IF sock = "closed"
       THEN /\ Return(f, "error")
            /\ armed' = armed \ {call[f]}
            /\ UNCHANGED <<owner, watched>>
       ELSE /\ owner' = f /\ watched' = TRUE
            /\ Goto(f, "hold")
            /\ UNCHANGED <<armed, result>>
  /\ UNCHANGED <<sock, ready, scheduled, listed, firing, late, kind, to, cancelled,
                 call, calls, user, ctx, closing, closes, arrivals>>

\* run() resumes the fiber after YieldToHold()
resume(f) ==
  /\ pc[f] = "hold" /\ f \in scheduled
  /\ scheduled' = scheduled \ {f}
  /\ Goto(f, "woken")
  /\ UNCHANGED <<kernel, owner, timers, kind, to, cancelled, result, call, calls, others>>

\* mutant: tinfo->cancelled is not looked at
wokenUnchecked(f) ==
  /\ pc[f] = "woken"
  /\ armed' = armed \ {call[f]}
  /\ IF kind[f] = "io" THEN Goto(f, "try") /\ result' = result
       ELSE Return(f, IF sock \in {"closed", "failed"} THEN "error" ELSE "ok")
  /\ UNCHANGED <<kernel, waiting, listed, firing, late, kind, to, cancelled, call,
                 calls, others>>

\* timer->cancel(); then ETIMEDOUT, another try, or the verdict of SO_ERROR,
\* which is 0 also while the connection is still pending
woken(f) ==
  /\ pc[f] = "woken"
  /\ armed' = armed \ {call[f]}
  /\ CASE cancelled[f]                    -> Return(f, "ETIMEDOUT")
       [] ~cancelled[f] /\ kind[f] = "io" -> Goto(f, "try") /\ result' = result
       [] OTHER -> Return(f, IF sock \in {"closed", "failed"} THEN "error" ELSE "ok")
  /\ UNCHANGED <<kernel, waiting, listed, firing, late, kind, to, cancelled, call,
                 calls, others>>

DoIo(f) ==
  try(f) \/ addConditionTimer(f) \/ addEvent(f) \/ resume(f) \/ woken(f)

-----------------------------------------------------------------------------
(* The timer's side                                                        *)

\* listExpiredCb takes the timer; its callback is queued
expire(c) ==
  /\ c \in armed
  /\ armed' = armed \ {c}
  /\ listed' = listed \cup {c}
  /\ late' = late \cup {c}
  /\ UNCHANGED <<kernel, waiting, firing, fiber, others>>

\* mutant: the callback is not tied to its call
fireAny(c) ==
  /\ c \in listed
  /\ listed' = listed \ {c}
  /\ cancelled' = [f \in Fibers |-> cancelled[f] \/ pc[f] # "out"]
  /\ firing' = firing \cup {c}
  /\ UNCHANGED <<kernel, waiting, armed, late, pc, kind, to, result, call, calls, others>>

\* mutant: the mark is set, cancelEvent is missing
fireSilently(c) ==
  /\ c \in listed
  /\ listed' = listed \ {c}
  /\ cancelled' = [f \in Fibers |-> cancelled[f] \/ (call[f] = c /\ pc[f] # "out")]
  /\ UNCHANGED <<kernel, waiting, armed, firing, late, pc, kind, to, result, call, calls, others>>

\* the callback locks winfo and marks the call, if it is still in progress
\* and not marked
fire(c) ==
  /\ c \in listed
  /\ listed' = listed \ {c}
  /\ LET live == {f \in Fibers : call[f] = c /\ pc[f] # "out" /\ ~cancelled[f]}
     IN  /\ cancelled' = [f \in Fibers |-> cancelled[f] \/ f \in live]
         /\ firing' = IF live = {} THEN firing ELSE firing \cup {c}
  /\ UNCHANGED <<kernel, waiting, armed, late, pc, kind, to, result, call, calls, others>>

\* ... and cancels whatever is registered for the descriptor by now
cancelEvent(c) ==
  /\ c \in firing
  /\ firing' = firing \ {c}
  /\ endEvent
  /\ UNCHANGED <<sock, ready, armed, listed, late, fiber, others>>

TimerStep(c) == expire(c) \/ fire(c) \/ cancelEvent(c)

-----------------------------------------------------------------------------
(* close() on any thread, and a new socket under the same number           *)

\* mutant: the number is free before FdMgr forgets it
closeFirst ==
  \/ /\ closing = "no" /\ sock # "closed" /\ closes < MaxCloses
     /\ endEvent
     /\ closes' = closes + 1
     /\ closing' = "close_f"
     /\ UNCHANGED <<sock, ready, timers, fiber, user, ctx, arrivals, asserted>>
  \/ /\ closing = "close_f"
     /\ sock' = "closed" /\ ready' = FALSE /\ watched' = FALSE
     /\ user' = none
     /\ closing' = "del"
     /\ UNCHANGED <<waiting, timers, fiber, ctx, closes, arrivals, asserted>>
  \/ /\ closing = "del"
     /\ ctx' = FALSE
     /\ closing' = "no"
     /\ UNCHANGED <<kernel, waiting, timers, fiber, user, closes, arrivals, asserted>>

\* cancelAll, FdMgr's del and close_f, in this order
close ==
  \/ /\ closing = "no" /\ sock # "closed" /\ closes < MaxCloses
     /\ endEvent
     /\ closes' = closes + 1
     /\ closing' = "del"
     /\ UNCHANGED <<sock, ready, timers, fiber, user, ctx, arrivals, asserted>>
  \/ /\ closing = "del"
     /\ ctx' = FALSE
     /\ closing' = "close_f"
     /\ UNCHANGED <<kernel, waiting, timers, fiber, user, closes, arrivals, asserted>>
  \/ /\ closing = "close_f"
     /\ sock' = "closed" /\ ready' = FALSE /\ watched' = FALSE
     /\ user' = none
     /\ closing' = "no"
     /\ UNCHANGED <<waiting, timers, fiber, ctx, closes, arrivals, asserted>>

\* socket() gives the lowest free number, and FdMgr a context
socket(f) ==
  /\ sock = "closed" /\ pc[f] = "out"
  /\ sock' = "fresh"
  /\ user' = f
  /\ ctx' = TRUE
  /\ UNCHANGED <<ready, watched, waiting, timers, fiber, closing, closes, arrivals,
                 asserted>>

Next ==
  /\ ~asserted
  /\ \/ arrive \/ triggerEvent \/ close
     \/ \E f \in Fibers :
          \/ \E k \in {"io", "connect"}, timed \in BOOLEAN : enter(f, k, timed)
          \/ DoIo(f) \/ socket(f)
     \/ \E c \in 1..MaxCalls : TimerStep(c)

Spec == Init /\ [][Next]_vars

(* Fibers that can run do, timers expire and their callbacks run, and
   idle() keeps calling epoll_wait; nobody is obliged to make the socket
   ready.                                                                  *)
FairSpec ==
  /\ Spec
  /\ WF_vars(~asserted /\ triggerEvent)
  /\ \A f \in Fibers : WF_vars(~asserted /\ DoIo(f))
  /\ \A c \in 1..MaxCalls : WF_vars(~asserted /\ TimerStep(c))

-----------------------------------------------------------------------------
(* Properties                                                              *)

TypeOK ==
  /\ sock \in {"closed", "fresh", "pending", "linked", "failed"}
  /\ ready \in BOOLEAN /\ watched \in BOOLEAN /\ ctx \in BOOLEAN /\ asserted \in BOOLEAN
  /\ user \in Fibers \cup {none} /\ owner \in Fibers \cup {none}
  /\ scheduled \subseteq Fibers
  /\ pc \in [Fibers -> {"out", "try", "timer", "add", "hold", "woken"}]
  /\ armed \cup listed \cup firing \cup late \subseteq 1..MaxCalls
  /\ closing \in {"no", "del", "close_f"}
  /\ closes \in 0..MaxCloses /\ calls \in 0..MaxCalls /\ arrivals \in 0..MaxArrivals

(* A fiber that waits in a hooked call is registered or scheduled, and not
   both: event, timeout and close() together wake it once.                 *)
WaiterHasWakeUp ==
  ~asserted => \A f \in Fibers :
    IF pc[f] = "hold" THEN (owner = f) # (f \in scheduled)
                      ELSE owner # f /\ f \notin scheduled

(* Only the timer of a call makes that call fail with ETIMEDOUT: the late
   callback of an earlier call on the same descriptor does not.            *)
TimeoutIsOwn == \A f \in Fibers : cancelled[f] => to[f] /\ call[f] \in late

(* A socket has its FdCtx until its own close(): the del() of an earlier
   close() does not hit a new socket that got the same number.             *)
SocketHasCtx == sock # "closed" /\ closing = "no" => ctx

(* addEvent's HELENS_ASSERT(!(fd_ctx->events & event)) does not fail: no
   call finds an event of its predecessor, also when the socket is closed. *)
AddAssertion == ~asserted

(* On a socket that stays open connect() returns 0 only when the connection
   is established, although SO_ERROR alone does not tell: whoever wakes it
   early has marked it.                                                    *)
ConnectMeansConnected ==
  [][\A f \in Fibers :
       kind[f] = "connect" /\ pc[f] = "woken" /\ result'[f] = "ok" =>
         sock = "linked" \/ closes > 0]_vars

(* A call on a ready socket returns, unless the socket is closed.          *)
ReadyCallReturns ==
  \A f \in Fibers :
    pc[f] # "out" /\ ready ~> pc[f] = "out" \/ ~ready \/ closes > 0

(* A call that is registered before its timer's callback has marked it does
   not wait for ever, even if the socket, still open, is never ready.      *)
HeldCallGoesOn ==
  \A f \in Fibers :
    pc[f] = "hold" /\ to[f] /\ ~cancelled[f] ~> pc[f] # "hold" \/ closes > 0

(* A call with a timeout returns.                                          *)
TimedCallReturns == \A f \in Fibers : pc[f] # "out" /\ to[f] ~> pc[f] = "out"

=============================================================================
