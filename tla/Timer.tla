------------------------------- MODULE Timer -------------------------------
(***************************************************************************)
(* Timers (Helens/timer.cc): the ordered set m_timers, the operations on   *)
(* a timer, each under the write lock of the manager, and listExpiredCb,   *)
(* which reads the clock before it takes the lock.  The clock is the wall  *)
(* clock: it may be set back, and a step back of more than Hour counts as  *)
(* a rollover, upon which every timer expires.                             *)
(***************************************************************************)
EXTENDS Naturals, FiniteSets

CONSTANTS
  Timers,       \* Timer objects, each added once
  Workers,      \* threads that run idle()
  Periods,      \* the delays clients pass, positive
  MaxTime,      \* bound on the clock
  Hour,         \* the rollover threshold, 60 * 60 * 1000 in the code
  MaxSetBacks   \* bound on how often the clock is set back

VARIABLES
  m_timers,         \* timers in the set
  m_next,           \* when a timer expires
  m_ms,             \* its delay
  m_recurring,
  m_cb,             \* has its callback: not cancelled, not expired for good
  m_previouseTime,
  now_ms,           \* listExpiredCb's reading of the clock, 0 outside of it
  cbs,              \* the callbacks listExpiredCb found, not yet scheduled
  clock,
  setBacks,
  unborn            \* timers that have not been added yet

vars == <<m_timers, m_next, m_ms, m_recurring, m_cb, m_previouseTime, now_ms,
          cbs, clock, setBacks, unborn>>

Init ==
  /\ m_timers = {}
  /\ m_next = [t \in Timers |-> 0]
  /\ m_ms = [t \in Timers |-> 0]
  /\ m_recurring = [t \in Timers |-> FALSE]
  /\ m_cb = [t \in Timers |-> FALSE]
  /\ m_previouseTime = 1
  /\ now_ms = [w \in Workers |-> 0]
  /\ cbs = [w \in Workers |-> {}]
  /\ clock = 1
  /\ setBacks = 0
  /\ unborn = Timers

-----------------------------------------------------------------------------
(* The clock                                                               *)

tick ==
  /\ clock < MaxTime
  /\ clock' = clock + 1
  /\ UNCHANGED <<m_timers, m_next, m_ms, m_recurring, m_cb, m_previouseTime,
                 now_ms, cbs, setBacks, unborn>>

setBack ==
  /\ setBacks < MaxSetBacks
  /\ setBacks' = setBacks + 1
  /\ clock' \in 1..(clock - 1)
  /\ UNCHANGED <<m_timers, m_next, m_ms, m_recurring, m_cb, m_previouseTime,
                 now_ms, cbs, unborn>>

-----------------------------------------------------------------------------
(* Operations on a timer                                                   *)

addTimer(t, ms, recurring) ==
  /\ t \in unborn
  /\ clock + ms <= MaxTime
  /\ unborn' = unborn \ {t}
  /\ m_recurring' = [m_recurring EXCEPT ![t] = recurring]
  /\ m_ms' = [m_ms EXCEPT ![t] = ms]
  /\ m_next' = [m_next EXCEPT ![t] = clock + ms]
  /\ m_cb' = [m_cb EXCEPT ![t] = TRUE]
  /\ m_timers' = m_timers \cup {t}
  /\ UNCHANGED <<m_previouseTime, now_ms, cbs, clock, setBacks>>

\* the erase is not guarded: it needs the timer in the set
cancel(t) ==
  /\ m_cb[t]
  /\ m_cb' = [m_cb EXCEPT ![t] = FALSE]
  /\ m_timers' = m_timers \ {t}
  /\ UNCHANGED <<m_next, m_ms, m_recurring, m_previouseTime, now_ms, cbs, clock,
                 setBacks, unborn>>

refresh(t) ==
  /\ m_cb[t] /\ t \in m_timers
  /\ clock + m_ms[t] <= MaxTime
  /\ m_next' = [m_next EXCEPT ![t] = clock + m_ms[t]]
  /\ UNCHANGED <<m_timers, m_ms, m_recurring, m_cb, m_previouseTime, now_ms, cbs,
                 clock, setBacks, unborn>>

reset(t, ms, from_now) ==
  /\ ms # m_ms[t] \/ from_now
  /\ m_cb[t] /\ t \in m_timers
  /\ LET start == IF from_now THEN clock ELSE m_next[t] - m_ms[t]
     IN  /\ start + ms <= MaxTime
         /\ m_next' = [m_next EXCEPT ![t] = start + ms]
  /\ m_ms' = [m_ms EXCEPT ![t] = ms]
  /\ UNCHANGED <<m_timers, m_recurring, m_cb, m_previouseTime, now_ms, cbs, clock,
                 setBacks, unborn>>

-----------------------------------------------------------------------------
(* listExpiredCb                                                           *)

readClock(w) ==
  /\ now_ms[w] = 0
  /\ now_ms' = [now_ms EXCEPT ![w] = clock]
  /\ UNCHANGED <<m_timers, m_next, m_ms, m_recurring, m_cb, m_previouseTime, cbs,
                 clock, setBacks, unborn>>

detectClockRollover(now) == now + Hour < m_previouseTime

\* mutant: a timer of the next millisecond is taken as well
ExpiredEarly(now) ==
  {t \in m_timers : detectClockRollover(now) \/ m_next[t] <= now + 1}

\* the timers the write-locked part takes: all of them after a rollover,
\* else those up to now, equal times included
Expired(now) ==
  {t \in m_timers : detectClockRollover(now) \/ m_next[t] <= now}

\* mutant: every timer is put back
AgainAll(expired) == expired

\* recurring timers are put back into the set
Again(expired) == {t \in expired : m_recurring[t]}

listExpiredCb(w) ==
  /\ now_ms[w] # 0 /\ cbs[w] = {}
  /\ m_timers # {}
  /\ LET now == now_ms[w]
         expired == Expired(now)
         again == Again(expired)
     IN  /\ m_previouseTime' = now
         /\ cbs' = [cbs EXCEPT ![w] = expired]
         /\ m_timers' = (m_timers \ expired) \cup again
         /\ m_next' = [t \in Timers |-> IF t \in again THEN now + m_ms[t] ELSE m_next[t]]
         /\ m_cb' = [t \in Timers |-> m_cb[t] /\ t \notin expired \ again]
         /\ now_ms' = [now_ms EXCEPT ![w] = IF expired = {} THEN 0 ELSE @]
  /\ UNCHANGED <<m_ms, m_recurring, clock, setBacks, unborn>>

\* the set was empty: m_previouseTime is left alone
listNothing(w) ==
  /\ now_ms[w] # 0 /\ cbs[w] = {}
  /\ m_timers = {}
  /\ now_ms' = [now_ms EXCEPT ![w] = 0]
  /\ UNCHANGED <<m_timers, m_next, m_ms, m_recurring, m_cb, m_previouseTime, cbs,
                 clock, setBacks, unborn>>

\* idle() hands the callbacks to schedule()
scheduleCbs(w) ==
  /\ cbs[w] # {}
  /\ cbs' = [cbs EXCEPT ![w] = {}]
  /\ now_ms' = [now_ms EXCEPT ![w] = 0]
  /\ UNCHANGED <<m_timers, m_next, m_ms, m_recurring, m_cb, m_previouseTime, clock,
                 setBacks, unborn>>

Idle(w) == readClock(w) \/ listExpiredCb(w) \/ listNothing(w) \/ scheduleCbs(w)

Client(t) ==
  \/ \E ms \in Periods, recurring \in BOOLEAN : addTimer(t, ms, recurring)
  \/ cancel(t) \/ refresh(t)
  \/ \E ms \in Periods, from_now \in BOOLEAN : reset(t, ms, from_now)

Next ==
  \/ tick \/ setBack
  \/ \E t \in Timers : Client(t)
  \/ \E w \in Workers : Idle(w)

Spec == Init /\ [][Next]_vars

(* Time goes on, and the workers keep looking at the timers.               *)
FairSpec == Spec /\ WF_vars(tick) /\ \A w \in Workers : WF_vars(Idle(w))

-----------------------------------------------------------------------------
(* Properties                                                              *)

Time == 0..(2 * MaxTime)

(* The types; a start time m_next - m_ms, which reset() computes without a
   sign, is never negative.                                                *)
TypeOK ==
  /\ m_timers \subseteq Timers /\ unborn \subseteq Timers
  /\ m_next \in [Timers -> Time] /\ m_ms \in [Timers -> Periods \cup {0}]
  /\ m_recurring \in [Timers -> BOOLEAN] /\ m_cb \in [Timers -> BOOLEAN]
  /\ now_ms \in [Workers -> Time] /\ cbs \in [Workers -> SUBSET Timers]
  /\ clock \in 1..MaxTime /\ m_previouseTime \in 1..MaxTime
  /\ \A t \in Timers : m_next[t] >= m_ms[t]

(* As long as nobody sets the clock back, no callback is listed before its
   time: a stale reading of the clock makes it late, never early, unless the
   worker was stalled for more than an hour between its reading and the lock,
   which detectClockRollover takes for a clock that was set back.           *)
NotEarly ==
  [][setBacks' = 0 =>
       \A w \in Workers : clock <= now_ms[w] + Hour =>
         \A t \in cbs'[w] \ cbs[w] : m_next[t] <= clock]_vars

(* A one-shot timer leaves the set: it expires or is cancelled, whether or
   not the clock was set back.                                             *)
TimersExpire ==
  \A t \in Timers : t \in m_timers /\ ~m_recurring[t] ~> t \notin m_timers

=============================================================================
