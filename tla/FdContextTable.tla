--------------------------- MODULE FdContextTable ---------------------------
(***************************************************************************)
(* The table m_fdContexts of IOManager (Helens/iomanager.cc): contexts are *)
(* found by fd under the read lock of m_mutex, and addEvent enlarges the   *)
(* table under the write lock when the fd is beyond its end.  Between the  *)
(* two locks other threads may enlarge it too.                             *)
(***************************************************************************)
EXTENDS Naturals, FiniteSets

CONSTANTS Threads, Fds, none,
          InitialSize    \* 32 in the code

VARIABLES
  size,        \* m_fdContexts.size()
  gen,         \* which FdContext of that fd the table holds, or will make
  growing,     \* the fd for which a thread is between the two locks, or none
  registered   \* pairs of an fd and the context that holds its registration

vars == <<size, gen, growing, registered>>

Init ==
  /\ size = InitialSize
  /\ gen = [fd \in Fds |-> 0]
  /\ growing = [t \in Threads |-> none]
  /\ registered = {}

\* resize() drops the pointers beyond the new end and makes missing contexts
contextResize(n) ==
  /\ size' = n
  /\ gen' = [fd \in Fds |-> IF n <= fd /\ fd < size THEN gen[fd] + 1 ELSE gen[fd]]

\* addEvent, fd within the table
addEvent(t, fd) ==
  /\ growing[t] = none
  /\ fd < size
  /\ registered' = registered \cup {<<fd, gen[fd]>>}
  /\ UNCHANGED <<size, gen, growing>>

\* addEvent, fd beyond the end: the read lock is given up
addEventBeyond(t, fd) ==
  /\ growing[t] = none
  /\ ~(fd < size)
  /\ growing' = [growing EXCEPT ![t] = fd]
  /\ UNCHANGED <<size, gen, registered>>

\* the write lock is held: the table gets room for 1.5 fd contexts
grow(t) ==
  /\ growing[t] # none
  /\ contextResize((growing[t] * 3) \div 2)
  /\ registered' = registered \cup {<<growing[t], gen'[growing[t]]>>}
  /\ growing' = [growing EXCEPT ![t] = none]

\* delEvent, cancelEvent and cancelAll: false if the fd is beyond the end
endEvent(t, fd) ==
  /\ growing[t] = none
  /\ fd < size
  /\ registered' = registered \ {<<fd, gen[fd]>>}
  /\ UNCHANGED <<size, gen, growing>>

Next == \E t \in Threads :
  \/ \E fd \in Fds : addEvent(t, fd) \/ addEventBeyond(t, fd) \/ endEvent(t, fd)
  \/ grow(t)

Spec == Init /\ [][Next]_vars

-----------------------------------------------------------------------------
(* Properties                                                              *)

(* A context with a registration can be found again: its index is inside
   the table and the table holds that very context, so that a timeout or a
   close() can still reach the waiting fiber.                              *)
ContextKept == \A r \in registered : r[1] < size /\ r[2] = gen[r[1]]

=============================================================================
