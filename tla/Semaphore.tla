------------------------------ MODULE Semaphore ------------------------------
(***************************************************************************)
(* What a counting semaphore promises its clients, whatever the scheduler  *)
(* does underneath: permits are neither lost nor invented, and a client    *)
(* that waits while permits keep coming gets one.  FiberSemaphore.tla is   *)
(* shown to implement it.                                                  *)
(***************************************************************************)
EXTENDS Naturals

CONSTANTS Clients, InitialPermits

VARIABLES
  permits,   \* released and not yet acquired
  blocked    \* clients inside wait()

svars == <<permits, blocked>>

SInit == permits = InitialPermits /\ blocked = {}

\* a call that finds a permit returns at once
Acquire(c) ==
  /\ c \notin blocked
  /\ permits > 0
  /\ permits' = permits - 1
  /\ blocked' = blocked

\* a caller may have to wait although a permit is on its way to another
Block(c) ==
  /\ c \notin blocked
  /\ blocked' = blocked \cup {c}
  /\ permits' = permits

Grant(c) ==
  /\ c \in blocked
  /\ permits > 0
  /\ permits' = permits - 1
  /\ blocked' = blocked \ {c}

Release ==
  /\ permits' = permits + 1
  /\ blocked' = blocked

SNext ==
  \/ \E c \in Clients : Acquire(c) \/ Block(c) \/ Grant(c)
  \/ Release

SSafe == SInit /\ [][SNext]_svars

SFair == \A c \in Clients : SF_svars(Grant(c))

SSpec == SSafe /\ SFair

=============================================================================
