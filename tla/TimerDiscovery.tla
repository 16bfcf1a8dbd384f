--------------------------- MODULE TimerDiscovery ---------------------------
(***************************************************************************)
(* Timer, Discovery and ByteArray side by side for TLC.  They share no     *)
(* state: the discovery needs of its timer that it recurs, the buffer is   *)
(* used by one fiber.  So a behaviour is one of one of them, as part says, *)
(* and the states are the sum of theirs instead of the product.            *)
(***************************************************************************)
EXTENDS Discovery

CONSTANTS
  Timers, Workers, Periods, MaxTime, Hour, MaxSetBacks,
  BaseSize, Byte, MaxNodes, MaxLength

ASSUME TimersAssumption ==
  /\ Periods \subseteq Nat
  /\ MaxTime \in Nat /\ Hour \in Nat /\ MaxSetBacks \in Nat

(* A node of a ByteArray holds at least one byte.                          *)
ASSUME ArrayAssumption == BaseSize \in Nat \ {0} /\ MaxLength \in Nat

VARIABLES
  part,         \* the part that takes steps
  m_timers, m_next, m_ms, m_recurring, m_cb, m_previouseTime, now_ms, cbs, clock, setBacks,
  unborn,
  m_position, m_size, m_cur, nodes, moved, crashed

T == INSTANCE Timer
B == INSTANCE ByteArray

timers == <<m_timers, m_next, m_ms, m_recurring, m_cb, m_previouseTime, now_ms, cbs, clock,
            setBacks, unborn>>
bytearray == <<m_position, m_size, m_cur, nodes, moved, crashed>>
all == <<part, vars, timers, bytearray>>

(* Only the part that takes steps starts in each of its initial states.    *)
PartsInit ==
  /\ part \in {"timer", "discovery", "bytearray"}
  /\ Init /\ T!Init /\ B!Init
  /\ part # "bytearray" => nodes[1] = [p \in B!Places |-> CHOOSE b \in Byte : TRUE]

PartsNext ==
  \/ part = "timer" /\ T!Next /\ UNCHANGED <<part, vars, bytearray>>
  \/ part = "discovery" /\ Next /\ UNCHANGED <<part, timers, bytearray>>
  \/ part = "bytearray" /\ B!Next /\ UNCHANGED <<part, vars, timers>>
  \/ part = "bytearray" /\ crashed /\ UNCHANGED all      \* the program is over, no deadlock

(* The fairness of the parts; the buffer promises nothing that needs any.  *)
PartsSpec ==
  /\ PartsInit /\ [][PartsNext]_all
  /\ WF_timers(part = "timer" /\ T!tick)
  /\ \A w \in Workers : WF_timers(part = "timer" /\ T!Idle(w))
  /\ WF_vars(part = "discovery" /\ zkConnect)
  /\ \A t \in Threads : WF_vars(part = "discovery" /\ Thread(t))

(* listExpiredCb lists no callback before its time, see Timer.             *)
NotEarly == T!NotEarly

(* A timer that is due is listed in the end, see Timer.                    *)
TimersExpire == part = "timer" => T!TimersExpire

(* ZKServiceDiscovery registers itself again after an expired session: see
   NodesReturn in Discovery.                                               *)
RegisteredAgain == part = "discovery" => NodesReturn

(* The nodes of a ByteArray are one sequence of bytes, see ByteArray.      *)
ImplementsBuffer == B!ImplementsBuffer

=============================================================================
