---------------------------- MODULE NetworkParts ----------------------------
(***************************************************************************)
(* Hook and NameServer side by side for TLC: the calls on a socket and a   *)
(* service that is reached by them.  The models share no state, so a       *)
(* behaviour is one of one of them, as part says, and the states are the   *)
(* sum of theirs.                                                          *)
(***************************************************************************)
EXTENDS Hook, Integers, Sequences

CONSTANTS Streams, Cmds, Infos, Handlers, MaxSets, MaxObjects

(* The objects of the directory at the beginning are named after commands. *)
ASSUME ServerAssumption ==
  /\ MaxObjects \in Nat \ {0} /\ Cmds \subseteq 1..MaxObjects
  /\ Infos \subseteq [weight : Nat \ {0}, cmds : SUBSET Cmds]

VARIABLES
  part,         \* the part that takes steps
  connected, m_sessions, domain, m_datas, members, pcOfSet, stream, new_value, dels, news,
  comms, d, ns, ending, sets, raced

(* One command or both, and a change of weight. *)
Registrations == [weight : {1}, cmds : {{1}, {1, 2}}] \cup [weight : {2}, cmds : {{1, 2}}]

N == INSTANCE NameServer WITH MaxCalls <- MaxSets, pc <- pcOfSet, calls <- sets

server == <<connected, m_sessions, domain, m_datas, members, pcOfSet, stream, new_value, dels,
            news, comms, d, ns, ending, sets, raced>>
all == <<part, vars, server>>

(* Only the part that takes steps starts in each of its initial states.    *)
PartsInit ==
  /\ part \in {"hook", "server"}
  /\ Init /\ N!Init
  /\ part # "hook" => user = CHOOSE f \in Fibers : TRUE
  /\ part # "server" => m_sessions = [s \in Streams |-> N!noInfo]

PartsNext ==
  \/ part = "hook" /\ Next /\ UNCHANGED <<part, server>>
  \/ part = "server" /\ N!Next /\ UNCHANGED <<part, vars>>

(* The fairness of the hooked calls; the name server promises nothing that *)
(* needs any.                                                              *)
PartsSpec ==
  /\ PartsInit /\ [][PartsNext]_all
  /\ WF_vars(part = "hook" /\ ~asserted /\ triggerEvent)
  /\ \A f \in Fibers : WF_vars(part = "hook" /\ ~asserted /\ DoIo(f))
  /\ \A c \in 1..MaxCalls : WF_vars(part = "hook" /\ ~asserted /\ TimerStep(c))

(* NameServerModule's directory lists what is registered, see NameServer.  *)
DirectoryAgrees == N!DirectoryAgrees

=============================================================================
