----------------------------- MODULE NameServer -----------------------------
(***************************************************************************)
(* NameServerModule of Helens/ns/name_server_module.cc: a provider         *)
(* registers its node for a set of commands over its stream, and set()     *)
(* brings the difference to what the stream had registered before into the *)
(* directory, an NSDomain with an NSNodeSet per command (ns_protocol.cc).  *)
(* Requests and the end of a stream are handled by fibers on any thread;   *)
(* each of the many small locks covers one step.  One domain is modelled,  *)
(* and a node is registered over one stream: the stream stands for its id. *)
(***************************************************************************)
EXTENDS Naturals

CONSTANTS
  Streams,      \* connections of providers
  Cmds,         \* commands, natural numbers
  Infos,        \* what a provider may register: weight, positive, and cmds
  Handlers,     \* fibers that handle a request or the end of a stream
  MaxCalls,     \* bound on the requests and disconnections handled
  MaxObjects    \* bound on the NSDomain and on the NSNodeSet objects in use

noInfo == [weight |-> 0, cmds |-> {}]
nullptr == 0
Objects == 1..MaxObjects

VARIABLES
  connected,    \* streams whose socket is connected
  m_sessions,   \* what each stream has registered, or noInfo
  domain,       \* m_domains: the NSDomain object, or nullptr
  m_datas,      \* of the NSDomain objects: command to NSNodeSet, or nullptr
  members,      \* m_datas of the NSNodeSet objects: node to weight, or 0
  pc,
  stream, new_value,
  dels, news, comms,   \* the commands set() has yet to treat
  d, ns,        \* the objects a handler has in hand
  ending,       \* handlers called by innerClose
  calls,
  raced         \* two calls of set() have worked on the same thing at once

directory == <<domain, m_datas, members>>
work == <<dels, news, comms, d, ns>>
request == <<stream, new_value, ending, calls>>
vars == <<connected, m_sessions, directory, pc, request, work, raced>>

(* Providers may have registered before, one after the other. *)
Init ==
  /\ connected = Streams
  /\ m_sessions \in [Streams -> Infos \cup {noInfo}]
  /\ domain = IF \A s \in Streams : m_sessions[s] = noInfo THEN nullptr ELSE 1
  /\ m_datas = [o \in Objects |-> [c \in Cmds |->
       IF o = domain /\ \E s \in Streams : c \in m_sessions[s].cmds THEN c ELSE nullptr]]
  /\ members = [o \in Objects |-> [s \in Streams |->
       IF o \in m_sessions[s].cmds THEN m_sessions[s].weight ELSE 0]]
  /\ pc = [h \in Handlers |-> "idle"]
  /\ stream = [h \in Handlers |-> nullptr]
  /\ new_value = [h \in Handlers |-> noInfo]
  /\ dels = [h \in Handlers |-> {}]
  /\ news = [h \in Handlers |-> {}] /\ comms = [h \in Handlers |-> {}]
  /\ d = [h \in Handlers |-> nullptr] /\ ns = [h \in Handlers |-> nullptr]
  /\ ending = {} /\ calls = 0 /\ raced = FALSE

\* std::set is walked from its least element on
Least(S) == CHOOSE x \in S : \A y \in S : x <= y

Goto(h, label) == pc' = [pc EXCEPT ![h] = label]

(* What set() turns to with these commands left. *)
Phase(del, new, comm) ==
  CASE del # {} -> "dels"
    [] del = {} /\ new # {} -> "news"
    [] del = {} /\ new = {} /\ comm # {} -> "comms"
    [] OTHER -> "store"

(* Objects nobody refers to, of which new takes one. *)
Domains == {domain} \cup {d[h] : h \in Handlers}
FreeDomains == Objects \ Domains
NodeSets == {ns[h] : h \in Handlers} \cup {m_datas[o][c] : o \in Domains \ {nullptr}, c \in Cmds}
FreeNodeSets == Objects \ NodeSets

(***************************************************************************)
(* Another call of set() is under way for the same stream, or has to       *)
(* delete or create what this one adds or deletes.  A call that only adds  *)
(* to a set that is there already gets in nobody's way.                    *)
(***************************************************************************)
Active(h) == pc[h] \notin {"idle", "close"}
Exists(c) == domain # nullptr /\ m_datas[domain][c] # nullptr
Clash(h, k, dropped, added) ==
  \/ stream[k] = stream[h]
  \/ domain = nullptr /\ added # {} /\ news[k] \cup comms[k] # {}
  \/ \E c \in Cmds :
       \/ c \in dropped \cap (dels[k] \cup news[k] \cup comms[k])
       \/ c \in added \cap dels[k]
       \/ c \in added \cap (news[k] \cup comms[k]) /\ ~Exists(c)

----------------------------------------------------------------------------
(* handleRegister with valid infos, or with a list of none, up to set()'s  *)
(* look at isConnected; and onDisconnect, which innerClose calls before it *)
(* closes the socket.                                                      *)
Start(h, s, info) ==
  /\ pc[h] = "idle" /\ \A k \in Handlers : pc[k] = "idle" => h <= k
  /\ calls < MaxCalls /\ calls' = calls + 1
  /\ stream' = [stream EXCEPT ![h] = s]
  /\ new_value' = [new_value EXCEPT ![h] = info]
  /\ Goto(h, "get")
  /\ UNCHANGED <<connected, m_sessions, directory, work, raced>>

handleRegister(h, s, info) ==
  /\ Start(h, s, IF s \in connected THEN info ELSE noInfo)
  /\ UNCHANGED ending

onDisconnect(h, s) ==
  /\ s \in connected
  /\ Start(h, s, noInfo)
  /\ ending' = ending \cup {h}

(* A request is refused: handleRequest closes the stream, and nobody calls *)
(* onDisconnect, since innerClose then finds it closed.                    *)
refuse(s) ==
  /\ s \in connected /\ calls < MaxCalls
  /\ connected' = connected \ {s} /\ calls' = calls + 1
  /\ UNCHANGED <<m_sessions, directory, pc, stream, new_value, ending,
                 work, raced>>

(* set() reads the session and computes the difference.                    *)
diff(h) ==
  LET old == m_sessions[stream[h]]
      new == new_value[h]
      same == IF old.weight # new.weight THEN old.cmds \cap new.cmds ELSE {}
  IN /\ pc[h] = "get"
     /\ dels' = [dels EXCEPT ![h] = old.cmds \ new.cmds]
     /\ news' = [news EXCEPT ![h] = new.cmds \ old.cmds]
     /\ comms' = [comms EXCEPT ![h] = same]
     /\ Goto(h, Phase(dels'[h], news'[h], comms'[h]))
     /\ raced' = (raced \/ \E k \in Handlers \ {h} : Active(k)
                             /\ Clash(h, k, old.cmds \ new.cmds, (new.cmds \ old.cmds) \cup same))
     /\ UNCHANGED <<connected, m_sessions, directory, stream, new_value, d, ns, ending, calls>>

(* m_domains->get, once for the deletions, once for the additions and once *)
(* for the changes of weight; a domain that is missing is created.         *)
getDomain(h) ==
  /\ pc[h] \in {"dels", "news", "comms"}
  /\ IF pc[h] = "comms"
       THEN news' = [news EXCEPT ![h] = comms[h]] /\ comms' = [comms EXCEPT ![h] = {}]
       ELSE UNCHANGED <<news, comms>>
  /\ IF domain # nullptr
       THEN /\ d' = [d EXCEPT ![h] = domain]
            /\ Goto(h, IF pc[h] = "dels" THEN "del" ELSE "add")
            /\ UNCHANGED <<m_datas, dels>>
       ELSE IF pc[h] = "dels"
       THEN /\ dels' = [dels EXCEPT ![h] = {}]
            /\ Goto(h, Phase({}, news[h], comms[h]))
            /\ UNCHANGED <<m_datas, d>>
       ELSE /\ FreeDomains # {}
            /\ d' = [d EXCEPT ![h] = Least(FreeDomains)]
            /\ m_datas' = [m_datas EXCEPT ![Least(FreeDomains)] = [c \in Cmds |-> nullptr]]
            /\ Goto(h, "addDomain")
            /\ UNCHANGED dels
  /\ UNCHANGED <<connected, m_sessions, domain, members, request, ns, raced>>

addDomain(h) ==
  /\ pc[h] = "addDomain"
  /\ domain' = d[h]
  /\ Goto(h, "add")
  /\ UNCHANGED <<connected, m_sessions, m_datas, members, request, work, raced>>

(* NSDomain::del(cmd, id) of the least command left: get(cmd), ns->del(id), *)
(* ns->size() and del(cmd), each under its own lock.                       *)
NextDel(h, c) ==
  /\ dels' = [dels EXCEPT ![h] = @ \ {c}]
  /\ ns' = [ns EXCEPT ![h] = nullptr]
  /\ Goto(h, IF dels[h] = {c} THEN Phase({}, news[h], comms[h]) ELSE "del")

delGet(h) ==
  LET c == Least(dels[h])
      found == m_datas[d[h]][c]
  IN /\ pc[h] = "del"
     /\ IF found = nullptr
          THEN NextDel(h, c)
          ELSE ns' = [ns EXCEPT ![h] = found] /\ Goto(h, "delNode") /\ UNCHANGED dels
     /\ UNCHANGED <<connected, m_sessions, directory, request, news, comms, d, raced>>

delNode(h) ==
  /\ pc[h] = "delNode"
  /\ members' = [members EXCEPT ![ns[h]][stream[h]] = 0]
  /\ Goto(h, "delSize")
  /\ UNCHANGED <<connected, m_sessions, domain, m_datas, request, work, raced>>

\* mutant: the command goes with its first node
delSizeUnread(h) ==
  /\ pc[h] = "delSize"
  /\ Goto(h, "delCmd")
  /\ UNCHANGED <<connected, m_sessions, directory, request, work, raced>>

delSize(h) ==
  /\ pc[h] = "delSize"
  /\ IF \A s \in Streams : members[ns[h]][s] = 0
       THEN Goto(h, "delCmd") /\ UNCHANGED <<dels, ns>>
       ELSE NextDel(h, Least(dels[h]))
  /\ UNCHANGED <<connected, m_sessions, directory, request, news, comms, d, raced>>

delCmd(h) ==
  /\ pc[h] = "delCmd"
  /\ m_datas' = [m_datas EXCEPT ![d[h]][Least(dels[h])] = nullptr]
  /\ NextDel(h, Least(dels[h]))
  /\ UNCHANGED <<connected, m_sessions, domain, members, request, news, comms, d, raced>>

(* NSDomain::add(cmd, node) of the least command left: get(cmd), add(ns)   *)
(* of a new set when there is none, ns->add(node).                         *)
addGet(h) ==
  LET found == m_datas[d[h]][Least(news[h])]
  IN /\ pc[h] = "add"
     /\ IF found # nullptr
          THEN /\ ns' = [ns EXCEPT ![h] = found]
               /\ Goto(h, "addNode")
               /\ UNCHANGED members
          ELSE /\ FreeNodeSets # {}
               /\ ns' = [ns EXCEPT ![h] = Least(FreeNodeSets)]
               /\ members' = [members EXCEPT ![Least(FreeNodeSets)] = [s \in Streams |-> 0]]
               /\ Goto(h, "addSet")
     /\ UNCHANGED <<connected, m_sessions, domain, m_datas, request, dels, news, comms, d, raced>>

addSet(h) ==
  /\ pc[h] = "addSet"
  /\ m_datas' = [m_datas EXCEPT ![d[h]][Least(news[h])] = ns[h]]
  /\ Goto(h, "addNode")
  /\ UNCHANGED <<connected, m_sessions, domain, members, request, work, raced>>

addNode(h) ==
  LET c == Least(news[h])
  IN /\ pc[h] = "addNode"
     /\ members' = [members EXCEPT ![ns[h]][stream[h]] = new_value[h].weight]
     /\ news' = [news EXCEPT ![h] = @ \ {c}]
     /\ ns' = [ns EXCEPT ![h] = nullptr]
     /\ Goto(h, IF news[h] = {c} THEN Phase({}, {}, comms[h]) ELSE "add")
     /\ UNCHANGED <<connected, m_sessions, domain, m_datas, request, dels, comms, d, raced>>

(* The end of set(): the session is stored or erased; innerClose then      *)
(* closes the socket.                                                      *)
store(h) ==
  /\ pc[h] = "store"
  /\ m_sessions' = [m_sessions EXCEPT ![stream[h]] = new_value[h]]
  /\ d' = [d EXCEPT ![h] = nullptr]
  /\ new_value' = [new_value EXCEPT ![h] = noInfo]
  /\ stream' = IF h \in ending THEN stream ELSE [stream EXCEPT ![h] = nullptr]
  /\ Goto(h, IF h \in ending THEN "close" ELSE "idle")
  /\ UNCHANGED <<connected, directory, dels, news, comms, ns, ending, calls, raced>>

innerClose(h) ==
  /\ pc[h] = "close"
  /\ connected' = connected \ {stream[h]}
  /\ stream' = [stream EXCEPT ![h] = nullptr]
  /\ ending' = ending \ {h}
  /\ Goto(h, "idle")
  /\ UNCHANGED <<m_sessions, directory, new_value, calls, work, raced>>

Next ==
  \/ \E h \in Handlers, s \in Streams :
       \/ \E info \in Infos \cup {noInfo} : handleRegister(h, s, info)
       \/ onDisconnect(h, s)
  \/ \E s \in Streams : refuse(s)
  \/ \E h \in Handlers :
       \/ diff(h) \/ getDomain(h) \/ addDomain(h)
       \/ delGet(h) \/ delNode(h) \/ delSize(h) \/ delCmd(h)
       \/ addGet(h) \/ addSet(h) \/ addNode(h)
       \/ store(h) \/ innerClose(h)

Spec == Init /\ [][Next]_vars

----------------------------------------------------------------------------
Listed(c, s) == IF Exists(c) THEN members[m_datas[domain][c]][s] ELSE 0
Registered(c, s) == IF c \in m_sessions[s].cmds THEN m_sessions[s].weight ELSE 0

(***************************************************************************)
(* What the directory lists is what the streams have registered, with the  *)
(* weight they gave last, whenever set() is not at work on it.  It is      *)
(* promised as long as no two calls of set() have deleted or created the   *)
(* same entry at once; calls that merely overlap are allowed.              *)
(***************************************************************************)
DirectoryAgrees ==
  ~raced /\ (\A h \in Handlers : ~Active(h)) =>
    \A c \in Cmds, s \in Streams : Listed(c, s) = Registered(c, s)

----------------------------------------------------------------------------
(* The inductive invariant behind it: what is so while no calls race.      *)

Deleting == {"del", "delNode", "delSize", "delCmd"}
Adding == {"add", "addSet", "addNode"}
Label == {"idle", "get", "dels", "news", "comms", "addDomain", "store", "close"}
           \cup Deleting \cup Adding

\* set() has computed its differences and is at work on them
Working(h) == Active(h) /\ pc[h] # "get"

TypeOK ==
  /\ m_sessions \in [Streams -> Infos \cup {noInfo}]
  /\ domain \in Objects \cup {nullptr}
  /\ m_datas \in [Objects -> [Cmds -> Objects \cup {nullptr}]]
  /\ members \in [Objects -> [Streams -> Nat]]
  /\ pc \in [Handlers -> Label]
  /\ stream \in [Handlers -> Streams \cup {nullptr}]
  /\ new_value \in [Handlers -> Infos \cup {noInfo}]
  /\ dels \in [Handlers -> SUBSET Cmds] /\ news \in [Handlers -> SUBSET Cmds]
  /\ comms \in [Handlers -> SUBSET Cmds]
  /\ d \in [Handlers -> Objects \cup {nullptr}] /\ ns \in [Handlers -> Objects \cup {nullptr}]

\* the commands set() has left, where it is
WorkInv(h) ==
  /\ Active(h) => stream[h] \in Streams
  /\ pc[h] \in {"idle", "close", "get", "store"} =>
       dels[h] = {} /\ news[h] = {} /\ comms[h] = {}
  /\ pc[h] \in Deleting \cup {"dels"} => dels[h] # {}
  /\ pc[h] \in Adding \cup {"news", "addDomain"} => dels[h] = {} /\ news[h] # {}
  /\ pc[h] = "comms" => dels[h] = {} /\ news[h] = {} /\ comms[h] # {}
  /\ dels[h] \cap new_value[h].cmds = {} /\ news[h] \cap comms[h] = {}
  /\ news[h] \cup comms[h] \subseteq new_value[h].cmds

\* the objects it has in hand are those of the directory, or nobody else's
HandInv(h) ==
  /\ pc[h] \in Deleting \cup Adding => d[h] = domain /\ domain # nullptr
  /\ pc[h] = "addDomain" =>
       domain = nullptr /\ d[h] # nullptr /\ \A c \in Cmds : m_datas[d[h]][c] = nullptr
  /\ pc[h] \in {"delNode", "delSize", "delCmd"} =>
       ns[h] # nullptr /\ ns[h] = m_datas[domain][Least(dels[h])]
  /\ pc[h] = "addNode" => ns[h] # nullptr /\ ns[h] = m_datas[domain][Least(news[h])]
  /\ pc[h] = "addSet" =>
       /\ ns[h] # nullptr /\ m_datas[domain][Least(news[h])] = nullptr
       /\ \A c \in Cmds : m_datas[domain][c] # ns[h]
       /\ \A k \in Handlers \ {h} : ns[k] # ns[h]
  /\ pc[h] \in {"addSet", "delCmd"} => \A s \in Streams : members[ns[h]][s] = 0

\* two calls keep out of each other's way
PairInv(h, k) ==
  /\ Working(h) /\ Working(k) => stream[h] # stream[k]
  /\ dels[h] \cap (dels[k] \cup news[k] \cup comms[k]) = {}
  /\ \A c \in (news[h] \cup comms[h]) \cap (news[k] \cup comms[k]) : Exists(c)
  /\ domain = nullptr => news[h] \cup comms[h] = {} \/ news[k] \cup comms[k] = {}

\* a command has a set of its own
SetInv ==
  domain # nullptr =>
    \A c, e \in Cmds : m_datas[domain][c] = m_datas[domain][e] /\ Exists(c) => c = e

\* how far set() has come with a command
Brought(h, c) ==
  IF c \in dels[h] THEN pc[h] \in {"delSize", "delCmd"} /\ c = Least(dels[h])
                   ELSE c \notin news[h] \cup comms[h]

Wanted(h, c) == IF c \in new_value[h].cmds THEN new_value[h].weight ELSE 0

ListInv ==
  /\ \A s \in Streams : (\A h \in Handlers : Working(h) => stream[h] # s) =>
       \A c \in Cmds : Listed(c, s) = Registered(c, s)
  /\ \A h \in Handlers : Working(h) =>
       \A c \in Cmds : Listed(c, stream[h]) =
         IF Brought(h, c) THEN Wanted(h, c) ELSE Registered(c, stream[h])

DirectoryInv ==
  ~raced =>
    /\ TypeOK /\ SetInv /\ ListInv
    /\ \A h \in Handlers : WorkInv(h) /\ HandInv(h)
    /\ \A h \in Handlers : \A k \in Handlers \ {h} : PairInv(h, k)

=============================================================================
