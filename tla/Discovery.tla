----------------------------- MODULE Discovery -----------------------------
(***************************************************************************)
(* Service discovery and load balancing, for one queried service:          *)
(* ZKServiceDiscovery (Helens/streams/service_discovery.cc) keeps the list *)
(* of the service's providers in m_datas, SDLoadBalance                    *)
(* (Helens/streams/load_balance.cc) a balancer with one item, that is one  *)
(* connection, for each of them.  Two threads bring news of the list: the  *)
(* completion thread of the ZooKeeper client, which handles one event at a *)
(* time, and the worker that runs the callback of the recurring timer.     *)
(* ZooKeeper itself is external.                                           *)
(***************************************************************************)
EXTENDS Naturals, Sequences

CONSTANTS
  Ids,          \* providers of the service
  MaxChanges,   \* bound on how often a provider comes or goes
  MaxExpiries   \* bound on how often the ZooKeeper session expires

Threads == {"watch", "timer"}
LBs == 1..3                        \* the balancers, one more than are ever made
Nodes == {"providers", "consumers"}

VARIABLES
  zk,           \* ZooKeeper: the providers registered under the service
  own,          \* the ephemeral nodes of this process
  watching,     \* a child watch is set on the service
  session,      \* of the ZooKeeper client
  events,       \* what it has to tell onWatch
  changes,
  expiries,
  pc,
  vals,         \* getChildren's vals, later new_value
  old,          \* the list that the swap took out, old_value
  lb,           \* the balancer onServiceChange works on, 0 if none
  m_datas,      \* the discovery's list of the service
  table,        \* the balancers: ids that have an item (LoadBalance::m_datas)
  current,      \* SDLoadBalance::m_datas: the service's balancer, 0 if none
  made,         \* balancers created
  failed,       \* providers without an item, as m_cb made no stream
  crossed       \* providers whose last change met another on its way, see swap

zkVars == <<zk, own, watching, session, events, changes, expiries>>
threadVars == <<pc, vals, old, lb>>
lbVars == <<table, current, made, failed>>
vars == <<zkVars, threadVars, m_datas, lbVars, crossed>>

Init ==
  /\ zk = {} /\ own = {} /\ watching = FALSE /\ session = "connecting"
  /\ events = <<>> /\ changes = 0 /\ expiries = 0
  /\ pc = [t \in Threads |-> "idle"]
  /\ vals = [t \in Threads |-> {}] /\ old = [t \in Threads |-> {}]
  /\ lb = [t \in Threads |-> 0]
  /\ m_datas = {}
  /\ table = [b \in LBs |-> {}]
  /\ current = 0 /\ made = 0 /\ failed = {} /\ crossed = {}

Goto(t, label) == pc' = [pc EXCEPT ![t] = label]

-----------------------------------------------------------------------------
(* ZooKeeper                                                               *)

\* a provider comes or goes; a watch fires once
zkChange(i) ==
  /\ changes < MaxChanges
  /\ changes' = changes + 1
  /\ zk' = (IF i \in zk THEN zk \ {i} ELSE zk \cup {i})
  /\ events' = (IF watching THEN Append(events, "CHILD") ELSE events)
  /\ watching' = FALSE
  /\ UNCHANGED <<own, session, expiries, threadVars, m_datas, lbVars, crossed>>

zkConnect ==
  /\ session = "connecting"
  /\ session' = "connected"
  /\ events' = Append(events, "SESSION")
  /\ UNCHANGED <<zk, own, watching, changes, expiries, threadVars, m_datas, lbVars, crossed>>

\* the server drops the session's ephemeral nodes and watches
zkExpire ==
  /\ session = "connected" /\ expiries < MaxExpiries
  /\ expiries' = expiries + 1
  /\ session' = "expired"
  /\ own' = {} /\ watching' = FALSE
  /\ events' = Append(events, "EXPIRED")
  /\ UNCHANGED <<zk, changes, threadVars, m_datas, lbVars, crossed>>

-----------------------------------------------------------------------------
(* The two ways in                                                         *)

\* the first step of the handler of an event
Handler(event) == IF event = "SESSION" THEN "register" ELSE "read"

\* mutant: the handle is not opened again
onWatchOnly ==
  /\ pc["watch"] = "idle" /\ events # <<>>
  /\ events' = Tail(events)
  /\ IF Head(events) = "EXPIRED" THEN pc' = pc ELSE Goto("watch", Handler(Head(events)))
  /\ UNCHANGED <<zk, own, watching, session, changes, expiries, vals, old, lb, m_datas,
                 lbVars, crossed>>

\* an expired session is closed, with the events it still had, and reopened
onWatch ==
  /\ pc["watch"] = "idle" /\ events # <<>>
  /\ IF Head(events) = "EXPIRED"
       THEN pc' = pc /\ session' = "connecting" /\ events' = <<>>
       ELSE /\ Goto("watch", Handler(Head(events)))
            /\ events' = Tail(events) /\ session' = session
  /\ UNCHANGED <<zk, own, watching, changes, expiries, vals, old, lb, m_datas, lbVars,
                 crossed>>

\* every 60 s
onTimer ==
  /\ pc["timer"] = "idle"
  /\ Goto("timer", "register")
  /\ UNCHANGED <<zkVars, vals, old, lb, m_datas, lbVars, crossed>>

-----------------------------------------------------------------------------
(* onZKConnect and getChildren, on either thread                           *)

\* create() succeeds or finds the node; without a session it fails, which
\* only the return value tells
create(t, here, node, next) ==
  /\ pc[t] = here
  /\ own' = (IF session = "connected" THEN own \cup {node} ELSE own)
  /\ Goto(t, next)
  /\ UNCHANGED <<zk, watching, session, events, changes, expiries, vals, old, lb, m_datas,
                 lbVars, crossed>>

registerInfo(t) == create(t, "register", "providers", "query")

queryInfo(t) == create(t, "query", "consumers", "read")

\* mutant: an empty list is taken for a failed query
getChildrenSome(t) ==
  /\ pc[t] = "read"
  /\ IF session = "connected"
       THEN /\ vals' = [vals EXCEPT ![t] = zk]
            /\ watching' = TRUE
            /\ Goto(t, IF zk = {} THEN "idle" ELSE "swap")
       ELSE Goto(t, "idle") /\ UNCHANGED <<vals, watching>>
  /\ UNCHANGED <<zk, own, session, events, changes, expiries, old, lb, m_datas, lbVars,
                 crossed>>

\* m_client->getChildren: the list, and a watch for its next change
getChildren(t) ==
  /\ pc[t] = "read"
  /\ IF session = "connected"
       THEN /\ vals' = [vals EXCEPT ![t] = zk]
            /\ watching' = TRUE
            /\ Goto(t, "swap")
       ELSE Goto(t, "idle") /\ UNCHANGED <<vals, watching>>
  /\ UNCHANGED <<zk, own, session, events, changes, expiries, old, lb, m_datas, lbVars,
                 crossed>>

\* t has replaced the list and not yet told the balancer
InFlight(t) == pc[t] \in {"find", "create", "update"}

\* the providers that t's callback adds or deletes
Difference(t) == (old[t] \ vals[t]) \cup (vals[t] \ old[t])
OnTheirWay == UNION {Difference(t) : t \in {u \in Threads : InFlight(u)}}

\* a provider that changes while an earlier change of it is on its way is
\* crossed, one that changes otherwise no longer is
Cross(change) ==
  /\ crossed' = (crossed \ change) \cup (change \cap OnTheirWay)
  /\ failed' = failed \ change

\* mutant: m_cb gets the new list twice
swapCopies(t) ==
  /\ pc[t] = "swap"
  /\ m_datas' = vals[t]
  /\ old' = [old EXCEPT ![t] = vals[t]]
  /\ Cross((m_datas \ vals[t]) \cup (vals[t] \ m_datas))
  /\ Goto(t, "find")
  /\ UNCHANGED <<zkVars, vals, lb, table, current, made>>

\* m_datas[domain][service].swap(infos) under the lock; m_cb after it
swap(t) ==
  /\ pc[t] = "swap"
  /\ m_datas' = vals[t]
  /\ old' = [old EXCEPT ![t] = m_datas]
  /\ Cross((m_datas \ vals[t]) \cup (vals[t] \ m_datas))
  /\ Goto(t, "find")
  /\ UNCHANGED <<zkVars, vals, lb, table, current, made>>

-----------------------------------------------------------------------------
(* onServiceChange                                                         *)

\* mutant: the balancer is looked for where it is not
findNone(t) ==
  /\ pc[t] = "find"
  /\ lb' = lb
  /\ Goto(t, "create")
  /\ UNCHANGED <<zkVars, vals, old, m_datas, lbVars, crossed>>

\* get(domain, service, true) looks under the read lock
find(t) ==
  /\ pc[t] = "find"
  /\ lb' = [lb EXCEPT ![t] = current]
  /\ Goto(t, IF current = 0 THEN "create" ELSE "update")
  /\ UNCHANGED <<zkVars, vals, old, m_datas, lbVars, crossed>>

Table == IF current = 0 THEN {} ELSE table[current]

\* what the balancer that get() returns has, or is about to be told of
Lost == Table \cup UNION {Difference(u) : u \in {v \in Threads : pc[v] = "update"}}

\* ... and stores a new balancer under the write lock, whatever is there by now
createLoadBalance(t) ==
  /\ pc[t] = "create"
  /\ made' = made + 1
  /\ current' = made + 1
  /\ lb' = [lb EXCEPT ![t] = made + 1]
  /\ crossed' = crossed \cup (Lost \ Difference(t))
  /\ Goto(t, "update")
  /\ UNCHANGED <<zkVars, vals, old, m_datas, table, failed>>

\* the differences of the two lists are applied under the balancer's lock: an
\* item and a stream for each new provider (m_cb may fail for some, F), the
\* items of those that left go, and are closed
update(t) ==
  /\ pc[t] = "update"
  /\ \E F \in SUBSET (vals[t] \ old[t]) :
       /\ table' = [table EXCEPT ![lb[t]] = (@ \ (old[t] \ vals[t])) \cup ((vals[t] \ old[t]) \ F)]
       /\ failed' = failed \cup (F \ (table[lb[t]] \cup crossed))
  /\ Goto(t, "idle")
  /\ vals' = [vals EXCEPT ![t] = {}] /\ old' = [old EXCEPT ![t] = {}]
  /\ lb' = [lb EXCEPT ![t] = 0]
  /\ UNCHANGED <<zkVars, m_datas, current, made, crossed>>

-----------------------------------------------------------------------------

GetChildren(t) == getChildren(t) \/ swap(t) \/ find(t) \/ createLoadBalance(t) \/ update(t)

Thread(t) ==
  \/ registerInfo(t) \/ queryInfo(t) \/ GetChildren(t)
  \/ t = "watch" /\ onWatch
  \/ t = "timer" /\ onTimer

Next ==
  \/ \E i \in Ids : zkChange(i)
  \/ zkConnect \/ zkExpire
  \/ \E t \in Threads : Thread(t)

Spec == Init /\ [][Next]_vars

(* The two threads run, the timer recurs, and the client library connects.  *)
FairSpec == Spec /\ WF_vars(zkConnect) /\ \A t \in Threads : WF_vars(Thread(t))

-----------------------------------------------------------------------------
(* Properties                                                              *)

(* onServiceChange gets differences of lists, never the list, and its two
   callers may come in either order.  Whatever they do, each change of a
   provider that is not on its way has reached the balancer that get()
   returns: it has an item for each provider listed, unless m_cb failed for it.
   Excepted is a provider that two callbacks were about at once, or whose
   item went to a balancer that get() then replaced, and only until the
   provider's next change.                                                 *)
BalancerFollowsList ==
  \A i \in Ids \ (crossed \cup OnTheirWay) : i \in Table <=> i \in m_datas \ failed

(* get() may store a balancer over another, whose items nobody updates or
   closes then.  This happens once at most, however often the list changes:
   of all balancers made one at most is not the one that get() returns.    *)
OneLeftBehind == \A b, c \in 1..made : b # current /\ c # current => b = c

(* A stale list may overwrite a newer one, and the watch that told of the
   change is used up; the timer makes up for it: once the providers stay the
   same, so does the list, and it is theirs.                                *)
ListSettles == <>[](m_datas = zk)

(* The nodes of this process are there again after each expired session.   *)
NodesReturn == <>[](own = Nodes)

=============================================================================
