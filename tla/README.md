# A TLA+ model of Helens

Helens is a C++ server framework: an N:M fiber scheduler over `ucontext`, an
epoll-based IO scheduler on top of it, hooked system calls that make blocking code
run on fibers, and, above those, streams, an RPC protocol, HTTP, service discovery,
caches and database clients. This directory models the concurrent core, the part
everything else stands on, and those of the parts above it in which several threads or
fibers meet: streams and their requests, service discovery and load balancing, the name
server, the database threads and the Redis client, and the buffer all bytes pass through.

## The system and its parts

| part | state | operations | what makes it hard |
|---|---|---|---|
| `Fiber` | `m_state`, a stack, a callback | `swapIn`, `swapOut`, `call`, `back`, `reset`, `YieldToReady`, `YieldToHold`, `MainFunc` | a fiber is queued by its wake-up before it has left its stack |
| `Scheduler` | `m_fibers`, counters, flags | `schedule`, `run` on every thread, `switchTo`, `stop` | pins, several workers scanning one queue, termination |
| `IOManager` | `m_fdContexts`, `m_pendingEventCount`, epoll, the tickle pipe | `addEvent`, `delEvent`, `cancelEvent`, `cancelAll`, `idle`, `tickle` | edge triggering, results used after an unlock |
| `TimerManager` | ordered set of timers, `m_tickled`, `m_previouseTime` | `addTimer`, `cancel`, `refresh`, `reset`, `listExpiredCb` | a clock read before the lock, a clock that is set back |
| hooks | one `timer_info` per call, `FdMgr` | `do_io`, `connect_with_timeout`, `close`, `socket` | a timeout racing the event, `close()` during a call, reuse of a number |
| `FiberSemaphore`, `WorkerGroup` | permits and waiting fibers | `wait`, `tryWait`, `notify`; `schedule`, `doWork`, `waitAll` | the waiter switches out after the unlock |
| `AsyncSocketStream`, `RockStream` | `m_ctxs`, `m_queue`, `m_sem`, `m_waitSem`, the fields of a ctx | `start`, `doRead`, `doWrite`, `innerClose`, `onTimeOut`, `doRsp`, `close`; `request`, `sendMessage` | response, timer and loss of the connection race for one ctx |
| `ZKServiceDiscovery`, `SDLoadBalance` | the list of providers, the balancers and their items | `onWatch`, `onTimer`, `getChildren`, `registerInfo`; `onServiceChange`, `get`, `update` | two threads bring news, differences are applied after the unlock, sessions expire |
| `FoxThreadPool`, `FoxThread` | two queues, the free threads, references to lent ones | `dispatch`, `batchDispatch`, `check`, `releaseFoxThread`, `start`, `stop`, `read_cb` | nobody waits for work: whoever brings the second half must see the first |
| `FoxRedis` | a Ctx per command, hiredis' queue, the FCtx on the caller's stack | `cmd`, `pcmd`, `ConnectCb`, `DisconnectCb`, `CmdCb`, `EventCb` | a late reply must not follow a pointer to a stack that is gone |
| `ByteArray` | `m_position`, `m_size`, `m_cur`, the nodes | `write`, `read`, `setPosition`, `clear`, `addCapacity`, the buffers for a socket | borders of nodes, the end of the capacity |
| `NameServerModule` | `m_sessions`, domain, node sets | `handleRegister`, `onDisconnect`, `set`; `NSDomain::add`, `del` | many small locks; a handler per request |
| sockets, TCP server, HTTP, WebSocket, caches, containers, MySQL and SQLite, configuration, logging, modules | | | see *Not modelled* |

They interact as follows. A task enters the queue by `schedule`. A worker takes it
in `run` and switches to its fiber. The fiber comes back when it ends, when it
yields, or when it holds because it waits for something; what it waits for (an fd
event, a timer, a semaphore) has been told how to put it back into the queue. A
worker with nothing to do runs `idle`, which sleeps in `epoll_wait` until an event,
a tickle or the first timer, and queues what is due.

## Modules

| module | models | source |
|---|---|---|
| `Scheduler` | the queue, `run()` on each thread including the caller's, the fibers' life cycle, `stopping()` with its three separate reads, the wake-ups by timer and event | `scheduler.cc/h`, `fiber.cc/h`, parts of `iomanager.cc` |
| `SchedulerRunProofs` | the inductive invariant over the steps of `run()`, and the lemmas about the queue | |
| `SchedulerProofs` | the invariant over the other steps, and the theorems | |
| `IOManager` | registration and handling of fd events, epoll as an edge-triggered interest list | `iomanager.cc` |
| `FdContextTable` | the table of contexts and its growth | `iomanager.cc:136-158` |
| `Tickle` | who wakes a sleeping worker: `m_idleThreadCount`, the pipe, `m_tickled`, the timeout | `scheduler.cc`, `iomanager.cc`, `timer.cc` |
| `TickleProofs` | every timer is watched, for any number of workers, clients and timers | |
| `Timer` | the timer set against a clock that ticks and may be set back | `timer.cc` |
| `Hook` | the hooked calls on one descriptor number, with their timers, `close()` and reuse | `hook.cc`, `fd_manager.cc` |
| `FiberSemaphore` | `wait`, `tryWait`, `notify` | `mutex.cc` |
| `Semaphore` | what a semaphore promises; `FiberSemaphore` implements it | |
| `WorkerGroup` | `WorkerGroup` composed with `FiberSemaphore` | `worker.cc` |
| `WorkerGroupProofs` | the semaphore implements `Semaphore`; the group's permits are conserved, and what follows | |
| `AsyncSocketStream` | one stream with its reading and writing fiber, `start()`, reconnection, `close()`, and the callers of `request()` and `sendMessage()` | `streams/async_socket_stream.cc`, `rock/rock_stream.cc` |
| `AsyncSocketStreamProofs` | one answer, no false OK, nothing stuck, one session, for any number of callers | |
| `Discovery` | one queried service: ZooKeeper session, watch and timer, the list, the balancer | `streams/service_discovery.cc`, `streams/load_balance.cc` |
| `FoxThreadPool` | the pool with `advance` set, and the event loop of a thread | `db/fox_thread.cc` |
| `FoxRedis` | one connection and the fibers that send commands over it | `db/redis.cc` |
| `ByteArray` | the list of nodes, and transfers of a socket through it | `bytearray.cc`, `streams/socket_stream.cc` |
| `ByteBuffer` | what it promises: a sequence of bytes and a position | |
| `NameServer` | registrations over several streams, and the directory of one domain | `ns/name_server_module.cc`, `ns/ns_protocol.cc` |
| `TimerDiscovery`, `EventLoops`, `NetworkParts` | models side by side for TLC, see *Runs* | |
| `TimerDiscoveryProofs` | the balancer follows the list, for any providers and changes; no callback is listed early; `ByteArray` implements `ByteBuffer`, for any sizes | |
| `EventLoopsProofs` | counter, kernel and edges of `IOManager`; the FCtx of `FoxRedis`; for any threads, fibers and commands | |
| `NetworkPartsProofs` | wake-ups, timeouts, contexts and connects of `Hook`; the directory of `NameServer`; for any fibers, streams and commands | |

State variables have the names of the fields they stand for; actions have the names
of the functions, with one action per step when a function gives up a lock or
switches in the middle. An action is one critical section, with everything the code
does in it. Definitions whose comment begins with `mutant:` are not part of any
specification: they are the plausible bugs used to see that a property can fail.

Where a module takes another part for granted, it takes what that part's own module
shows: `FiberSemaphore` assumes of the scheduler that a queued fiber is resumed once
it has switched out (`Scheduler`: `FiberOnOneThread`, `CallbacksFinish`), `Hook` that
a registered and ready descriptor is triggered (`IOManager`: `ReadyIsServed`).

### How the state corresponds

`Scheduler`: `pc[w]` is the place of worker `w` in `run()` or `idle()`; `ft[w]` the
entry it has taken; `cb_fiber[w]`, `idle_fiber[w]` are run()'s local fibers. `armed[f]`
is the registration (timer or event) that will wake fiber `f`, `cbs[w]` what
`listExpiredCb` has taken and not yet queued. In the code that is a callback which schedules the
fiber when a worker runs it; the entry in the queue stands for both, so that the fiber comes back one
turn of `run()` earlier than it does, with the same single way to go on. Fibers for callbacks come from a finite
pool, `CbFibers`, with state `FREE` before `new` and after the last reference is gone.

`IOManager`: `results[w]` are the events worker `w` got from `epoll_wait` and has still
to handle; `interest`, `ready` and `edge` are the kernel's; `closed` holds the fds that were
closed while they were watched, by a `close_f` that a registration came before (finding 5). epoll
then forgets them, every `EPOLL_CTL_MOD` and `DEL` fails, and the functions return with the
context as it was: the registrations stay.

`Hook`: the model follows a single descriptor number through successive sockets. A `connect` may
succeed or fail at once, or be in progress. The
number of a call names its `timer_info`, so that `winfo.lock()` succeeds exactly while
that call is in progress.

`AsyncSocketStream`: the agents `read`, `write` and `start` are `doRead()`, `doWrite()` and
`start()`; `innerClose()` may be run by each and is a piece of code they share, `after` saying
where it returns. `at[c]` is the place of a caller in `request()` or `sendMessage()`; a request is
its own sequence number. `timer[r]` is the request's timer (armed, or in `onTimeOut`), `woken[r]`
counts how often its fiber was scheduled, `answer[r]` is what `request()` returned. The
assignments of `doRecv` to a ctx that is already out of the table are steps of their own
(`setResult`, `setResponse`), because the timer may answer in between. Four statements of
`innerClose()` are one step, `takeAll`: callers that add to `m_ctxs` or `m_queue` between them
look at nothing that the others change. A `doSend()` that throws ends the writer and leaves the
connection to the reader.

`Discovery`: `watch` is the completion thread of the ZooKeeper client, which handles one event at
a time, `timer` the worker with the callback of the recurring timer. From `swap` (the list, under its
lock) to `update` (the balancer, under its own) a thread is *on its way* with the difference of two
lists. `crossed` remembers the providers that changed again while an earlier change of theirs was on its
way, or whose item was in a balancer that `get()` replaced, until they change next; `failed` those
listed for which no stream could be made.

`FoxThreadPool`: an actor is a thread of the pool, a thread that dispatches, or the one that starts
the pool. `refs[t]` counts the `shared_ptr`s to a lent thread; the deleter of the last one calls
`releaseFoxThread`, which calls `check()` again. A `check()` inside a `check()` is not a stack of
them but the flag `nested`: when the inner loop ends the outer one may go on.

`FoxRedis`: `<<f, n>>` names the FCtx of fiber `f`'s `n`-th command and the Ctx made for it.
`fiber[f]` is `FCtx::fiber`, `pending` is hiredis' queue of replies to come, `timeout` the Ctx whose
timer has expired. `FoxRedisCluster` repeats the structure with another library.

`ByteArray`: `m_cur` is the number of a node, 0 for null. The loops over the nodes are given by
what they copy (`Stored`, `Fetched`) and where they end (`After`). New nodes hold what was in the
memory. A transfer of a socket may be shorter than its buffers, or fail after they were added. Each
operation looks at `m_cur->size`, and following a null `m_cur` sets `crashed`. `write` and the two
`get...Buffers` return before that when there is nothing to do; `read` does not, and as nothing is done
with the value when the size is 0 an optimizing build may or may not load it: both are in the model.

`NameServer`: a handler is a fiber that runs `handleRegister` or, called by `innerClose()` while the
socket is still open, `onDisconnect`; `pc[h]` is its place in `set()`. NSDomain and NSNodeSet
objects are numbers from a pool, since a handler may hold one that is in the directory no more. A
node is registered over one stream, so that the stream stands for the node's id. A refused request
closes the stream without `onDisconnect`. `raced` remembers that two calls of `set()` were at work
on the same stream, or one had to create or delete an entry the other was to touch.

## Runs

Models that share no state are checked side by side: `TimerDiscovery`, `EventLoops` and
`NetworkParts` extend one model, instantiate others, and have a variable that says which of them takes
the steps of a behaviour. The states are the sum of the models', not the product; the fairness and
the properties are those of the models, liveness under the premise that the model is the one that
takes steps.

| run | instance | what it shows |
|---|---|---|
| `sched` | 2 threads (one the caller's), 1 user fiber, 1 callback, 2 callback fibers, pins, 2 yields | a fiber has at most one wake-up and is on one stack; the assertions in `swapIn` and `reset` hold; each callback runs once and ends; `stop()` returns unless a task is pinned to a thread that has left `run()` |
| `sched_stop` | the same without a callback, violation | `stop()` may return with work left |
| `event_loops` | `IOManager`: 1 fd, reader and writer, 2 workers, an fd that may be closed while it is watched | counter, kernel and contexts agree; no edge of an open fd is lost; a registered client of a ready fd is resumed |
| | `FoxThreadPool`: 1 thread, 2 callers, 2 callbacks, `stop()` | a callback given to a started pool runs, unless the pool is stopped |
| | `FoxRedis`: 2 fibers, 2 commands each, 2 connections that fail or end | no reply, timer or queued command meets an FCtx that is gone; `cmd()` returns |
| `io_assert` | violation | `triggerEvent`'s assertion fails when one of two reported events has been withdrawn |
| `table_race` | 2 threads, violation | two threads growing the context table may drop a registered context |
| `tickle` | 2 workers, 1 client, timers | every timer is watched; every task is taken |
| `timer_discovery` | `Timer`: 1 timer, 2 workers, a clock that may be set back | nothing expires early; everything expires |
| | `Discovery`: 2 providers, 2 changes, 1 expired session | the balancer follows the list, provider by provider, whichever callback arrives first, except for providers crossed on the way; one balancer at most is left behind; the list becomes ZooKeeper's and the process registers itself again |
| | `ByteArray`: nodes of 2 bytes, up to 3 of them, transfers of 0 to 3 bytes | it implements `ByteBuffer`, whose one exception is a `read` of nothing at the end |
| `network_parts` | `Hook`: 2 fibers, 3 calls, 1 `close()` and reuse of the number | a waiting call has one wake-up; a timeout hits its own call; a new socket keeps its `FdCtx`; while the socket is open `connect()` returns 0 only when connected, and ready and registered calls go on |
| | `NameServer`: 2 streams, any earlier registrations, 2 further calls, 2 commands, 2 weights | the directory lists what the sessions say, unless two calls create or delete the same entry at once |
| `hook_assert`, `hook_timeout` | violations | a registration left behind by `close()`; a timer that fires before `addEvent` |
| `worker_group` | 3 submitters, `waitAll()`, 4 jobs, batches of 2 | the fiber semaphore implements `Semaphore`, fairness included; batch limit; nothing runs after `waitAll()`; `waitAll()` returns |
| `stream` | 1 request, 1 message, up to 3 calls of these and `start()`, `close()` at any time | a request is answered once and OK only if the peer answered; nothing is stuck in the queue; one session at a time; `request()` returns; both fibers end with the connection |

### Bounds

Two workers and a third party (a client, a timer callback, another fiber) are enough
for every race in this code: each of them is between a step that reads under one lock
and a step that acts under another, with one other actor in between. Two callback fibers
for one callback let a worker keep a spare one while another is on hold; four jobs for
two permits let two submitters come back before a third.
`MaxYields`, `MaxToggles`, `MaxPushes`, `MaxCalls`, `MaxCloses`, `MaxArrivals`, `MaxTime`,
`MaxSetBacks`, `MaxChanges`, `MaxExpiries`, `MaxLosses` and `MaxSets` bound how often the environment
acts; each is large enough for an actor to come back to a place it has been to, which is what stale
state needs. `NameServer` starts from any registrations made one after the other instead, so that two
calls suffice. `MaxObjects` is large enough for every object a handler can hold. Three nodes of two
bytes have a first, an inner and a last node and transfers that end at, before and behind a border.
The safety invariants, the action properties and the steps of the refinements are also proved, without
any of these bounds (*Proofs*). The 3000 ms, one hour and 32 entries of the code are
`MaxTimeout`, `Hour` and `InitialSize`, scaled down.

`CHECK_DEADLOCK FALSE` stands where the system may stop: a scheduler that has been
stopped, a process whose assertion failed, clients that have used up their bound or
wait for an event nobody is obliged to send.

### Fairness

Weak fairness of a worker's steps and of a running task: the kernel runs every thread,
and a task, by the framework's contract, ends or yields. Weak fairness of
`triggerEvent` and of timers: the peer answers in `Scheduler`'s runs (there a wake-up
stands for "what it waits for happens"), time goes on. `Scheduler` takes strong fairness
of `listExpiredCb`, because `idle()` reaches it again and again while a timer is due but
may be woken for other reasons in between. In `AsyncSocketStream` callers, fibers and timers go on;
the peer need not answer, and a connection need not end. In `Discovery` the two threads run, the timer
recurs and the client library connects again; ZooKeeper tells of changes only by the watch, and the
bound on changes makes "once the providers stay the same" come true. In `FoxThreadPool` threads run;
in `FoxRedis` fibers, the event loop and its timers do, while the server may hang, never connect or
never close. Nobody is obliged to call `notify()`, `schedule()`, `stop()` or to make a socket ready.

## What the runs found

1. `sched_stop`: `stopping()` reads timers, events and queue one after the other, and a
   `READY` fiber is in no counter between `--m_activeThreadCount` and its re-scheduling.
   `stop()` may therefore return with a task that will never be finished, against
   `doc/io-fiber.md:19`.
2. `io_assert`: `idle()` triggers every bit that `epoll_wait` reported, registered or not.
3. `table_race`: `addEvent` resizes the table without looking at its size again under the
   write lock, and may shrink it.
4. `hook_timeout`: the timer of a call is started before the event is registered; if it
   fires in between, the timeout is lost and the call waits without one.
5. `hook_assert`: a call that registers between `close()`'s `cancelAll` and `close_f` leaves
   its event in the `FdContext`; the next user of the number fails `addEvent`'s assertion.

Smaller observations that the models make precise: `tickle()` tests `m_idleThreadCount` before
a worker that found nothing has been counted, so that a task may wait for up to `MAX_TIMEOUT`
(`TasksAreTaken` shows that it is delay, not loss); `connect()` returns 0 when the socket is
closed under it by another fiber (`SO_ERROR` is still 0); a callback that throws in
`WorkerGroup::doWork` loses its permit and `waitAll()` then waits for ever, which is why
`WaitAllReturns` excepts it; a second caller of `waitAll()` returns at once; a task pinned to
a thread that has left `run()` keeps `stop()` from returning; a worker stalled for an hour
between `GetCurrentMS()` and the lock looks like a clock rollover (the premise of `NotEarly`).

And of the parts above the core:

- stream: a timer may answer a request while `doRecv` is still filling in its ctx, so `request()` may
  return OK with a null response, or TIMEOUT for a request that was answered; a `start()` in progress
  when `close()` is called still connects; `close()` itself does not wake the writer, which ends only
  because the reader's `innerClose()` wakes it (`FibersEnd`);
- discovery: `m_cb` is called after the list's lock is released, with the difference of two lists. If
  one thread overtakes the other on the way, balancer and list may differ on a provider both differences
  name, until it changes again: this is what `crossed` excepts in `BalancerFollowsList`. On the first
  two callbacks `get()` may make two balancers, and the one that is replaced keeps its items and their
  connections for ever. `OneLeftBehind` says that this happens once: later callbacks find the second;
- buffer: `ByteArray::read` of size 0, which `readStringF16` and the other string readers call for an
  empty string, evaluates `m_cur->size` (`bytearray.cc:385`) although `m_cur` is null when the position is
  at the end of the capacity; `write` has a test for size 0. `ByteBuffer` has a step of its own for it,
  `ReadNothing`, and what is shown is that nothing else follows a null `m_cur`;
- Redis: a Ctx that has timed out stays until its reply comes or the connection ends;
- thread pool: when a thread of the pool has ended and `m_start` is still true, `check()` takes and
  returns that thread again and again until `stop()` goes on;
- name server: `NSDomain::del` reads a set's size and erases its command under two locks. A node that is
  added in between is in a set nobody lists, and registering again does not help, because the
  difference to its session is empty: this is what `raced` excepts. A stream that the server closes
  itself (after a refused request) keeps its entries, since `innerClose()` then finds the stream closed
  and calls no `onDisconnect`. A node that reconnects before its first stream's end is handled loses its entry
  then, which is why the model has one stream per node.

## Proofs

The theorems hold for every value of the constants that the named assumptions allow. The theorems
about an instantiated model name its specification: `R!Spec` in `EventLoopsProofs` is
`FoxRedis`'s, `T!Spec` and `B!Spec` in `TimerDiscoveryProofs` are `Timer`'s and `ByteArray`'s, `N!Spec`
in `NetworkPartsProofs` is `NameServer`'s.

### Scheduler

`SchedulerProofs` proves, for every number of threads, fibers and callbacks and with no bound
on the queue, that `FiberInv` is inductive (`FiberInvariant`), and from it

- `TypeCorrect`: the types, and that `m_activeThreadCount`, unsigned in the code, never wraps;
- `NoFiberOnTwoThreads`: no fiber is on two stacks;
- `AssertionsHold`: the assertions of `swapIn` and `reset`;
- `WakeUpIsUnique`: a fiber that has given up its thread has exactly one way to go on;
- `CallbacksRunOnce`: a callback is neither lost nor run twice.

`FiberOnOneThread` is not inductive: it does not say why a worker that takes a fiber from the
queue will find it off every stack. `FiberInv` adds who *holds* a fiber (`HolderInv`: taken,
running or just back, and in which state), that it is in one worker's hands unless it has
ended (`HoldOnce`), that a fiber has at most one *token* (an entry, an armed wake-up, or a
place in a worker's expired list) and has none where a second one could resume it
(`TokenInv`), that a worker's spare callback fiber is its own (`SpareInv`), that unallocated
and unscheduled fibers appear nowhere (`FreeInv`), and what the active count counts
(`ActiveInv`). There is a lemma for each action, built on lemmas about the queue operations
and on `QuietStep` for steps that touch no fiber.

The last two theorems need more (`LeftAndCallbacks`). `LeftInv` is the other half of `TokenInv`: a fiber
on hold or ready that no worker holds has a token, and one that has switched out to wait has it already,
before its worker sees that it came back. `CallbackInv` puts every callback into one of five places
(with its client, in the queue, taken, the body of a fiber, finished), and says that a fiber that could
be given another callback has none. `OneWakeUp` and `CallbackRunsOnce` count places with
`Cardinality`; the proofs show that each of the counted sets is a singleton. The steps of
`run()` are in `SchedulerRunProofs`, the rest and the theorems in `SchedulerProofs`. The assumptions are
those of `SchedulerAssumption`: the kinds of things are disjoint, and there are finitely many threads and fibers.

### IOManager and FoxRedis

`EventLoopsProofs` proves, for any number of workers and descriptors and for any run of arrivals,
`PendingCount` (`m_pendingEventCount` counts the registrations) and `KernelWatches` (the kernel
watches what the contexts say), both also when fds are closed while they are watched and `epoll_ctl`
fails from then on, and `EdgesKept` (`NoEdgeLost`: only edges of such fds are lost). The last one
rests on `KernelAgrees`: an arrival that queues no edge is one nobody is registered for, and every
handled result re-arms its descriptor with `EPOLL_CTL_MOD`, which looks at the readiness again.
`EndsInv` is shared by the four ways in which a registration ends. The assumptions are
`IOManagerAssumption`: finite sets, and events among `READ` and `WRITE`.

It also proves `CallersAreThere` (`CtxHasCaller`) of `FoxRedis`, for any fibers, commands and
connections and without an assumption: nothing that a reply, a timer or the queue can reach points to an
FCtx that is gone. `RedisInv` says why: a command is in one place (two queues and hiredis') and there
once, so that a reply that has woken its fiber leaves no second one behind; it is not newer than its
fiber's last command; and a fiber in the scheduler's queue has been taken out of its FCtx.

### Tickle

`TickleProofs` proves `IdleCountExact` (`m_idleThreadCount` is the number of workers in `idle()`) and
`TimersAreWatched`. `TimerIsWatched` alone is not kept by `addTimer`, which asks for no tickle while
`m_tickled` is set: `TickledInv` says that it is set only while a worker is awake, and so will look at
the timers before it sleeps, or a tickle is due. That a tickle may be left out when the count is zero
needs the exact count. `TickleAssumption`: finitely many workers, at least one, and natural times.

### Timer, Discovery and ByteArray

`TimerDiscoveryProofs` proves the action property `NotEarly` (`CallbacksNotEarly`), for any timers, periods and
workers. Its invariant `ClockInv` says that all readings of the clock are old while nobody sets it
back, and that `m_next - m_ms`, which `reset()` computes without a sign, is not negative.
`TimersAssumption`: times and periods are natural numbers.

It proves `BalancerIsTheList` and `LeftBehindOnce` (`OneLeftBehind`) for any set of providers and any
number of changes and sessions, without an assumption. `BalancerFollowsList` excepts the providers that a
callback on its way names, so it says nothing of how a difference gets there. `ListInv` does: a provider
that is not crossed is named by one difference at most (`AloneInv`), which says of it what the list says
and is applied to the balancer `get()` returns (`CarryInv`); what no difference names has reached that
balancer (`ReachedInv`); and two balancers are made at most, for only threads that found none create one
(`MadeInv`). `AsideKeeps` disposes of all steps beside that way.

And it proves `ArrayIsBuffer`: `ByteArray` implements `ByteBuffer`, for nodes and transfers of any size,
0 included, and any number of nodes; in particular a null `m_cur` is followed only by a `read` of no
bytes at the end of the capacity, where nothing is left to read (`ArrayReadNone`). The invariant
`ArrayInv` is what every operation of the code relies on and restores on its own: `m_cur` is the node that `m_position` is in, null exactly where the capacity
ends, and position, size and capacity are in this order. The argument is division with remainder by
the size of a node: a byte has one place in one node (`DivisionUnique`, `InNode`), going on by n bytes
from a place in a node comes to the place of the position plus n (`Onwards`), and the rounding in
`addCapacity` makes enough room (`RoundUp`). From these follow what the loops over the nodes do
(`StoredIs`, `FetchedIs`), and then a lemma per operation shows which step of the buffer it is; a
transfer that fails is none, though it may add nodes. `ArrayAssumption`: a node holds at least one byte.

### FiberSemaphore and WorkerGroup

`WorkerGroupProofs` proves `PermitXorWaiters` (a free permit and a waiter never coexist) and
`SemaphoreImplemented`, the refinement of `Semaphore`'s safety part: the permits of the abstract
semaphore are `m_concurrency` plus those on their way to a scheduled fiber. And of the group
`AtMostBatchSize` and `WaitAllMeansAll`. Neither limit is inductive:
`GInv` says where every permit is (`PermitsConserved`), which fibers may be inside
`m_sem.wait()` and why (`CallersInv`: a resumed fiber did not already have a permit), and that a
waiting job has one submitter (`SubmitInv`: it is queued once).

### Hook and NameServer

`NetworkPartsProofs` proves `WokenOnce`, `OwnTimeout`, `ContextKept` and `ConnectIsConnected`.
`WaiterHasWakeUp` is inductive with its types: every path that ends a registration schedules its
fiber, and a second registration fails the assertion. `TimeoutIsOwn` needs `TimeInv`: calls have
numbers of their own, as `timer_info` objects do, and a timer that is armed or listed belongs to a call
with a timeout. `ConnectMeansConnected` needs `ConnectInv`: while nobody has closed the first socket a
connect is woken by an event, which comes after the socket is connected or has failed, or by its own
timer, which makes it fail. `HookAssumption`: finitely many fibers, natural bounds.

It proves `DirectoryIsAgreed` of `NameServer`: the directory lists what is registered, for any
streams, commands, weights and number of handlers, and any overlap of their calls that `raced` does
not except. `DirectoryAgrees` speaks of the moments when nobody is at work; `DirectoryInv` of all others.
For each stream that a call works on it says command by command whether the directory has what was
registered or already what is to be (`ListInv`, `Brought`). It follows the objects through the hands of
the handlers (`HandInv`: what a handler holds is in the directory where it found it, or is new and
nobody else's), says that a command has a set of its own (`SetInv`), and that calls which did not race
when one computed its differences keep out of each other's way until they end (`PairInv`): no command
one of them deletes is another's, and those that two of them add have their set. `WorkStep` says what a
step of a call has to show, and there is a lemma per action. `ServerAssumption`: commands are numbers
that may name objects, weights are positive.

### AsyncSocketStream

`AsyncSocketStreamProofs` proves `RequestAnsweredOnce`, `OkIsFromThePeer`, `QueueIsFetched` and
`OneConnection` from one inductive invariant, `StreamInv` (`StreamInvariant`), for any number of
requests, messages and calls of `start()`. Besides types and the places of the fibers it says: the
permits of `m_waitSem` are with the fibers that run and the `start()` that waited for them
(`SessionInv`); whoever has taken `ctx->scheduler` has woken the fiber, once (`AnswerInv`); a ctx is in
the table, in the hands of one fiber, or left to its timer (`OwnInv`), which is what keeps the result
that a response has set from being overwritten by `IO_ERROR`, and the reverse; and whoever is about to
answer with OK has the response (`ResultInv`). There is a lemma per part of the invariant with a
step per action. The assumptions are `StreamAssumption`: finitely many callers, requests and messages
distinct.

### What is only model-checked

Every liveness property: the prover handles neither fairness nor `ENABLED`. This includes all that is
said of `FoxThreadPool`. The properties of the runs that end in a violation.

Type correctness of `Scheduler`, the exact idle count of `Tickle`, and that a free permit and a waiter
exclude each other are proved and not checked again by a run.

## Not modelled

Most of the repository's lines are code that a model of this kind has nothing to say about, and the
models cover a small share of them for that reason: a vendored bitmap library (`ds/roaring.*`), parsers generated by
ragel (HTTP, URI), protobuf output, the ORM generator, formatting and conversion (logging, addresses,
JSON, YAML, mail, hashing), and wrappers over client libraries (MySQL, SQLite, ZooKeeper, OpenSSL).

Of the rest:

- the caches (`LruCache`, `TimedCache`, `TimedLruCache`) and the pools of MySQL and HTTP connections
  change all they have under one lock, so every call is one sequential step. Read beside the code:
  `TimedCache::set` of a key that is there leaves the old entry in `m_timed`, and `HttpConnectionPool` drops
  connections younger than `m_maxAliveTime` instead of older ones and does not use `m_maxSize`;
- the containers (`dict`, `array`, `hash_map`, `bitmap`) are sequential and have no locks;
- `ByteArray`'s typed readers, varints and files are conversions on top of `read` and `write`.
  `read(buf, size, position)` starts in `m_cur`'s node rather than in the one of its position, and is left out;
- `ConfigVar::setValue` calls the listeners under the read lock and stores under the write lock; two
  callers at once may leave the listeners with another value than the one stored, and the
  configuration is loaded by one thread;
- the TCP server is a loop around `accept`, a client of the hooks; WebSocket framing is read by one fiber;
- the choice of an item by weight in `LoadBalance` is floating-point arithmetic over statistics;
- the ends of objects that other threads may still be using: `ZKServiceDiscovery::stop()` clears
  `m_client` and `m_timer` without `m_mutex`, and the destructor of `FoxThread` closes both descriptors
  before it stops and joins the thread that reads one of them;
- the name server's queries only read, and its notifications are commented out;
- start-up, modules, daemon and environment are sequential.

Threads and the pthread locks are the steps of the models; the stack switch itself is taken to do what
`ucontext` says.
