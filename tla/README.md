# Coroutine service framework and gateway: a TLA+ development

The repository is a C++ coroutine library (`src/src/CoroutineLibrary`: fibers, an N:M
scheduler, timers, an epoll event loop and hooked system calls) and an HTTP gateway
built on it (`src/src/server`, `src/src/gateway`, `src/src/util`). This directory holds
TLA+ modules of both, TLC configurations that check them and TLAPS proofs about the
library's concurrent core. Line numbers are those of `PROJECT.json`, which maps every definition that
models code to the lines it stands for.

## Inventory

| part | state | operations | hard because |
|---|---|---|---|
| `Scheduler` | `m_tasks`, `m_activeThreadCount`, `m_idleThreadCount`, `m_stopping` | `scheduleLock`, `run`, `stop`, `stopping` | all workers and the owner share the queue; the counters are read without its lock |
| `Fiber` | `m_state`, `m_mutex`, a stack | `resume`, `yield`, `MainFunc` | a fiber can be woken before it has left its stack |
| `IOManager` loop | the tickle pipe, `m_pendingEventCount` | `idle`, `tickle`, `stopping` | sleeping threads, dropped and shared wake-ups |
| `IOManager` table | `m_fdContexts`, `FdContext::events`, the kernel's epoll set | `addEvent`, `delEvent`, `cancelEvent`, `cancelAll`, `contextResize`, event handling in `idle` | edge-triggered results are handled after they have become stale |
| `Timer`, `TimerManager` | the ordered set, `m_tickled`, `m_previouseTime` | add, `cancel`, `refresh`, `reset`, `getNextTimer`, `listExpiredCb` | equal expiries, clock set back, windows outside the lock |
| hooks, `FdManager` | `FdCtx` table, per-call `timer_info` | `do_io`, `connect_with_timeout`, `sleep`..., `socket`, `accept`, `close`, `fcntl`, `ioctl`, `setsockopt` | a timeout racing readiness and close; fd numbers are reused |
| `Thread`, `Semaphore` | start-up handshake | constructor, `join` | ordering of start-up |
| `TcpServer` | `m_socks`, `m_isStop` | `bind`, `start`, `startAccept`, `stop` | stop racing accept |
| `gateway_server`, `gateway_conn` | `g_conns`, one slot per fd: request buffer, upstreams | `handleClient`, `read_once`, `process` | slots are reused with the fd number |
| `GatewayConfig`, router | routes, trie, limits, secrets | `load_from_file`, `reload`, `match_route`, `pick_upstream` | reload while requests hold pointers |
| filter chain, `JwtCache` | rate window, cached tokens | `apply`, `is_valid_cached`, `put_valid`, `clear` | unsynchronised shared state |
| `LRUCache`, `FindCache`, memory pool | lists, maps, free list | `get`, `push`, `allocate`, `deallocate` | algorithmic |

Interaction. A hooked call registers the running fiber with a timer
(`TimerManager::addTimer`) or an fd event (`IOManager::addEvent`) and yields. A worker
without a task runs `IOManager::idle`, which waits in `epoll_wait`, hands expired timer
callbacks and triggered fibers to `scheduleLock`, and yields back to `run`. `tickle`
writes a byte into a pipe that is part of the epoll set. `stop` sets `m_stopping`, tickles
everyone, lets the caller work too, and joins. `TcpServer` schedules one accept fiber per
listening socket and one fiber per connection; the gateway is the body of that fiber.

What makes the parts correct: a fiber is on one stack at a time and is woken exactly once
per wait; queued work is picked up; `stop` returns and loses nothing; counters are exact;
a cancelled timer does not fire and no timer gets lost; the kernel's interest agrees with
the event table and no edge is lost; a hooked call times out only by its own timer, leaves
no timer behind and never holds its thread; a request is routed by longest prefix, judged
by the configuration in force and answered; a connection slot belongs to its connection.

## Modules

* **Scheduler.tla** — `Scheduler::run`, `scheduleLock`, `stop`, the fibers, and the idle
  loop of `IOManager`. Each thread has a program counter (`pc`); a step is one critical
  section, one atomic operation or one system call, so the interleavings are those of the
  threads. `notify` holds the threads that have pushed or scanned and still owe the
  `tickle()` which the code calls after unlocking. Actions: `TakeTask`, `TakeNothing`,
  `LockFiber`, `NewFiber`, `RunTimerCb`, `Resume`, `Yield`, `UnlockFiber`, `DecActive`
  (`run`); `Sleep`, `WaitIO`, `Spawn`, `Finish` (what a fiber body does); `EnterIdle`,
  `CheckTimers`, `CheckEvents`, `CheckTasks` (the three reads of `stopping`), `EpollWait`,
  `ListExpiredCb`, `ScheduleCb`, `CbsDone`, `DrainPipe`, `TriggerEvent`, `DecPending`,
  `IdleYield`, `LeaveIdle`, `ExitRun` (`idle` and its place in `run`); `Submit`,
  `StopBegin`, `StopTickle`, `StopRun`, `StopJoin` (the owner). The timer heap and event
  table are here only the sets of fibers waiting in them, and the short-lived fiber of an
  expired timer's callback is one step: no other thread can see it.
* **TimerManager.tla** — the timer heap. `m_timers` is a `std::set` whose comparator sees
  `m_next` only; `Find` and `Inserted` say what that means. Every critical section is a
  step, the loop of `listExpiredCb` takes one step per timer with the lock held, and what
  happens outside the lock (reading the clock, the recomputation in `reset`) is a step of
  its own. `Tick` and `SetBack` move the system clock. History variables: `known` (the
  expiry the last `getNextTimer` saw), `cancelled`, `fired`, and `dropped`, the timers that
  an equal `m_next` threw out of the heap.
* **IOEvents.tla** — the table of `FdContext`s, the four operations on it, the `close`
  hook, and the handling of epoll results by several idle threads. An operation is a
  lookup under `IOManager::m_mutex` and a section under `FdContext::mutex`, with a
  separate `Resize` when the table is too small. A section under `FdContext::mutex` is
  atomic: others see only `m_pendingEventCount` in between, and `Scheduler` models the
  trigger and the decrement as two steps. Contexts are objects of their own
  (`[fd, n]`), so that a table that shrinks and grows again holds a different context for
  the same fd. The kernel is external: `level` is the readiness of an fd, `interest` its
  registration, `armed` the ready list; `ADD` and `MOD` look at the readiness anew, a
  report removes the fd from the list, `epoll_ctl` fails when its operation does not fit
  the registration. `stranded` remembers contexts whose fd was closed with events
  registered. The fiber and the callback form of an `EventContext` differ only in what is
  handed to `scheduleLock`; the model keeps the fiber.
* **FiberLife.tla** — an abstract specification of what the scheduler promises: a fiber is
  created, runs on one stack, asks to be woken, is woken once per wait (perhaps before it
  has left its stack) and runs again only after that. It has no threads, queue, timers or
  fds. `Scheduler` instantiates it (`Lives`) with the life of a fiber read off its state,
  the places that hold a wake-up, and the mutexes; `ImplementsFiberLife` is the refinement.
* **HookIO.tla** — the hooked system calls and `FdManager`. A fiber in a call has a place
  (`pc`) between the lookup of the `FdCtx`, the original function, `addConditionTimer`,
  `addEvent`, the wait, and `timer->cancel()`; a `Timer` goes from armed through expired,
  `winfo.lock()` and the flag to `cancelEvent`, one step each, because close, reuse of the
  number and the fiber's own wake-up come in between. Readiness reaches a fiber as in
  `idle()`: an idle thread gets results from `epoll_wait` (`EpollWait`, kept in `results`)
  and handles them one by one (`HandleResult`) without looking at the socket again, however
  much later, so that a result may be about a socket that was closed since, or about an
  earlier state of this one. `addEvent`, `cancelEvent` and `cancelAll` are one step each
  (their inside is in `IOEvents`, and so are the edge-triggered list and the assertion that
  a half-registered result fails). The socket behind an fd
  is external: new, listening, connecting, connected, failed or closed, with its
  `O_NONBLOCK` flag. `recv` stands for the five reading functions and `send` for the five
  writing ones, which all call `do_io` with an event. A blocking socket that is not ready
  leaves `Try` without a step: the thread is held. History variables for the properties
  and the exceptions they allow: `fired` and `overdue` (a timer of the present round, or of
  an earlier round of the call, expired), `early` (the timeout callback ran before
  `addEvent`), `stale` (the number was closed under the call), `nudged` (a `connect` was
  woken without its event, or by a result older than its attempt) and `cleared`.
* **RouteTable.tla** — `build_trie` and `match_route` as operators: a trie is a function
  from character sequences to routes, and the loops over the routes and over the path are
  recursive functions, a turn of the loop each. `BestRoute` is the reference definition
  they are compared with.
* **LRUCache.tla** — the list of `LRUCache` with `get` and `push`; the hash map beside it
  is determined by the list.
* **Gateway.tla** — from `gateway_server`'s constructor to the last byte of a response.
  Each connection is a fiber, and its handler takes one step per access to what is
  shared: the configuration (`log` keeps every configuration that was in force, so that a
  `RouteConfig*` is a place in a known one), the cache, the rate limiter, `g_conns`
  (`arrays` keeps lost allocations) and the router's index. `load_from_file` is a read of
  file and settings without the lock and a commit under it. An operator edits the file
  while requests run. Requests are abstracted to what decides: malformed, admin metrics,
  too large, admin reload, or a path with a token and a remote address.
* **SchedulerProofs.tla** and **SchedulerWakeUpProofs.tla** (about `Scheduler`),
  **TimerProofs.tla**, **IOEventsProofs.tla** and **IOWaiterProofs.tla** (about
  `IOEvents`), **HookIOProofs.tla**, **RouteTableProofs.tla** and **GatewayProofs.tla** — the
  theorems. Of a component's two proof modules the second extends the first and uses its
  inductive invariant; `GatewayProofs` extends `RouteTableProofs`.
* **MCScheduler**, **MCTimer**, **MCIOEvents**, **MCHookIO** — symmetry sets for TLC.
  **MCGateway** — the files, requests, paths and tokens of the gateway's instance.

Deliberate simplifications: `m_stopping` is a plain `bool` written without the lock, taken
as atomic; `Fiber::reset` has no caller; failures of `malloc`, `getcontext`, `pipe` and
`write` end the process in the code and do not occur here; `stop` is called once. A fiber
never pins a task to a thread: `scheduleLock` has an argument for it, but no caller inside
a fiber gives one, and `Spawn` is restricted to that (the owner pins tasks in `Submit`).
`QueueDrains` and `StopReturns` hold under this restriction; a task pinned to a thread that
has left `run` would stay in the queue.
In `HookIO` every `FdCtx` is a socket's (only `socket` and `accept` make one), nothing sets
`m_isClosed`, an fd is closed once per socket, and options are set on sockets that are not
being opened or closed. In `Gateway` a client gets the lowest free number: the sockets to
upstreams, which take numbers too, would at most give a client a slot that was never used,
as the first connections have. `m_upstreams` is empty whenever `get_upstream_socket` looks
at it, since `process` never returns true and `init` empties it, so the branch that reuses
a socket is dead. One byte stream is one step where no shared state is touched (sending
the request on and copying the response).

Undefined behaviour. `JwtCache` has no lock, settings are read while a reload assigns them,
`match_route` hands out a pointer that a reload invalidates, and a slot of a lost `g_conns`
has a null client. `Race` and `Undefine` are the steps in which such an access overlaps or
dangles in a way that may do anything; the process is then in a state of which nothing is
claimed. A dangling `RouteConfig*` may also yield any target, or a wrong answer.

## Runs

| run | instance | shows |
|---|---|---|
| `scheduler_two_workers` | a pool thread and the caller, 2 fibers, 2 suspensions each | `FiberExclusion`, `FiberAsserts`, `OneWakeUp`, `ThreadCountersExact`, `PendingExact`, `DestructorAssert`, `TermIsFinal`, `ImplementsFiberLife` hold |
| `scheduler_liveness` | the same system, fewer suspensions, fair | woken fibers run, the queue drains, `stop` returns |
| `scheduler_lost_tickle` | one worker | violation of `QueuedTaskWakesAThread` |
| `scheduler_stop_loses_fiber` | two workers | violation of `StopLosesNothing` |
| `timer_manager` | 2 threads, a recurring and a one-shot timer, clock 0..1 set back once | `NoTimerLost`, `EarlierTimerAnnounced`, `CancelledNeverFires`, `OneShotFiresOnce` hold |
| `timer_recurring_dropped` | 2 recurring timers | violation of `RecurringReturns` |
| `timer_rollover_loops` | 1 recurring timer, clock set back past `Hour` | violation of `RolloverClearsAll` |
| `io_events` | 1 fd beyond the table, 3 fibers, 2 idle threads | `PendingExact`, `WaiterRegisteredOnce`, `KernelMirrors`, `NoLostEdge` hold |
| `io_trigger_assert` | 3 fibers, 1 idle thread | violation of `TriggerAssert` |
| `io_table_shrinks` | 2 fds beyond the table | violation of `TableHoldsContexts` |
| `hook_io` | 2 fibers, 2 fd numbers, 1 client at the start, 1 idle thread, 1 timer alive at a time, 4 calls | `TimeoutIsReal`, `NoStrayTimer`, `WaiterWaits`, `TimeoutReachesWaiter`, `HookedCallNeverBlocks`, `CtxMatchesKernel`, `ConnectEstablished` hold |
| `gateway` | 3 connections, 2 at a time, 2 fd numbers, 3 files, 1 edit, 5 requests | `RouteIsLongestPrefix`, `DefaultRoute`, `FiltersSound`, `CacheSound`, `CacheWellFormed`, `SlotServesOwner`, `UpstreamIsRouted`, `RateLimitHolds`, `Answered` hold |

What the two last runs say, with the exceptions that the code leaves:

* A call returns `ETIMEDOUT` only when the timer of the round that ends has expired, or,
  for `do_io`, when the timer of an earlier round had (`overdue`): the rounds of one call
  share a `timer_info`, and a callback that was past `timer->cancel()` when data arrived
  ends a later round early. Callbacks of other calls never do. No return path leaves a
  timer armed.
* A suspended fiber is in exactly one `EventContext`. When its timeout flag is set, a
  callback of its call is about to cancel the event and wake it. There are two exceptions,
  stated separately: the callback ran before this call's `addEvent` (`early`; the fiber
  then waits on without a timeout), or the number was closed under the call (`stale`).
* A hooked call holds its thread only after `ioctl(FIONBIO, 0)`, or when its number was
  closed and given out again. `connect` returns success for an unestablished connection
  only when its wait was ended by `close`, by the late callback of another call or by a
  result that `epoll_wait` gave before the attempt (a stale `EPOLLOUT` of a closed socket
  of the same number, or of the unconnected one), or when `addEvent` refused, or when the
  number was closed under it.
* The filters admit only what the configuration admits, for requests that saw one
  configuration throughout; a cached token is one that the secret in force verifies. The
  exceptions: a token put into the cache by a request that verified it before the last
  reload (`late`), and a decision taken from a dangling `RouteConfig*`.
* A slot serves its own connection, or is null after two handlers allocated `g_conns`. No
  more than `max_qps` requests pass in a second, unless two handlers were inside the
  limiter at once. Every request is answered unless the upstream took it and sent nothing.

Bounds. Two workers and two fibers are what the scheduler's races need: one thread on the
stack, one that takes the premature wake-up, one further fiber to keep the queue from
being empty; `MaxWaits = 2` lets a fiber suspend again after a wake-up that came early.
All safety properties of this run are also proved without bounds, and so are those of the
runs `timer_manager`, `io_events`, `hook_io` and `gateway`.
In the timer run `Periods = {1, 2}` makes equal and different expiries, `Hour = 0`
makes every backward jump a rollover, and two threads suffice because every race is
between one window (`recompute`, `insert`, `lock`) and one critical section. In the event
run three fibers give a reader, a writer and one that cancels or closes; two idle threads
hold results of different ages; `MaxContexts` bounds the contexts of an fd (with the fds
used no more can be created). In the hook run one fiber works on an fd while the other
closes it and opens another one of the same number, and four calls are enough for a
callback of the first call, or an epoll result for its socket, to meet the second call on
the reused number; one idle thread suffices because a result kept back by one thread meets
every later state of the number (1.8 million states). With one timer alive a late callback
of round 1 meets a round 2 without a timer of its own; an instance with two timers alive
and three calls (430,000 states) was checked too. In the gateway run two connections
overlap and a third one meets what they left in slot, cache and limiter; one edit makes a
reload change the configuration under a request; the second file leaves `jwt_enabled` out,
so it is off or on by what was loaded before; `IndexRange = 2` makes the router's index
wrap, `DefaultCapacity = 1` makes the cache evict (2.0 million states). An instance with a
`max_qps` of 2 in the second file, so that the limit changes within a second (3.3 million),
was checked too. Both runs
switch the deadlock check off: they stop when the bounded calls or connections are used up.

Fairness (`FairSpec` of `Scheduler`): every thread that can take a step takes one (mutexes
are released, `epoll_wait` returns after at most `MAX_TIMEOUT`, a fiber body reaches its
next suspension), the owner finishes a `stop` it has begun, and an armed timer is found
due by some pass. Nothing is assumed of the fds, nor that `stop` is ever called. Strong
fairness is used for the timers only: time passes while passes of `listExpiredCb` come and
go.

## Findings

1. **Dropped tickle.** Between the queue scan and `m_idleThreadCount++` a push finds no
   idle thread and writes no byte; the worker then sleeps with the task queued. Liveness
   survives (`QueueDrains`) only because `epoll_wait` is bounded by 5 s.
2. **`stop` can lose a fiber.** `stopping()` is three reads, and a worker whose idle fiber
   has terminated still takes a task. The fiber it runs may arm a timer that nobody is
   left to expire. The assertion of `~Scheduler` does not notice (`DestructorAssert`).
3. **Equal expiries collide.** Recurring timers of equal period that expire in one pass
   get the same `m_next`; the second insert is refused.
4. **Rollover pass never ends** when a recurring timer is in the heap.
5. **Assertion in `triggerEvent`.** Stale `EPOLLIN|EPOLLOUT` results are not masked with
   what is still registered.
6. **The context table can shrink** because `addEvent` does not look at the size again
   after it has exchanged the shared lock for the exclusive one.

## Proofs

`SchedulerProofs.tla` proves, for any finite `Pool`, any finite `Fibers` and any
`MaxWaits`, from the three named assumptions of `Scheduler.tla` (the caller is no pool
thread, the null values are no threads or fibers, the sets are finite):

* `TypeCorrect`: `Spec => []TypeOK`
* `Exclusion`: `Spec => []FiberExclusion`
* `AssertsHold`: `Spec => []FiberAsserts`
* `TermFinal`: `Spec => TermIsFinal`
* `CountersAreExact`: `Spec => []ThreadCountersExact`

`FiberExclusion` is not inductive: that two threads are not on one stack says nothing about
the thread about to resume. The strengthening `IInv` adds: a thread between `LockFiber` or
`NewFiber` and `UnlockFiber` has a fiber (`CurIsFiber`) and holds its mutex (`MutexHeld`);
the state of the held fiber follows from the label of its holder (`HeldState`); a fiber
that is `RUNNING` is held (`RunningIsHeld`), so a fiber found unlocked is `READY` or
`TERM`, which is what `resume` asserts; and an unborn fiber is named by no task, timer,
event or callback (`UnbornUnknown`), so that `NewFiber` cannot create a fiber somebody
already waits for. Exclusion follows from `MutexHeld`, the assertions from `HeldState`.
The counters are proved by an auxiliary lemma on how the number of threads in a set of
labels changes when one thread moves.

`TimerProofs.tla` proves, for any threads, any timers, one-shot or recurring, any periods
and any clock, from the named assumptions of `TimerManager.tla`:

* `TypeCorrect`: `Spec => []TypeOK`
* `NothingLost`: `Spec => []NoTimerLost`
* `CancelIsFinal`: `Spec => CancelledNeverFires`
* `OneShot`: `Spec => OneShotFiresOnce`
* `FrontIsAnnounced`: `Spec => []EarlierTimerAnnounced`

`CancelIsFinal` and `OneShot` are about steps: a pass that collects a callback must find the callback set.
They follow from `SpentHasNoCb` — a timer that was cancelled, or a one-shot timer that
fired, has lost its callback — which is inductive because only the construction of a timer
sets the callback, and constructed timers are never constructed again (`SpentHasNoCb` also
says that spent timers exist). `reset` works on a timer it has taken out of the heap and
that others may cancel meanwhile; `OperandMade` says that such a timer exists, which
`TypeOK` needs when it is inserted again. `NoTimerLost` is inductive beside these.

`EarlierTimerAnnounced` speaks of the histories in which the clock was not set back and no
insert was refused. It needs three more facts (`FrontInv`): a timer's `m_next` is `m_ms`
after some past moment (`StartPast`), so no recomputation in `reset` or in the expiry loop
makes a timer due before it was; times that were read are past and `listExpiredCb` sees no
rollover (`ClockForward`); and a timer about to be inserted is neither in the heap nor in
another thread's hands (`InsertedByOne`). Then a timer that comes to the front of the heap
either was known to the last `getNextTimer` or its insert set `m_tickled`.

`IOEventsProofs.tla` proves, for any non-empty set of fds and any sets of fibers and idle
threads, from the named assumptions of `IOEvents.tla` (an initial table of at least two
slots; the code's has 32):

* `TypeCorrect`: `Spec => []TypeOK`
* `KernelAgrees`: `Spec => []KernelMirrors`

`TypeOK` says that the slots below the size of the table, and only they, hold a context.
That needs `SizeInv`: the table never becomes smaller than the initial one and a fiber is
at the resize only with an fd beyond it, so that `fd * 1.5`, truncated, is larger than
`fd`; with an fd of 1 it would not be. `KernelMirrors` needs `DataFd`, the pointer the
kernel holds for an fd is to a context of that fd. One lemma (`CtlMirrors`) serves every
operation: `epoll_ctl` succeeds only if its operation fits the registration, so the context
is the one the kernel points to or the kernel watches nothing for the fd. It covers stale
results of `epoll_wait` too.

`SchedulerWakeUpProofs.tla` adds, with the further assumption that there is a worker (the
constructor's `assert(threads > 0 ...)`):

* `WakeUpsAreExact`: `Spec => []OneWakeUp`
* `PendingCountExact`: `Spec => []PendingExact`
* `DestructorAssertHolds`: `Spec => []DestructorAssert`
* `LivesRefined`: `Spec => ImplementsFiberLife`

`OneWakeUp` compares a sum of four counts (armed timer or event, collected callbacks,
queued tasks, tasks in a thread's hands) with what a fiber is owed. Counting lemmas say how
each count changes when one thread moves or a task is pushed or taken; every step then
balances. Beside `IInv` it needs only that a callback task names no fiber before `run()`
has made one, and that collected callbacks exist only inside `idle()` (`WakeInv`).
`PendingExact` and the refinement use `OneWakeUp`: a fiber that suspends is not already
registered, and a step of the scheduler that makes a fiber runnable is the abstract
`Wake`. The refinement is shown action by action: each maps to a step of `FiberLife` or
leaves its three variables alone. The destructor's assertion needs `StopInv`: a worker
leaves `run()` only after its idle fiber has ended, which happens only when `m_stopping` is
set and nothing in the queue is pinned to a thread, and a non-empty queue has a worker that
will still look at it.

`IOWaiterProofs.tla` adds to `IOEventsProofs.tla`, from the same assumptions:

* `WaitersAreHeldOnce`: `Spec => []WaiterRegisteredOnce`
* `PendingCountExact`: `Spec => []PendingExact`
* `EdgesAreKept`: `Spec => []NoLostEdge`

The invariant `WaitInv` states the first fiber by fiber (an `EventContext` holds only a
waiting fiber, two never hold the same one, every waiting fiber is held), as counting is
not inductive. The set of registered events is finite in every state although the contexts
need not be (`FinitelyMany`), which is what lets `m_pendingEventCount` be compared with its
size. `NoLostEdge` needs that the kernel watches open fds only; its one hard step is an
idle thread that skips a result, and `SkippedIsStale` shows that such a result reports
nothing that is registered.

`HookIOProofs.tla` proves, for any fibers, fd numbers, timers, idle threads and number of calls, from the
assumptions of `HookIO.tla` (the clients are fds, the null values are no members):

* `TypeCorrect`: `Spec => []TypeOK`
* `SuspendedIffRegistered`: `Spec => []WaiterWaits`
* `TimersAreCancelled`: `Spec => []NoStrayTimer`
* `FdCtxMirrorsKernel`: `Spec => []CtxMatchesKernel`
* `HookedCallsYield`: `Spec => []HookedCallNeverBlocks`
* `TimeoutsAreReal`: `Spec => []TimeoutIsReal`
* `TimeoutsReachTheirCall`: `Spec => []TimeoutReachesWaiter`
* `ConnectSucceedsTruly`: `Spec => []ConnectEstablished`

The properties are inductive together with nine facts: the record of a call agrees with its
label (`CallShape`); the call that creates or closes a number is alone with it
(`OwnedFds`), so that a close cannot remove what a concurrent `socket` has just made;
a hooked call that was not overtaken by a close works on an open socket that is
non-blocking or was made blocking by `ioctl` (`HookedFds`); epoll watches for the event of a
suspended fiber (`Watched`); a timer of a call in progress is about that call's wait
(`LiveTimers`); a callback that is past its expiry, or a flag that is set, belongs to a call
of which a timer expired (`Expired`); a flag that is set on a call that can still be woken
has its callback to come, unless one of the two exceptions is already recorded
(`Reaching`); an epoll result that is not marked old tells of the present attempt, so that
it reports `WRITE` or a hang-up only if that attempt has ended (`Reports`); and a `connect`
that was woken by its event finds the result of its own attempt (`Connected`).
`TimeoutIsReal` follows from `Expired` and `TimeoutReachesWaiter` from `Reaching`. The
history variables are written where the exceptional event itself happens (the callback's
`cancelEvent` before `addEvent`, the close, the round that begins with an expired timer),
not where its consequence shows, so a timeout lost or passed on in any other way would
break the invariant. `ConnectEstablished` follows from `Reports` and
`Connected`.

`RouteTableProofs.tla` proves, for any list of routes with non-empty prefixes (the parser
skips a line without one) and any path:

* `RouteFound`: `MatchRoute(BuildTrie(routes), path) = BestRoute(routes, path)`

Each of the two loops is a recursive function. The library's induction theorems take a
predicate as a parameter, which the provers cannot instantiate; `Induction` states the
principle for a set of numbers instead and derives it from the well-foundedness of `<`, and
with it `BuildExists` and `WalkExists` show that the recursive functions exist, so that
their equations may be used. `TableInv` is the invariant of `build_trie`'s loop: after `n`
routes a path is in the exact map iff one of them is its exact route, and then the last one
is there; a node is in the trie iff it begins some prefix, and it carries the last route
with exactly that prefix, or none. `WalkInv` is the one of `match_route`'s loop: after `k`
characters the best route is that of the deepest node passed that carries one, and the walk
goes on as long as the nodes exist. The nodes of a path that carry a route are those of the
prefix routes that match it, so the deepest is the longest prefix.

`GatewayProofs.tla` proves, for any finite sets of connections and fd numbers and any files,
requests and bounds, from the named assumptions of `Gateway.tla` (fds are positive numbers; a
file's `max_qps` and capacity are naturals and its routes a list, each with a prefix and with
targets, as the parser drops the lines without; the expiry of a token is a natural, 0 for
none, and a path a list of characters; the null values are no members):

* `SlotsServeTheirOwners`: `Spec => []SlotServesOwner`
* `RequestsAreAnswered`: `Spec => []Answered`
* `RateIsLimited`: `Spec => []RateLimitHolds`
* `CachedTokensVerify`: `Spec => []CacheSound`
* `CacheKeepsItsForm`: `Spec => []CacheWellFormed`
* `FiltersAreSound`: `Spec => []FiltersSound`
* `DefaultRouteExists`: `Spec => []DefaultRoute`
* `RoutesAreLongestPrefixes`: `Spec => []RouteIsLongestPrefix`
* `UpstreamsAreRouted`: `Spec => []UpstreamIsRouted`
* `TypeCorrect`: `Spec => []TypeOK`

A handler has twenty actions on a record of eighteen fields, so the proofs do not take the
actions one by one for each property. `Effect` says what any step of a handler does to its
record, `Frame` which steps touch which shared data, and `HandlerStep` shows once that every
action has both, unless it ends connections (`Ended`). The lemmas about the parts of the
invariant then look at the few actions that matter to each. Its parts are: the types of the
fields that are used (`HandlerType`, `DataType`); live connections have fds of their own
(`OwnFd`), because `accept()` gives a free number and only `Close` gives one back, so
`init()` of one connection cannot overwrite the slot of another; an array exists once a
handler is past the allocation (`ArrayExists`); nothing was read before `read_once`
(`Unread`); a handler alone in the rate limiter has loaded the present count, or has stored
it and is not yet among those that passed (`RateInv`);
the list of the LRU cache has no key twice and fits (`CacheShape`); and a token about to be
put was verified with the secret of a known configuration (`PutVerified`).

`FiltersSound` compares the decision of several steps with one configuration. `JudgedSoFar`
says, for each place in the filter chain, what is already known about the request if the
configuration has not changed since the chain began; `ExpiryCached`, that the expiry beside
a cached token is the token's. `DefaultRoute` needs that every configuration that was loaded
and every file whose load is under way has a prefix route "/" (`DefaultInv`). Both rest on
`RouteFound` by way of `TablesAgree`: the table of every configuration in the log finds the
best route of every path.

`UpstreamIsRouted` is about what happens between `match_route` and the use of its result.
`RoutedSoFar` keeps, for a handler past `match_route`, that its route is the best one of the
configuration it was read from. That the chosen host is a target of the route needs that
`resolved_targets` holds targets only (`ResolvedAreTargets`, by induction again) and that the
shared index, reduced modulo the length, is a position in the list (`InTurn`), which is where
non-empty `targets` are needed.

The bounds of `TypeOK` are counts over all connections, past and present. They follow from
three inequalities (`CountedInv`) in which handlers are charged in advance: configurations in
the log plus handlers that may still load one, the limiter's count (and the count a handler
has loaded) plus handlers not counted yet, and arrays plus handlers about to allocate. Only
`Accept` adds a handler to the first two sets, and it raises the number of accepted
connections too. The third stays below the number of fds since a handler goes to allocate
only while there is no array, when the handlers at that place have different fds.

Every inductive invariant was checked with TLC, on instances of 10^5 to 10^6 states,
before it was proved.

Only model-checked: liveness (`scheduler_liveness`), as the prover has no fairness reasoning, and
the six disagreements under Findings, which are counterexamples. Every invariant and action
property of the passing runs is stated by a theorem.

## Order of work

`Scheduler`, `TimerManager` and `IOEvents` with their first proofs; `HookIO`; `RouteTable`,
`LRUCache` and `Gateway`; `FiberLife` and the refinement; the proofs of every safety property
of `Scheduler`, `TimerManager`, `IOEvents` and `HookIO`; those of `Gateway`, for which the
loops of `RouteTable` and the selection of the targets that resolve were written as recursive
functions. What could come next: the refinement of one event table by the abstract waiting
that `HookIO` and `Scheduler` each assume of it, and the upstream sockets that stay in a slot.

## Not modelled

* `FindCache` and the memory pool: nothing in the repository uses them.
* `TcpServer::stop`, `loadCertificates` and the SSL sockets: nothing calls them.
* `Socket` and the address classes: wrappers over the hooked calls, parsing and formatting;
  what they do to the gateway's state is in `Gateway`.
* The start-up handshake of `Thread`: a caller sees a thread that has started.
* Metrics (counters that are printed only), logging, base64, HMAC and the JSON search of
  JWT, command-line parsing and the example programs.
* The upstream socket that stays open in a slot until the slot's next `init`: its number
  decides nothing in the gateway.
