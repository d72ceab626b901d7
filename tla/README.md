# muduo_mock in TLA+

`muduo_mock` is a C++ network library in the style of muduo: one event loop per
thread (the reactor), non-blocking TCP connections on top of it, timers, and a
thread pool. The modules here model the parts that keep state and talk to each
other, check them with TLC on small instances, and prove with TLAPS, for instances
of any size, every safety property and refinement that the runs check. `PROJECT.json` holds the machine-readable side: the lines
each definition translates, the runs, the faults that each property catches, the
findings, the hazards and the theorems.

## 1. The system

### 1.1 Parts, state and operations

| part | state | operations |
|---|---|---|
| `EventLoop` | `M_looping`, `M_quit`, `M_callingPendingFunctors`, `M_pendingFunctors` (under `M_mutex`), `M_activeChannels`, `M_currentActiveChannel`, the eventfd | `loop`, `quit`, `runInLoop`, `queueInLoop`, `wakeup`, `handleRead`, `doPendingFunctors`, `updateChannel`, `removeChannel`, `runAt/After/Every`, `cancel` |
| `Channel` | descriptor, interest, index for the poller, `M_addedToLoop`, `M_eventHandling`, tie | `enable*/disable*`, `remove`, `handleEvent` |
| `EPollPoller` | `M_channels`, `M_epollfd` (a set of raw `Channel*` in the kernel) | `poll`, `updateChannel`, `removeChannel` |
| `PollPoller` | `M_channels`, `M_pollfds` | the same |
| `TimerQueue`, `Timer`, `TimerId` | `M_timers`, `M_activeTimers`, `M_cancelingTimers`, `M_callingExpiredTimers`, the timerfd | `addTimer`, `cancel`, `handleRead` |
| `TcpConnection` | `M_state`, `M_reading`, channel, socket, two buffers, callbacks | `send`, `shutdown`, `forceClose(WithDelay)`, `startRead`, `stopRead`, `connectEstablished`, `connectDestroyed`, four event handlers |
| `Buffer` | a vector, a reader and a writer index | `append`, `prepend`, `retrieve`, `unwrite`, `shrink`, `readFd`, integers in network byte order |
| `Connector` | `M_connect`, `M_state`, `M_channel`, `M_retryDelayMs` | `start`, `restart`, `stop`, `handleWrite`, `handleError`, `retry` |
| `TcpServer`, `Acceptor` | the connection map, `M_nextConnId`, the listening channel, the idle descriptor | `start`, `newConnection`, `removeConnection(InLoop)`, `listen`, `handleRead`, both destructors |
| `TcpClient` | the connection (under `M_mutex`), `M_connect`, `M_retry` | `connect`, `disconnect`, `stop`, `newConnection`, `removeConnection`, the destructor |
| `EventLoopThread` | the thread, its loop (`M_loop`, under `M_mutex` in part) | `startLoop`, `threadFunc`, the destructor |
| `EventLoopThreadPool` | the threads, their loops, the next index | `start`, `getNextLoop`, `getLoopForHash` |
| `ThreadPool` | `M_queue`, `M_running`, `M_threads`, two condition variables | `start`, `stop`, `run`, `take` |
| `BlockingQueue`, `Date`, `Timestamp`, `Atomic`, `Thread`, `MutexLock`, `Condition`, sockets and addresses | | helpers |

### 1.2 How they interact

* One thread owns a loop. It alternates between `poll()`, the dispatch of the
  active channels, and `doPendingFunctors()`. Timers are the handler of one
  more channel.
* Other threads reach a loop only through `queueInLoop()`: a push under the
  mutex, then a write to the eventfd. Everything a connection, a connector or a
  timer queue does for another thread goes through this queue.
* A `Channel` is registered with the poller by raw pointer, in the map and in
  the kernel. The tie to its owner, the index, and the assertions of
  `removeChannel()` and of the destructor are what keeps these pointers valid.
* `TcpServer` and `TcpClient` own connections; `handleClose()` calls back into
  the owner, which queues `connectDestroyed()` in the connection's loop.
* A `TcpServer` accepts in its base loop and deals connections out to the loops
  of its `EventLoopThreadPool`. A connection goes down in its own loop, is erased
  from the map in the base loop, and is destroyed in its own loop again.
* An `EventLoopThread` keeps a loop on the stack of its thread; its owner is
  handed the pointer and ends the thread by `quit()` and `join()`.
* A `Connector` hands a connected descriptor to its `TcpClient` and is told to
  `restart()` when that connection goes down.
* `ThreadPool` is independent of the loops.

### 1.3 What is hard

The code's hazards are listed one by one, at their lines, in `PROJECT.json`.
In groups: wakeups that may be lost (eventfd, two condition variables,
timerfd); raw pointers in kernel and functors while addresses and descriptors
are reused; unlocked check-then-act on `M_state` and `M_connect`; close paths
that may run twice; output that may be reordered, dropped or cut by a half
close; objects that are destructed while callbacks and functors with their
address are on the way; retries and delays that fire late; index and width
boundaries.

### 1.4 What makes each part correct

* `EventLoop`: functors run once, in order, soon; `quit()` ends the loop.
* Pollers: what is polled is what was asked for; only live channels are called.
* `TimerQueue`: each timer runs unless cancelled; a cancelled one does not.
* `TcpConnection`: bytes in order; half close after output; closed once.
* `EventLoopThread`: `startLoop()` returns the loop, the destructor ends it, and
  neither side uses what the other has destructed.
* `TcpServer`: each connection is established once, erased once, destructed only
  when it is down, and then surely; waiting peers are accepted.
* `Connector` and `TcpClient`: one attempt at a time, no socket leaked, retries
  go on until `stop()`, and a client that is gone is called no more.
* `ThreadPool`: tasks run while the pool does; `stop()` returns.
* `Buffer`: a queue of bytes.

## 2. How the source is read

The repository does not compile as it stands. Code that is well formed is taken
literally, surprising as it may be. Where it is not:

* An undeclared or misspelt identifier is the declared member it misspells:
  `M_loop = true` in `EventLoop::loop()` sets `M_looping`; `M_connected` in
  `Connector::restart()` is `M_connect`; `M_activeChannels.push_back` in the
  pollers appends to the argument; `M_start`, `kDisconneted`, `EACCESS`,
  `low_bound`, `POLLINVAL`, `M_timer.empty()` and the like; `runAfter()` passes
  no interval and is read as passing `0.0`.
* The comma in `it != M_activeChannels.end(), ++it` is a semicolon. The
  duplicated lines of `howMuchTimeFromNow()` (35-38) are skipped.
* `while(loop == NULL)` in `startLoop()` tests `M_loop`; `loop.lop()` is
  `loop()`; `Condition`'s constructor, which initialises its reference with
  itself, refers to its argument.
* Assignments in conditions that cannot compile are comparisons:
  `Channel::isNoneEvent()` and `TcpConnection::forceClose()`.
* `connectDestroyed()` is declared and bound but defined nowhere. It is modelled
  from its uses, as external.
* An assertion that states a caller's obligation is a guard. An assertion that
  the modelled code itself may break is a step that sets `aborted`, after which
  the program is over.
* Undefined behaviour is a choice over its outcomes. A call of an object that has
  been destructed is recorded (`touched`) and either ends the program or has no
  effect; a functor of a freed `Connector` ends it; the value of a function that
  ends without `return` is arbitrary.

## 3. Modules

| module | models | state and actions |
|---|---|---|
| `EventLoop` | `EventLoop.cpp` | `lpc` is the place in `loop()`; `EnterLoop`, `TestQuit`, `Poll*`, `HandleWakeup`, `HandleEvent`, `SwapFunctors`, `CallFunctor`, `FunctorsDone` are its steps; `LoopQueueInLoop`, `LoopQuit` are calls by user code in the loop thread; `QueueInLoop`/`Quit` followed by `Wakeup` are calls in other threads, with every interleaving between the two halves |
| `SerialExecutor` | the promise of `queueInLoop()` | abstract specification of `EventLoop` |
| `EventLoopThread` | `EventLoopThread.cpp`, `Thread.cpp` | extends `EventLoop`; `tpc` is the place in `threadFunc()` (`ConstructLoop`, `CallbackReturns`, `Publish`, `CallLoop`, `LoopRuns`, `ClearLoop`, `DestructLoop`), `opc` the owner's in `startLoop()` (`StartThread`, `CheckLoop`, `SpuriousWakeup`, `ReturnLoop`) and in the destructor (`TestLoop`, `DestructorQuits`, `Join`); `ThreadQueues`, `ThreadQuits`, `ThreadWakeup` are users of the loop |
| `EventLoopThreadProofs` | | theorems about `EventLoop` and `EventLoopThread` |
| `Channel` | `Channel.h/.cpp`, the dispatch in `loop()` | channels at reusable addresses, the iteration over `M_activeChannels`; extended by both pollers |
| `EPollPoller` | `EPollPoller.cpp` | `UpdateAdds`, `UpdateModifies`, `RemoveChannel`, `PollReturns`; `epoll` is the kernel's table |
| `Poller` | the promise of `Poller.h` | abstract specification of `EPollPoller` |
| `EPollPollerProofs` | | theorems |
| `PollPoller` | `PollPoller.cpp` | the same actions on `M_pollfds`, plus `UpdateAborts` and `RemoveAborts` |
| `PollPollerProofs` | | theorems |
| `TimerQueue` | `TimerQueue.cpp`, `Timer.h` | `HandleRead`, `RunTimer`, `CallbackReturns`, `Reset` are one call of `handleRead()`; `AddTimer`, `Cancel` in the loop thread, `ThreadAddTimer`, `AddTimerReturns`, `ThreadCancel` in another; `Tick` is the clock; `stale` says that a handler has set the timerfd again after `poll()` reported it, so that `handleRead()` finds nothing to read |
| `TimerQueueProofs` | | theorems |
| `TcpConnection` | `TcpConnection.cpp`, `TcpServer::removeConnection` | `Poll` picks the handlers of one report, `CloseEvent`, `HandleRead`, `HandleWrite` run them; `Run*` are the functors; `Send`, `Shutdown`, ... are calls in the loop thread; `Test`, `SetState`, `QueueInLoop` the three steps of a call in another thread; `overtaken` records that such a call met a closed connection |
| `TcpConnectionProofs` | | theorems about `TcpConnection` and about `Buffer`, in which it keeps its bytes |
| `ThreadPool` | `ThreadPool.cpp` on `Condition.h` | `pc` says whether a thread waits, has been woken or is elsewhere; one action per critical section |
| `ThreadPoolProofs` | | theorems |
| `Buffer` | `Buffer.h`, `Buffer.cpp` | methods are operators on a record, actions call them |
| `ByteQueue` | what a `Buffer` is for | abstract specification of `Buffer` |
| `Connector` | `Connector.cpp` | methods are operators that return the records they may leave; the actions follow the phases of a loop iteration; it has no specification of its own |
| `TcpClient` | `TcpClient.cpp` | extends `Connector`; `Writable` is the connector's `handleWrite()` with `newConnection()`; `HandleClose`, then `RemoveConnection` or `DetailRemoveConnection`, then `RestartConnector` are one `handleClose()`, with other threads between the steps; `BeginCall`, `CallConnector`, `QueueElsewhere` are the three steps of `connect()` and `stop()` in another thread, `ConnectInLoop` and `StopInLoopThread` those calls in the loop's; `Hold` and `Release` are what users do with `connection()`; `DestructConnected` and `DestructUnconnected` are the destructor, `KeeperExpires` its timer, which `Poll` makes due in any later iteration; `StrayFunctor` is a functor whose connector is gone |
| `TcpClientProofs` | | theorems about `TcpClient` and `Connector` |
| `TcpServer` | `TcpServer.cpp`, `Acceptor.cpp`, `EventLoopThreadPool.cpp` | `Swap`, `TestQuit`, `Runs` are the iterations of every loop; `NewConnection` and `AcceptFails` are the two outcomes of `Acceptor::handleRead()`; `HandleClose`, in the dispatch or in a `forceCloseInLoop()` among the functors, and `RemoveConnection` run in the connection's loop, `RemoveConnectionInLoop` in the base loop; `Destruct`, `DestroyConnection`, `QuitLoop`, `DestructAcceptor` are the destructor and its members' |
| `TcpServerProofs` | | theorems |

`EventLoop` keeps only what the functor queue needs of channels, and the poller
modules keep only what channels need of the loop; `TcpConnection`, `TimerQueue`,
`TcpClient` and `TcpServer` use the result of `EventLoop`, a FIFO of functors
executed one at a time in batches, in place of the loop. `TcpServer` uses what
`EventLoopThread` shows, that the loops run when `start()` returns and have ended
when they are joined. `TcpServer` and `TcpClient` keep of a connection its state
and who refers to it; what it does with bytes is in `TcpConnection`.

A definition whose comment begins with "Fault" is a variant of the definition
that follows it, with one plausible mistake. It is used in no specification;
with it in place of the original, the property named in `PROJECT.json` fails.

Atomicity. A critical section is one step. Code of the loop thread between two
points where user code runs, or where it reads what other threads write, is one
step. Three exceptions are simplifications: a method of `Connector` reads
`M_connect` once although `startInLoop()` followed by `retry()` reads it twice;
`handleClose()` reads and sets `M_state` in one step; and `disconnect()` sets
`M_connect` and shuts the connection down in one step.

## 4. Runs

All bounds are constants of the configurations; every `Max...` constant is a
bound of the model and not of the code.

| run | question | result |
|---|---|---|
| `EventLoopThread` | an owner, another thread, 3 functors, 1 I/O channel | passes |
| `EPollPoller` | 3 channel addresses, 2 descriptors | passes |
| `PollPoller` | the same | passes |
| `PollPollerInterest` | is what was asked for polled? | no, finding |
| `TcpConnection` | 2 bytes, every call in the loop thread, racing with every call of another thread | passes |
| `TcpConnectionWrite` | does "write complete" mean written? | no, finding |
| `TimerQueue` | 2 addresses, 2 timers, delays and intervals 0..2 | passes |
| `ThreadPool` | 2 workers, 2 callers, 4 tasks that may call `run()`, 2 places | passes |
| `Buffer` | 2-valued bytes, up to 7 bytes of storage | passes |
| `TcpServer` | 3 peers, 2 I/O loops, 2 descriptors | passes |
| `TcpClient` | 2 connections, 3 calls of `connect()` and `stop()` in any order, in the loop thread and another | passes |
| `TcpClientStartAgain` | may `connect()` be called again? | no, finding |

The passing runs check (the type invariants are stated in the modules, and hold):

| run | properties |
|---|---|
| `EventLoopThread` | `NoLostWakeup`: the loop never blocks with a functor pending that nobody will wake it for; `ImplementsSerialExecutor`: once, in order; `EveryFunctorRuns`; `StartLoopReturns`, `DestructorReturns`: neither waits for ever; `DeadLoopWindow`, `ThreadLeavesObject`: neither side uses what is gone |
| `EPollPoller` | `IndicesAgree`: index, map and epoll set tell the same; `ReportedChannelsLive`: no dead channel is reached; `ImplementsPoller`: epoll waits for what was asked for |
| `PollPoller` | `IndexConsistent`: positions survive the swaps, and every entry leads to a live channel |
| `TcpConnection` | `WritingIffPending`, `BytesInOrder`, `HalfCloseAfterOutput`: the output; `ClosedOnce`, `DestroyedIsQuiet`: the close; `ClosingCompletes`, `DownIsDestroyed`: progress |
| `TimerQueue` | `SetsAgree`: both sets hold the same timers; `ArmedForEarliest`: the alarm is not too late; `CancelIsFinal`; `TimersRun` |
| `ThreadPool` | `WakeupsCover`: one notification per push and pop is enough; `QueuedTasksRun`, `StopReturns`, `CallersUnblock`: progress |
| `Buffer` | `ImplementsByteQueue`: bytes come out as they went in |
| `TcpServer` | `DestructedDisconnected`: `~TcpConnection()`'s assertion; `ServerAssertionsHold`; `DeadServerWindow`: who may still call a server that is gone; `ClosedIsDestructed`, `PeersAreAccepted`: progress |
| `TcpClient` | `SingleAttempt`, `SocketsAreOwned`, `RetryIsPending`, `ClientAssertionsHold`: the attempts; `DeadClientUntouched`, `DeadConnectorUnregistered`, `OrphanEndsDisconnected`: the destructor; `StopSettles` |

### 4.1 Why the bounds are enough

* `EventLoopThread`: a lost wakeup needs one functor pushed while another runs
  and a thread that is between push and wakeup: two functors and one thread. The
  owner is a second thread, so that one wakeup may be consumed while another is
  owed; the third functor gives a batch of two and a queue behind it. The proofs
  remove the bound for the safety properties.
* Pollers: three addresses and two descriptors let an address be reused while
  its old descriptor belongs to another channel, and let the swap-with-last move
  an entry that is not the removed one.
* `TcpConnection`: two bytes give a direct and a buffered part, or a buffered
  byte and a later send; a high-water mark of two is crossed from below. Users
  queue a functor only when none is pending (`MaxQueue`): a thread that waits to
  queue has already tested and set the state, and nothing reads the queue but
  the loop at rest, so that two calls are in flight at once all the same. Once a
  call has been overtaken by the close (below), nobody calls any more.
* `TimerQueue`: two addresses and sequence numbers of two timers suffice for a
  batch of two, for a cancellation across timers and for the reuse of an
  address. Delay 0 is an expiration that has passed.
* `ThreadPool`: two waiters on each condition variable with two places; one
  notification too few shows with the second. Four tasks let a worker fill the
  queue, call `run()` and wait for a place after the other worker has exited.
* `Buffer`: `kCheapPrepend` and `kInitialSize` of 2 with calls of up to 3 bytes
  reach every branch of `makeSpace()` and both branches of `readFd()`. An
  `int16_t` is one byte here, so that a buffer of 7 holds an `int64_t`.
* `TcpServer`: with two I/O loops one is being joined while connections close in
  the other; three connections on two descriptors make accepting wait for a
  close; the round robin comes back to the first loop.
* `TcpClient`: retry delays 1, 2, 4, 5 reach the cap through a doubling that
  exceeds it. Three calls are `connect()`, `stop()` and `connect()` again, and every
  other order; they may come while the connector is idle, connecting, connected or
  waiting for its timer, from the loop thread and from another. A second connection
  is the one that `restart()` makes while pointers to the first still exist. Two
  retry timers pending (`MaxTimers`) are one more than there should be. The proofs
  remove all four bounds for the safety properties.

`CHECK_DEADLOCK FALSE` is set where the system may stop: a connection that is
destroyed, a pool that is stopped (or whose workers are all stuck in `run()`), a
thread that has been joined, a server or a client that is gone, a program that an
assertion has ended.

### 4.2 Fairness

* `EventLoopThread`: weak fairness of the thread and its loop, of the owner once
  it is in a call, and of a thread that owes a wakeup. I/O, the poll timeout and
  spurious wakeups of the condition variable are excluded, so that the progress
  shown is the wakeup's doing. User callbacks return.
* `TcpConnection`: each iteration of `loop()` ends with `doPendingFunctors()`,
  hence strong fairness of the functor steps (events may keep arriving); a peer
  that keeps reading makes the socket writable again, hence strong fairness of
  the write event; the delay timer and the owner's loop go on. Nobody has to
  call anything.
* `TimerQueue`: time passes, callbacks return, functors run in each iteration.
* `ThreadPool`: each thread that holds a runnable position runs; tasks return.
  No spurious wakeup is relied upon.
* `TcpServer`: every loop goes on, and so does the destructor once it has begun;
  the pollers are level-triggered, so that a listening socket on which a peer
  waits is reported in iteration after iteration: strong fairness of accepting.
  No peer has to connect or to close.
* `TcpClient`: the loop goes on; an attempt ends with POLLOUT or POLLERR, which
  the kernel's connect timeout guarantees; a pending timer comes due; a thread in
  `connect()` or `stop()` goes on.

### 4.3 Findings

Three runs end in a violation: the code does something that one of its own
comments or assertions excludes. `PROJECT.json` quotes the lines.

* `PollPollerInterest`: `PollPoller` never polls a channel again whose interest
  once was empty.
* `TcpConnectionWrite`: `handleWrite()` drops what a partial write leaves and
  reports completion.
* `TcpClientStartAgain`: a second `connect()` while the first has its effect, a
  `stop()` in between or not, fails `assert(M_state == kDisconnected)` in
  `startInLoop()`.

All these behaviours are in the passing runs of their modules as well: what these
check holds all the same, or names the behaviour as its exception.

More behaviour of this kind is in the models and is not a run of its own:

1. `ClosesWhileOpen` (`TcpConnection`): `stopRead()` and then a close:
   `disableAll()` registers the channel with epoll again, and a hang-up closes
   the connection a second time. `ClosedOnce` says that a second `handleClose()`
   comes from such a channel and from nothing else.
2. `EventLoopThread`: a `quit()` before the thread enters `loop()`, by the
   destructor after `startLoop()` or by user code, in the init callback too, is
   forgotten (`lostQuit`), and the destructor joins for ever. If user code
   quits the loop early, `M_loop` may be `NULL` again before `startLoop()` looks:
   it waits for ever (`userQuit`), or the destructor calls a loop that is gone
   (`touched`).
3. `TcpServer`: a removal queued in the base loop when the server is destructed
   runs on the dead server (`late`); `connectDestroyed()` queued in a loop after its
   last swap is thrown away, and the connection destructed while it is connected
   (`dropped`). `start()` is documented as thread safe, but the pool asserts the base
   loop's thread.
4. `TcpClient`: `restart()` undoes a `stop()` that comes between the test of
   `M_connect` and it (`raced`); its retry timer may then overtake `resetChannel`
   and fail `assert(!M_channel)` in `connecting()`, and so may a `start()` that
   overlaps (`overlapped`). A client that is destructed in the iteration in
   which it got connected fails the same assertion in `~Connector()`, and one that
   is destructed while functors of the connector are queued leaves them a freed
   connector (`abandoned`). The destructor's timer does both if the loop has not run
   the functors of `stop()` within its second (`slow`). `unique()` errs over the
   functor of a `send()` (`shared`) and over a user who drops the pointer to an open
   connection once the client is gone (`letGo`).

The variables named in 2 to 4 are histories: a property that has one of them as
its exception says that nothing else leads to the bad outcome. Besides:

* A call of another thread that was tested before and takes effect after the
  close (`forceClose()`, `shutdown()`, `startRead()`, `stopRead()`) sets
  `overtaken` in `TcpConnection`. The connection may then be closed twice, go
  back to `kDisconnecting`, or be registered with the poller again after
  `connectDestroyed()`. The run explores this; the properties of the state hold
  up to that point, `BytesInOrder` always.
* Tasks that call `run()` may all wait for a place in the queue of their own
  pool (`AllWorkersInRun`). The model reaches this deadlock; `ThreadPool`'s progress
  properties do not catch it, they exclude this state and show that nothing else
  stops the pool.
* `ZeroThreadsUseBaseLoop` (`TcpServer`, with `NumThreads = 0`): without I/O threads
  `getNextLoop()` returns no value, although `TcpServer.h:59` says that "0 means all
  I/O in loop's thread".
* `IdleFdTakesPeers` (`TcpServer`): the errno of a failing `accept(2)` is lost in
  `setNonBlockAndCloseOnExec(-1)`, so that the idle descriptor is never used and a
  peer that finds no descriptor left is not turned away. Under the same fairness the
  property holds if `ErrnoAfterAccept` keeps its argument.
* `ConnectionEndsDisconnected` (`TcpClient`): `~TcpClient()` closes the connection only
  if `unique()` says that nobody else has it. A user of `connection()` that drops its
  pointer later, or a queued write complete callback, then destructs it connected,
  against the assertion of `~TcpConnection()`.
* `RemoveSucceeds` (`PollPoller`): `removeChannel()` aborts for a channel that
  was never enabled, as in `~Acceptor()` before `listen()`.
* `NoRunAfterCancel` and `AddTimerReadsItsTimer` (`TimerQueue`): a timer
  cancelled by another timer of its batch still runs; `addTimer()` in another
  thread reads the timer after it may be deleted.
* `ReadIntReturnsTheInt` and `PrependIntPutsTheInt` (`Buffer`): `readInt64()`
  returns 32 bits, `prependInt16()` prepends four bytes.

Each of the named formulas is stated in its module and fails when it is added to
the module's own configuration.

## 5. Proofs

### 5.1 EventLoop

Assumptions: `EventLoopAssumption` (the null values are no members of the sets).
`Threads`, `Functors` and `Channels` are arbitrary, possibly infinite.

`NoLostWakeup` speaks about the moment the loop blocks. It is not inductive: it
says nothing of the states from which the loop gets there. The invariant `IInv`
is `TypeOK`, `PhaseInv` (which of the loop thread's locals are in use at which
place, and that `M_callingPendingFunctors` is set exactly in
`doPendingFunctors()`) and `SignalInv`, which extends the claim to every place
but the dispatch of events. The dispatch is the one phase in which the eventfd
may be read while functors are pending; `doPendingFunctors()` follows it and
takes them. `SignalPreserved` shows for each action that a functor added in the
remaining phases comes with a readable eventfd or with a thread at its
`wakeup()`. `NoLostWakeupHolds` follows at `lpc = "poll"`.

`Refinement` maps `SerialExecutor`'s queue to the rest of the batch followed by
`M_pendingFunctors`. The swap is a stutter because the old batch is empty then
(`PhaseInv`); a push appends at the end of the concatenation; `CallFunctor`
takes its head. Three lemmas about sequences carry this.

### 5.2 EventLoopThread

Assumptions: `EventLoopAssumption`, and that the owner is one of the threads.

`ThreadRunsLoop` shows that a behaviour of `EventLoopThread` is one of
`EventLoop`: each step of the thread, of the owner or of a user is one of the
loop's actions or leaves its variables alone (`StepIsLoopStep`). What is proved of
`EventLoop` so carries over: `ThreadNoLostWakeup`, `ThreadImplementsExecutor`.

`DeadLoopWindow` and `ThreadLeavesObject` are about two threads that share `M_loop`
without the mutex. `DestructorInv` adds what makes them inductive: `M_loop` is set
exactly from the publication to the return of `loop()` (`Published`); the owner is
past `startLoop()` only when the loop was published (`OwnerKnows`); `loop()` returns
only with `M_quit` set, and that was done by a user, or by a destructor that is
past its test (`QuitHasCause`); so a destructor that has seen a loop finds it, or a
user has quit it (`TestedLoop`).

### 5.3 EPollPoller

Assumptions: `ChannelAssumption`, `EPollAssumption`. Channels and descriptors
are arbitrary sets.

The properties each relate two of the three tables (index, map, epoll set), and
none is inductive alone: to see that removing one channel leaves another's entry
alone one needs that entries, map and indices determine each other. `TablesAgree`
says so in all directions, and that a channel without an entry asks for nothing.
`DispatchSafe` adds that a channel waiting for its handler is registered and is
not the current one; so `removeChannel()` refuses to remove it and the
destructor, which requires the removal, cannot run. `IndicesAgreeHolds` and
`ReportedChannelsLiveHolds` follow from these two.

`Refinement` maps `watched` to what the epoll set holds for a live channel.
`WatchedIsAsked` shows that it equals `M_events` in every state, so that each
step is a change of one channel's interest in both, or a stutter.

### 5.4 PollPoller

Assumptions: `ChannelAssumption`. Channels and descriptors are arbitrary sets.

`IndexConsistent` is about channels that are alive and registered, and is not
inductive: swap-with-last writes the index of whatever channel the last entry
belongs to. `TablesAgree` follows a circle instead: a descriptor leads by
`M_channels` to its channel, the channel's index to an entry, and the entry back
to the descriptor (`ChannelKnowsFd`, `ChannelKnowsEntry`, `EntryKnowsChannel`).
The closed circle makes positions unique, which is what the swap needs.
`RegisteredChannelsUpdate` adds that the assertions on the entry hold for every
channel that is in the map: `UpdateAborts` needs one that was removed and kept its
index.

### 5.5 ThreadPool

Assumptions: `ThreadPoolAssumption`: finitely many threads, workers and callers
disjoint. `MaxQueueSize` is any natural number, 0 being no bound.

`WakeupsCover` compares the length of the queue, and the places left in it, with
the number of threads that were notified and have not run since. The proof
follows these two counts: a step moves one thread from label to label and
notifies at most one more, or all. `UnstartedIdle` and `TasksAtHand` are added to
make it inductive: a worker which `start()` has not created waits nowhere, and a
thread that pushes has a task to push.

### 5.6 TimerQueue

Assumptions: `TimerQueueAssumption`. Addresses are reused without bound.

The three properties need to know where a `Timer` may be: in a functor of
`addTimer()` that has not run (`QueuedTimersWait`), in the sets, or in the batch of
`handleRead()`. Sequence numbers are given out once (`SequencesDistinct`), so that a
cancelled number never comes back at a reused address. `CancelledOnlyInBatch` is
the core of `CancelIsFinal`: a cancelled timer that is still live is in the batch
with its identity in `M_cancelingTimers`, where `reset()` deletes it instead of
inserting it again. `AlarmInTime` is `ArmedForEarliest` for each timer; the step to
the minimum is `EarliestIsLeast`, from the well-foundedness of the numbers.

### 5.7 TcpConnection

Assumptions: `TcpConnectionAssumption`.

The inductive invariant has one part for each thing a step may rely on: nothing
has happened before `connectEstablished()`, which comes once (`EstablishedOnce`);
a handler finds the channel as `poll()` did (`ReportIsFresh`); a queued
`shutdownInLoop()` finds the connection closing (`ShutdownIsAnnounced`); the
owner is told once (`OwnerToldOnce`) and a connection that is down asks for
nothing (`QuietWhenDown`). The last two hold until a call of another thread is
overtaken by the close, and so do `ClosedOnce`, `DestroyedIsQuiet` and
`HalfCloseAfterOutput`. `WritingIffPending` and the order of the bytes hold always.
`HalfCloseAfterOutputHolds` is an action property: each of the two steps that half
close is looked at with the invariant in its first state.

`Types` is weaker than `TypeOK` in one place: that no more bytes are accepted than
were asked for depends on the sum of the lengths of all sends under way, in the
queue and in the threads, which is an induction over data. TLC checks it.

### 5.8 TcpServer

Assumptions: `TcpServerAssumption`; `ServerAssertionsHoldHolds` also assumes an I/O
loop, since without one `getNextLoop()` has no value (4.3) and the program
ends there. The other two theorems hold without.

The assertions depend on the order of functors in two queues at a time. `Core`
says for each functor where it may wait and in which state its connection then is
(`FunctorsBelong`), and that only `connectDestroyed` may come behind another
functor of its connection (`FunctorsInOrder`); so that the second of two cannot
find its assertion false. A connection is handed on from the map to
`handleClose()`, to the base loop's queue and to its own loop's:
`ClosingBeforeRemoval` and `MapIsComplete` keep it from being removed twice,
`DestructionIsQueued` keeps it referenced until it is down. `RemovalsAreLate` and
`LoopsAreJoined` are the window after the destructor: all loops are over when the
server is gone, and what is queued in the base loop by then was recorded.

### 5.9 TcpClient and Connector

Assumptions: `ConnectorAssumption` and `TcpClientAssumption`. Threads, the range of
the retry delay, the number of connections and the number and order of the calls of
`connect()` and `stop()` are arbitrary. All seven invariants and the types are proved,
in three layers.

`IInv` is inductive by itself. It gives the types, `SocketsAreOwned`,
`RetryIsPending`, `DeadClientUntouched` and `OrphanEndsDisconnected`, none of which is
inductive alone, since each depends on the connector's state following the
connection:

* `Sound`: by itself, the connector has a registered channel exactly while it is
  `kConnecting`, with one socket for it; a connection means `kConnected`;
  `resetChannel` is queued once, and exactly while the channel is removed but not
  yet reset.
* `ConnsInv`, `AliveInv`: at most the last connection is open or in
  `handleClose()`, and the connector counts it. While the client lives, it is
  `M_connection`. The connector is `kConnected` from the hand-over of the socket
  until `restart()`: nothing makes a second connection in between.
* `GoneInv`: a client that went leaves a connector that is `kConnected`, and then
  passive, or was told to stop; if it is `kConnecting`, `stopInLoop` is queued. An
  open connection has the `detail::removeConnection` callback, and a functor that
  will close it or a user, unless it is in `shared` or `letGo`.
* `LoopInv`: when `handleError()` has ended an attempt and `handleWrite()` follows for
  the same report (`pollout`), it meets a disconnected connector.
* `PendingInv`: as `RetryIsPending`, which needs the rest to be inductive.

`SerialInv` holds until a `start()` does not find the connector idle: the theorem is
`Spec => [](overlapped \/ SerialInv)`. It says that the right to make the next
attempt is in one place (`TokenInv`): the functor of a `start()`, the attempt, the
connection or one retry timer; that `M_connect` is off while a `stopInLoop` is on its
way unless `restart()` undid it (`StoppedInv`); and that a retry timer finds
`resetChannel` done (`ChannelInv`): it cannot be ripe in the dispatch that sets it, and
`resetChannel` is in the batch of functors that follows. A `stop()` followed by a
`start()` of an idle connector is within it; this is what makes `SingleAttempt` and the
assertions of `startInLoop()` and `connecting()` (`StartsInv`) hold over any number of
such rounds.

`FateInv` is about what the client leaves behind when it goes: a connector's functor
that is still queued is covered by the timer, or is recorded in `abandoned` or `slow`
(`LeftInv`); `resetChannel` runs in the iteration that made the connection
(`ResetInv`), so that `~Connector()` can meet it undone only there; and the program
ends in no other way (`EndInv`). `DeadConnectorUnregistered` and the rest of
`ClientAssertionsHold` follow.

The lemmas describe the methods of the connector field by field (`StartOutcome`,
`AttemptFails`, `AttemptSucceeds`) and then each action by them.

### 5.10 Buffer

Assumptions: `BufferAssumption`. The sizes of the header, the vector, `extrabuf`,
the integers and the data are arbitrary; the bound `MaxSize` only restricts which
calls are made.

The inductive invariant, `WellFormed`, is the picture in `Buffer.h`, the indexes in
order within the vector, and that the vector has the place of the header, to which
`retrieve()` sets the indexes back; that is also why the readable bytes fit when
`makeSpace()` moves them: it does so only if the reader index is behind that place.
`Content` is a `SubSeq`; the lemmas compare two contents byte by byte (`ContentIs`)
for each method, and `readFd()` and `shrink()` follow from those of `append()`.
`BufferRefinement` then maps each call to the operation of `ByteQueue` it records.
It says nothing of the integers that `readInt64()` and its like return
(`ReadIntReturnsTheInt`, section 4.3, fails).

### 5.11 Only model-checked

* Liveness under fairness: `EveryFunctorRuns`, `StartLoopReturns`,
  `DestructorReturns`, `ClosingCompletes`, `DownIsDestroyed`, `TimersRun`,
  `QueuedTasksRun`, `StopReturns`, `CallersUnblock`, `ClosedIsDestructed`,
  `PeersAreAccepted`, `StopSettles`. Out of the prover's reach.
* In `TcpConnection`, that `accepted` does not exceed `asked` (5.7): an induction
  over data.

## 6. Not modelled

* `BlockingQueue`: a template that nobody instantiates and that cannot be
  instantiated: `MutexLockGuard(M_mutex);` is turned into an error by the macro of
  `Mutex.h:59`. With the guard named it would be the unbounded case of
  `ThreadPool`'s queue.
* `Date`: closed formulas without state, used by nothing else.
* `Socket`, `SocketsOps`, `InetAddress`, `Endian`, but for the parts section 3
  names: wrappers of system calls and address formatting, pure I/O.
* `Timestamp`, `Exception`, `StringPiece`, `Types`, `Callbacks`, `Atomic`,
  `DefaultPoller`: no protocol. `waitForSeconds()`, `getLoopForHash()` and
  `getAllLoops()` have no caller.
* `~TcpClient()` in a thread other than the loop's ("not 100% safe"), and
  `TcpServer::start()` outside the base loop's thread (asserted against).
* `send()` of another thread binds a raw `this`; in `TcpConnection` the connection
  outlives its functors. The functors that hold a `shared_ptr` to a connection, and
  the raw pointers to servers, clients and connectors, are modelled.
* `~TimerQueue()`: it deletes the timers that wait when the loop itself is
  destructed, after which no module goes on.
* `remove()` of a channel that was never handed to the poller: a caller's error, which
  the guards of `RemoveChannel` (the index, `M_addedToLoop`) exclude.

## 7. Plan

Done: `EventLoop` and its proofs; the pollers and `EPollPoller`'s proofs;
`TcpConnection`; `TimerQueue`; `ThreadPool`; `Buffer`; `Connector`; then
`EventLoopThread`, whose run took over `EventLoop`'s, and its proofs; `TcpServer`
with `Acceptor` and `EventLoopThreadPool`; `TcpClient`, whose run took over
`Connector`'s. Then the proofs about `PollPoller`, `ThreadPool`, `TimerQueue`,
`TcpConnection` and `TcpServer`; and those about `TcpClient` with `Connector`, and
`Buffer`. Last, `TcpClient` with repeated calls, pointers that users drop at any time
and a keeper that may expire early, and its proofs without a hypothesis on the calls.

Left: `~TcpClient()` in a thread other than the loop's, which needs its members to
be read and freed in separate steps; and, should `BlockingQueue` be made to
compile, its run next to `ThreadPool`'s.
