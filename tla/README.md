# muduo_w: a TLA+ model of the network library

muduo_w is a reactor-style TCP library: *one loop per thread*. A base `EventLoop`
accepts connections, a pool of threads each runs a further `EventLoop`, and every
connection lives on one of them. Threads talk to a loop only by queueing functors
on it. This directory holds TLA+ modules that model the library, the TLC
configurations that check them, and TLAPS proofs of their main invariants.

## 1. Inventory

| Component | State | Operations | Correct when |
|---|---|---|---|
| `EventLoop` (`EventLoop.cc/.h`) | `quit_`, `callingPendingFunctors_`, `pendingFunctors_` under `mutex_`, `wakeupFd_`, `activeChannels_` | `loop`, `quit`, `runInLoop`, `queueInLoop`, `wakeup`, `handleRead`, `doPendingFunctors`, forwarding of channel updates | functors run once, in order, without waiting for unrelated traffic; `quit` ends `loop` |
| `EPollerPoller` / `Poller` | `channels_` (fd to Channel), `events_` (result array); the kernel's interest list | `updateChannel`, `removeChannel`, `update`, `poll`, `fillActiveChannels`, `hasChannel` | the three records of a registration agree, no stale pointer, no starvation |
| `Channel` | `fd_`, `events_`, `revents_`, `index_`, `tie_` | `enable*/disable*`, `remove`, `handleEvent`, `tie` | callbacks run only while the owner is alive |
| `EventLoopThread` / `Thread` | `loop_` under `mutex_` + `cond_`, the thread | `startLoop`, `ThreadFunc`, destructor; `start`, `join` | the pointer returned is to a live loop; the destructor ends and leaves no thread |
| `TcpConnection` | `state_`, `channel_`, `outputBuffer_`, `highWaterMark_` | `send`, `shutdown`, `sendInLoop`, `shutdownInLoop`, `connectEstablished/Destroyed`, `handleRead/Write/Close/Error` | the byte stream is intact, the user is told once of up and of down, nothing happens after down |
| `TcpServer` | `connections_`, `nextConnId_`, `started_` | `start`, `newConnection`, `removeConnection(InLoop)`, destructor | every connection is destroyed once, on its own loop |
| `Acceptor` | `listening_`, listening socket and channel | `listen`, `handleRead`, destructor | clients are served, also after `accept` has failed |
| `EventLoopThreadPool` | `threads_`, `loops_`, `next_` | `start`, `getNextLoop`, `getAllLoops` | round robin within bounds |
| `Buffer` | `buffer_`, `readerIndex_`, `writerIndex_` | `append`, `retrieve*`, `makeSpace`, `readFd`, `writeFd` | behaves as a queue of bytes |
| `Logger` | `LogLevel_` | `setLogLevel`, `log` | a message carries its own level |
| `Socket`, `InetAddress`, `Timestamp`, `CurrentThread`, `DefaultPoller`, `noncopyable` | thin wrappers and values | | |

How they interact: loops, channels and pollers by direct calls on the loop's
thread; everything else crosses threads through `queueInLoop` (a vector under a
mutex and an eventfd). `EventLoopThread` and its thread share `loop_` under a
mutex, except where the destructor reads it without. `TcpConnection` shares
`state_` (atomic) with callers on other threads. `TcpServer` and its connections
pass `shared_ptr`s in functors; `send` and `shutdown` pass a raw `this`. A
connection is made on the base loop, lives on its IO loop, is struck from the map
on the base loop again and destroyed on its IO loop: three hops, each a functor,
which `~TcpServer` may cut short.

What is hard: lost wakeups and lost quits; registrations that must agree with a
kernel that recycles descriptors; objects destroyed while a queue or a dispatch
still refers to them; test-then-set on `state_` across threads; shutdown with
data still buffered; connections that close while the server is being destroyed;
descriptors that run out; index arithmetic that moves or grows a buffer.
`PROJECT.json` lists every such hazard at its line.

The sample `muduo_server.cpp` is written against the original muduo headers and
is not part of the library; `mymuduo_notes.md` is read as documentation.

## 2. Modules

| Module | Models |
|---|---|
| `TaskQueue` | abstract: what a loop promises to whoever queues functors on it |
| `EventLoop` | `EventLoop.cc`, one step per access to data that threads share |
| `EventLoopProofs` | TLAPS: type invariant, no lost wakeup, no lost quit, refinement of `TaskQueue` |
| `EPollPoller` | `EPollPoller.cc`, `Poller.cc`, the registration side of `Channel`, the kernel's epoll set |
| `EPollPollerProofs` | TLAPS: the poller's inductive invariant, its types and its three safety properties |
| `EventLoopThread` | `EventLoopThread.cc`, `Thread::start/join`, composed with a whole `EventLoop` by `INSTANCE` |
| `EventLoopThreadProofs` | TLAPS: its loop is an `EventLoop`, outlives the calls into it, and no thread is left behind |
| `TcpConnection` | `TcpConnection.cc`, the connection's share of `TcpServer.cc`, the event dispatch of `Channel.cc` |
| `MCTcpConnection` | message lengths for the runs of `TcpConnection` |
| `TcpConnectionProofs` | TLAPS: the bytes of a connection and its end |
| `TcpServer` | `TcpServer.cc`, `Acceptor.cc`, `EventLoopThreadPool.cc`, and who holds a connection when |
| `TcpServerProofs` | TLAPS: types, start, end of the loops, round robin, for any number of loops and connections |
| `TcpServerDestructionProofs` | TLAPS: how connections end, with calls from any thread |
| `ByteQueue` | abstract: what a `Buffer` promises its users |
| `Buffer` | `Buffer.h`, `Buffer.cc`, down to the indices and the bytes of the vector |
| `MCBuffer` | the byte strings of the run of `Buffer` |
| `BufferProofs` | TLAPS: a Buffer stays well formed and in proportion, and implements `ByteQueue` |
| `Logger` | `Logger.cc` and the macros of `Logger.h` |

### EventLoop and TaskQueue

`pc` is the loop thread's place in `loop()` and `doPendingFunctors()`; its values
are explained in the module. Steps of the loop's own thread that touch nothing
shared are joined to a neighbour. A call from another thread is two steps: the
push under the mutex (`Push`) or the store (`SetQuit`), then the eventfd write
(`WriteWakeup`); `owes` holds the threads between the two. The eventfd is a
Boolean, counter above zero: that is all `epoll_wait` and a single `read` tell
apart. `looping_` is never read and is left out. `handed` and `ran` are history:
each functor is handed over at most once, so that `ran` identifies it.

`TaskQueue` has one FIFO queue; a closed queue still accepts functors, as the
code does, and never runs them. The refinement mapping is `queue <- functors \o
pendingFunctors_`, `open <- pc # "stopped"`.

### EPollPoller

One step per call into the poller, on the loop's thread, between `epoll_wait`s;
the `Channel` operations may come in any order on any live Channel during the
dispatch or the functors. `RemoveChannel` only comes in the functor phase, since
`connectDestroyed` is queued (`TcpServer.cc:116`) and the destructors that call
`remove` run outside `loop()`. A Channel object and a descriptor are used again
after destruction, which is what makes stale entries visible. `Update` covers
the result of `epoll_ctl`: a refused DEL is logged, a refused ADD or MOD is
`LOG_FATAL`. The kernel reports any subset of the ready descriptors that fits
the array. EPOLLHUP and EPOLLERR are left to `TcpConnection`. `Destroy` requires
that the Channel has been removed, as the destructors in the library do; the one
way they fail to is the `kDisconnecting` case of section 5.

### EventLoopThread

The owner goes through constructed, `startLoop`, use, destructor; `child` is the
thread's place in `ThreadFunc`. `Loop` is an instance of `EventLoop` whose only
outside thread is the owner. The condition variable is the guard on `loop_`:
`wait` re-tests after every wakeup, and a notification that is missed is one
after which `loop_` is set. `selfQuit` records that code run by the loop called
`quit()`, which the class does not provide for.

### TcpConnection

The IO loop is a `TaskQueue`, with the channel's events handled between functors.
In the code events and functors alternate in batches; the model lets them
interleave freely, which includes every order of the code. A handler is one step
up to the user's callback it ends in; `LeaveCallback` does what the code does
after that callback (`closeCallback_`, or `channel_->remove()`). Callers on other
threads take one step per access to `state_` and to the queue; the test and the store
of `connectDestroyed` are one step in which they may come between (`late`). `string`
is the caller's `std::string`, whose address is what `send` queues; with
`CallersWait` a caller leaves it alone until the loop has sent it. Nobody keeps the
connection for the raw `this` in a queued `sendInLoop` or `shutdownInLoop`: a caller
may let go of its pointer at any time (`Release`), and a functor that finds the
connection gone ends the behaviour there (`RunDangling`), since what the code does
then is undefined. A message is a
sequence of units the kernel accepts whole; `accepted` records what `sendInLoop`
took. `readable` is one bit, since a read takes all there is. A failed write may
end the process (`killed`): the library leaves SIGPIPE alone, and whether the
application ignores it is unknown. `~TcpServer` runs after the base loop has
ended and not on the IO loop's thread; from then on what `closeCallback_` queues
on the base loop is never run. `overwrote` records that a `shutdown()` on
another thread stored `kDisconnecting` over `kDisconnected`.

### TcpServer

Loop 0 is the base loop, run by the thread that constructs and destroys the
server: as in `main()` of the sample, the `EventLoop` comes before the server and
goes after it, and `~TcpServer` comes after `loop()` has returned. Loops 1 to
`numThreads_` are the pool's. A loop swaps its queue, runs the batch one functor at
a time, and keeps the batch, with the `shared_ptr`s bound in it, until it is done;
a turn with nothing to run and no `quit_` to see changes nothing and is left out.
`closing` is the point between the user's callback in `handleClose` and
`closeCallback_`, where the rest of the system moves on. Connection objects are
numbered in the order they are made; their names come from `nextConnId_` and wrap
at `MaxId`. A connection is alive while `connections_`, a functor, a handler or a
thread that is inside one of its functions holds it; `sendInLoop` is bound to a raw
`this` and holds nothing.

`Callers` are threads that run no loop and call `send()` and `shutdown()`: the test
of `state_` is one step, and the store or the functor another (`BeginShutdown`,
`SetDisconnecting`; `BeginSend`, `QueueSend`), between which anything may happen. On
the connection's own loop `shutdown()` is one step (`Shutdown`), as no other thread
stores `kDisconnected`; `send()` there registers nothing that was not registered.
`HandleClose` looks at no state, like `handleClose`: what limits it is that the
Channel asks for events (`watched`) and is still in `channels_` (`inPoller`).
`SendInLoop` may leave nothing over, or ask for EPOLLOUT, which puts a Channel back
into the poller that a close or `connectDestroyed` had taken out. Four history
variables say what out of the ordinary has happened to a connection, and the
properties name them where they make an exception: `overwrote`, a `shutdown()` has
undone `kDisconnected`; `revived`, a `sendInLoop` put the Channel back after
`connectDestroyed`; `dropped`, another connection's name took its place in
`connections_`; `lost`, its `connectDestroyed` went down with its loop. A
`sendInLoop` behind a pointer to a dead connection is undefined and does in the model
what it may do to a live one.

`main` follows the destructor: `connections_` is walked one connection at a time,
then the members go in the reverse order of their declaration, `threadPool_` (each
thread told to quit and joined before the next) before `acceptor_`. That
a pool's loop has entered `loop()` before the server is destroyed is assumed:
`EventLoopThreadQuit` shows what happens otherwise. `started_` is not initialised
by the constructor: `Init` lets it be 0 or not, and `garbage` remembers which.

### Buffer and ByteQueue

A Buffer is a record of the vector and the two indices, and the operators on
records are the member functions, by their names. `Copied` is `std::copy` into the
vector: what would fall outside is lost, so that a wrong index shows up both in
`TypeOK` and as lost bytes in `ImplementsByteQueue`. `readv` is given the writable
part and, where that is smaller than it, the stack array; `ReadFd` delivers any
string that fits both. The state function `Content(buf)` is the refinement mapping.
`retrieveAsString(len)` does not look at `readableBytes()`: the model calls it as
its callers do, with no more than there is.

### Logger

Each call of a macro is on a thread of its own: `setLogLevel`, then the switch that
reads the level back, then five insertions. The run is a violation run only: what
the module's one property says is what the notes promise and the code does not do.

## 3. Runs

| Run | Bounds | Shows |
|---|---|---|
| `EventLoop` | 2 threads, 3 functors, 1 I/O channel | type invariant; `NoLostWakeup`, `NoLostQuit`; `QuitEndsLoop`; refinement of `TaskQueue` with its liveness |
| `EPollPoller` | 2 Channels, 2 descriptors, array of 1 | `NeverFatal`, `KernelMatchesChannels`, `NoStalePointers`, `EventuallyReported` |
| `EventLoopThread` | 2 functors, 1 of them from `callback_` | `LoopOutlivesCalls`, `NoThreadLeftBehind`, `StartReturns`, `DestructorEnds` |
| `EventLoopThreadQuit` (violation) | same | `quit()` before `loop()` is lost, the destructor hangs |
| `EventLoopThreadWakeup` (violation) | same | the eventfd of a destroyed loop is written |
| `TcpConnection` | the loop's callbacks and 1 other thread, messages of 2 units and 1 unit, high-water mark 2 | `StreamIntegrity`, `WatchesWhileBuffered`, `FinAfterData`, `DownOnce`, `RemovedBeforeDestroyed`, `NoDataAfterDown`, `ShutdownSendsFin` |
| `TcpConnectionPayload` (violation) | 1 other thread that does not wait | the bytes sent are not those given to `send` |
| `TcpServer` | 0 to 2 IO loops, 3 connections, 2 names, 2 descriptors, 2 callers of `start`, no other callers | `OneDestructionAhead`, `NoDanglingChannel`, `ToldOfEnd`, `ServerOutlivesLoops`, `RoundRobin`, `StartsOnce`; `DestructorCompletes`, `ClientsServed` |
| `TcpServerCalls` | 0 or 1 IO loops, 2 connections of 1 name, 1 other thread with 1 `send` and any number of `shutdown`s | `OneDestructionAhead`, `NoDanglingChannel`, `DestroyedStaysOut`, `ToldOfEnd`, `DownConnectionsAreFreed` |
| `TcpServerLost` (violation) | 1 IO loop, 1 connection | `~TcpServer` queues `connectDestroyed` on a loop that ends without running it |
| `Buffer` | 2 byte values, initial size 3, 2 bytes kept at the front, stack array of 2, at most 5 bytes readable | `TypeOK`, `BoundedWaste`, refinement of `ByteQueue` |
| `LoggerLines` (violation) | 2 calls | a line carries another call's level |

Why the bounds are enough. Wakeups: two outside threads and three functors allow
one functor in the batch being run, one pending and one being pushed, with both
threads between push and wakeup. Poller: two Channels that swap two descriptors
are the smallest case of recycling, and an array of one is the smallest that
overflows; the proofs below cover every size. Connection: a message of two units
can be split by the kernel and buffered behind another; a caller and the loop's own
callbacks give every mix of direct and buffered writes, a `send` of either that has
passed its test when the other shuts down, and a close between the two steps of a
`shutdown`. A second caller adds only calls that the queue puts in some order, and a
run with two finds nothing new in six times the states; the proofs are for any number.
Server: with no IO
loop everything runs at once on the base loop, with one loop the hops are there, and
with two the threads end one after another; three connections wrap the round
robin and, with two descriptors, meet EMFILE and recover from it, and with two names
the third may push the first out of `connections_`. Calls: one `send` queued before a
close or a destruction is what it takes to put a Channel back, and one thread may
call `shutdown()` of the other connection, or of the same one, after it. Deadlock is not
checked where the modelled system comes to an end (`TcpServer`, `TcpConnection`,
`EventLoopThread`, `Logger`). Buffer: the sizes are the smallest in which the room
at the front exceeds what is kept there, a read overflows into the stack array, and
moving and growing both happen with bytes on either side of the indices; two byte
values tell positions apart.

### Fairness

- `EventLoop`: the loop's own steps, and a thread that owes a wakeup. Nothing is
  assumed of I/O events or of the 10 s poll timeout: the properties say what
  holds without them. User code returns.
- `EPollPoller`: the loop's thread turns. Which descriptors the kernel reports is
  not fair; the growth of the array is what prevents starvation.
- `EventLoopThread`: both threads run. When the owner starts or destroys the
  object is its own affair.
- `TcpConnection`: strong fairness for functors and for the handlers, because
  every turn of `loop()` dispatches all reported channels and then runs all
  queued functors, so neither can starve the other; weak fairness for callbacks
  that return and for calls that have begun. `HandleWrite` being fair also says
  that a peer which is there sooner or later lets the socket accept data.

- `TcpServer`: every loop and the destroying thread go on, a `start()`, `send()` or
  `shutdown()` once begun ends, and the listening socket is reported again as long as
  clients wait (strong fairness of `AcceptConnection`: it is level-triggered, and every
  turn handles what is reported). Clients, peers, `quit()` and the calls of `start()` are free.

Symmetry is not used: the larger runs check liveness.

## 4. Proofs

The proofs hold for any sets of threads, functors, messages, channels, descriptors
and connections. They use the named assumptions on constants, which TLC evaluates
in the runs, and two more, each in the statement of the theorems that need it:

| Assumption | Where | Why |
|---|---|---|
| `SetupTasks = {}` | `NoLostWakeupHolds` | a functor queued before `loop()` gets no wakeup (section 5) |
| `CallersWait = TRUE` | `StreamIntegrityHolds`, `FinAfterDataHolds` | a queued `send` is an address; the run `TcpConnectionPayload` shows the stream without it |

The theorems of `TcpServerDestructionProofs` need none: the exceptions are in the
properties, connection by connection.

Every invariant and every action property of the passing runs is proved.

`EventLoopProofs`
- `TypeCorrect`: `TypeOK`, which also ties the flag, the batch and the active
  channels to the places of `loop()` that use them.
- `NoLostWakeupHolds`, assuming `SetupTasks = {}` (nothing queued on the loop's
  thread before `loop()`, where it fails), and
  `NoLostQuitHolds`. `NoLostWakeup` speaks of `pc = "poll"` only and is not
  inductive. `WakeupInv` extends it backwards through the turn: at every place
  from which the loop can reach `epoll_wait` without passing the swap, a pending
  functor has a wakeup coming, and likewise `quit_`. The delicate step is
  `HandleWakeup`, which empties the eventfd with functors pending: it is safe
  because the swap comes between it and the next `epoll_wait`, and for `quit_`
  because the test does. `WakeupComingKept` says which steps cannot lose a
  wakeup.
- `RefinesTaskQueue`: the safety part of `ImplementsTaskQueue`. A push appends to
  the concatenation, taking the head of the batch takes its head
  (`AppendToConcat`, `HeadTailOfConcat`), and the swap leaves it as it is because
  the batch is empty then.

`EPollPollerProofs`
- `PollerInv` is inductive (`PollerInvHolds`) and implies `TypeOK`, `NeverFatal`,
  `KernelMatchesChannels` and `NoStalePointers`. `NeverFatal` needs the agreement
  of `index_`, `channels_` and the kernel's list; the agreement needs that no two
  live Channels share a descriptor (`OneChannelPerFd`), that what does not exist
  is blank (`UnusedAreBlank`), and that a Channel still to be dispatched stays
  registered (`ActiveStayRegistered`), which is why removal must be deferred. One
  lemma per action.

`EventLoopThreadProofs`
- `ImplementsEventLoop`: every step of the thread and its owner is, of the loop, a
  step of `EventLoop` with the owner as the only outside thread, or leaves it alone.
  The theorems of `EventLoopProofs` hold of it therefore, by an instance of that
  module; `TypeCorrect` uses its `TypeOK`.
- `LoopOutlivesCallsHolds`, `NoThreadLeftBehindHolds`. `ThreadInv` ties the owner's
  place to the thread's (`OwnerAndChild`): while the owner uses the loop the thread is
  in `loop()`, and after `join` it has ended. That this lasts is `RunsUntilQuit`:
  without `selfQuit` nothing but the owner's `quit()` stores `quit_`, and a loop with
  `quit_` clear does not stop (`LoopGoesOn`). The window of item 2 in section 5, in which the
  owner's `quit()` has stored and not yet written, is why `LoopOutlivesCalls` stops at
  the store.

`TcpConnectionProofs`
- `ConnInv` is inductive and, without further assumption, implies `TypeOK`,
  `WatchesWhileBuffered`, `DownOnce`, `RemovedBeforeDestroyed` and, with a look at
  every step, `NoDataAfterDown`. `DownOnce` is not inductive: that a second
  `handleClose` cannot come needs `DownIsUnwatched` (a connection that is down is out
  of the poller), `ToldOnce`, and `EstablishedFirst`: `connectEstablished` is the
  first functor of all, and runs once, so that nothing puts the Channel back.
  `StreamIntegrity` needs `CallersKeep` besides: a caller with a `sendInLoop` in the
  queue still has the message in its `string`. Each
  step does one of five things to the queue (`Queueing`), which keeps the argument
  about functors apart from that about bytes.
- `StreamIntegrityHolds`: `wire \o outputBuffer_ = accepted`. `sendInLoop` is taken
  apart once, in one lemma for its four outcomes (refused, nothing written, part or
  all written, behind what is buffered); the rest is associativity of `\o`.
  `FinAfterDataHolds` adds `FinDrained`: FIN is sent with an empty buffer, and nothing
  is buffered after it while the connection is up.

`TcpServerProofs`
- A loop has two queues, the batch it is running and the functors pending. `Ahead(l)`
  is both, one behind the other, and `Flow(l, d, m, f)` says of a step that loop `l`
  drops the first `d` of what is ahead of it and that `f` is added for loop `m`. A
  lemma per step says what its `Flow` is; from there on the proofs speak of `Ahead`
  only, and the swap is a step that does nothing.
- `ServerInv` (`ServerInvHolds`) implies `TypeOK`, `ServerOutlivesLoops` and
  `StartsOnce`. `Lifecycle` orders `main`, `phase` and `quit_`: the base loop ends
  before the destructor begins, a pool's loop when it is joined, with nothing
  pending. `Starting` and `Pooled` follow `started_` through the callers of
  `start()`, where one that has won the exchange has not yet made the pool.
  `Placed` says which loop a functor may be queued on, which is what makes
  `connectDestroyed` run on the connection's own loop.
- `RoundRobinHolds`: `Balanced` says more than the property, which loops have had one
  more connection than the others: those before `next_`.

`TcpServerDestructionProofs`
- `DestructionInv` (`DestructionInvHolds`) implies `OneDestructionAhead`,
  `NoDanglingChannel`, `DestroyedStaysOut` and `ToldOfEnd`. Its centre is
  `Destruction`: the end of a connection is always in one place, in `connections_`
  (from which `removeConnectionInLoop` or `~TcpServer` will take it), in a
  `connectDestroyed` ahead of its loop, or over: destroyed, lost with a loop that
  ended, or never to come because the connection was dropped. That it is there only
  once is claimed of the connections in `Sure`, to which neither `overwrote` nor
  `dropped` applies; of the others only what survives.
- `Removing` follows the hop before: for a connection in `Sure` a
  `removeConnectionInLoop` is asked for once, and finds it in the map while the base
  loop runs. Here the second `handleClose` bites: it needs a Channel that asks for
  events after the close (`Told`: one in `kDisconnected` does not), and so a
  `sendInLoop` that passed its guard, and so a `shutdown()` that undid
  `kDisconnected`: `overwrote`.
- `EstablishedFirst` says that `connectEstablished`, if it is still ahead, is before
  `connectDestroyed`: nothing else keeps a connection that has been destroyed from
  being put into the poller by it. `Late` says when a `sendInLoop` can do so: while the
  base loop runs a connection in `Sure` is destroyed in `kDisconnected` only, whose
  guard in `sendInLoop` holds; `~TcpServer` destroys it in any state.
- `Named` (every connection in the map is there under its own name) needs no fresh
  names: whoever loses the place to a newcomer is in `dropped` from then on.
- The steps of the server are put into a few forms first, by what they do to one
  connection `x` and to the functors ahead (`Unmoved`, `Accepted`, `ShutDown`,
  `WentDown`, `Removed`, `Destroyed`, ..., `KeptBut`); each conjunct of the invariant
  has one lemma over these.

`BufferProofs`
- All three properties of the run, for every initial size, room at the front, stack
  array and set of strings. One lemma per member function says what it makes of a
  `WellFormed` record: `RetrieveFacts`, `MakeSpaceFacts`, `AppendFacts`,
  `FilledFacts`. The last divides what `readv` delivered at the writable size and
  reduces the first part to a write in place and the second to an `append`.
- `BufferInv` (`TypeOK` and `BoundedWaste`) is inductive. Each operation leaves the
  vector's length or grows it to at most the room at the front and twice what is
  then readable (`Grew`): `makeSpace` grows only when the writable part and the
  room that reading has freed do not hold the new bytes, so the freed room, which
  is what the longer vector carries over unused, is smaller than they are.
- `RefinesByteQueue`: every operation is one of the queue's, with `Content(buf)` as
  the mapping; a `retrieve` beyond what is readable drops what there is. `ByteQueue`
  states no fairness, so this is the whole property.

Only model-checked: all liveness (`QuitEndsLoop`, the liveness half of
`ImplementsTaskQueue`, `EventuallyReported`, `StartReturns`, `DestructorEnds`,
`ShutdownSendsFin`, `DownConnectionsAreFreed`, `DestructorCompletes`,
`ClientsServed`): it rests on fairness and `ENABLED`, which TLAPS cannot prove. That
`~Buffer` and the getters change nothing, that a caller of `retrieveAsString` asks for
no more than there is, and that the steps chosen for each module are those of the
code, is read off the code and not proved.

## 5. Where the code and its own words disagree

The violation runs are listed under "findings" in `PROJECT.json`:

1. A `quit()` between `EventLoopThread.cc:50` and `EventLoop.cc:63` is erased, and
   the destructor of `EventLoopThread` waits for ever.
2. `quit()` from another thread may write to the eventfd of a loop that has ended
   and been destroyed (`EventLoop.cc:85-89`).
3. A `connectDestroyed` that `~TcpServer` queues on an IO loop which is running a
   batch, and is then told to quit, never runs, and the user of that connection is
   not told that it is down (`TcpServer.cc:40`, `EventLoop.cc:67`).
4. `send()` on another thread queues an address, not the data
   (`TcpConnection.cc:60`).
5. Lines of the log are not kept apart, nor are their levels (`Logger.cc:25-49`).

Seen while modelling, reached in the runs, expressed by the conditions of properties
and given no run of their own:

- `shutdown()` on another thread can undo `kDisconnected` (`TcpConnection.cc:128-130`):
  it tests `state_`, the connection goes down and its user is told, and then it
  stores. A `send()` queued before passes the guard of line 72, `enableWriting` puts
  the disabled Channel back on the epoll tree without EPOLLIN, and EPOLLHUP runs
  `handleClose` a second time: the user is told again, and `closeCallback_` and
  `connectDestroyed` come twice. Hence `overwrote` in `DownOnce`, `NoDataAfterDown`,
  `OneDestructionAhead` and `ToldOfEnd`; `DownOnce` without it (`downs <= 1`) fails
  with one caller.
- `connectDestroyed` in `kDisconnecting` removes the Channel but leaves the state
  open for a `sendInLoop` queued behind it, which registers the Channel again; the
  connection then dies with its Channel in the poller (`TcpConnection.cc:157`,
  `:119-122`). `RemovedBeforeDestroyed` is of connections that die in
  `kDisconnected` (`~Alive => ~inPoller` fails); `NoDanglingChannel` excepts
  `revived`, which `DestroyedStaysOut` traces to this under `~TcpServer`, or to the
  store above.
- A functor queued on the loop's thread before `loop()` gets no wakeup and waits for
  traffic or for 10 s (`EventLoop.cc:113`): `NoLostWakeup` is checked and proved
  for `SetupTasks = {}` only.
- `started_` is never initialised (`TcpServer.h:75`, `TcpServer.cc:17-23`): where the
  memory held anything but 0, `start()` starts nothing. `StartsOnce` has the premise
  `garbage = 0`.
- A connection that is being shut down when it is destroyed is not reported as down
  either (`TcpConnection.cc:157`, `kDisconnecting` in `ToldOfEnd`).
- When `nextConnId_` comes round (after 2^32 connections, past a signed overflow) a
  new connection may take the name of one that is alive; `connections_[connName] =
  conn` then drops the old one with its Channel in the poller. Both runs of
  `TcpServer` reach it; the connections it happens to are in `dropped`.
- A loop stopped by its own callback: `NoThreadLeftBehind` and `StartReturns` fail
  without `selfQuit` (`EventLoopThread.cc:15`, `:29`).
- `send` and `shutdown` queue a raw `this` (`TcpConnection.cc:60`, `:131`), and nothing
  keeps the connection until it is used: `RunDangling` is reachable in the runs of
  `TcpConnection`. No property says otherwise, as none could but by assuming it.
- SIGPIPE (`TcpConnection.cc:81`): `killed` is reachable, and the EPIPE branch
  works only where the application ignores the signal.
- `disableAll()` on a Channel that is not registered adds it to the epoll set with
  no events (`EPollPoller.cc:72`, reached by `~Acceptor` before `listen`), unlike
  the diagram in `mymuduo_notes.md:322-336`; the invariants hold all the same.
- After `handleClose`, `!isWriting()` no longer means that the buffer is empty,
  unlike the comment at `TcpConnection.cc:138-139`; `FinAfterData` is stated for
  connections that are up.

## 6. Not modelled, and the plan

Not modelled: formatting of addresses, times and log text, socket options, failures
of `socket`, `bind` and `listen` (they end the process); `CurrentThread` (thread
identity), `DefaultPoller` (one environment variable). The callback setters store
values before anything runs. A `TcpServer` destroyed by one of its own callbacks is
left out: the library shows no such use. Of `Channel`, the weak pointer `tie_` is
modelled by its effect, that a connection lives while one of its handlers runs. The
conditions of one `handleEvent` are tested on the `revents_` of one report; the
model lets the handlers interleave freely, which includes that order, and a handler
that finds its condition gone (`handleWrite` after a close) only logs.

All modules planned are there, and the safety of all of them is proved. What could
still be done:

1. `TcpConnection` and `TcpServer` treat a loop's queue as `TaskQueue` describes it.
   That every loop of `TcpServer` implements `TaskQueue`, with `Ahead(l)` as the
   mapping, would close the chain from `EventLoop` to the server.
2. What becomes of a connection after an exception of section 5, as theorems: which
   part of `StreamIntegrity` survives callers that do not wait, and how often at most
   a connection that closes again is destroyed.
