# cc_muduo in TLA+

A verification development for cc_muduo, a reactor-style C++ network library
(the repository's `src/`): TLA+ modules that model its components, TLC
configurations that check them on small instances, and theorems checked by
TLAPS.  `PROJECT.json` lists, machine-readably, which definition models which
lines, what every run checks, and which bug each property would notice.

## The system

One `EventLoop` belongs to one thread.  It waits in `epoll_wait`, calls back the
`Channel`s that are ready, and then runs the functors that other code queued.
Everything else hangs off a channel of some loop: the timers (a timerfd), the
acceptor (a listening socket), the connections, the client's connector, and the
loop's own eventfd, by which other threads should wake it.

| component | state it keeps | operations | interacts with |
|---|---|---|---|
| `EventLoop`, `CurrentThread` | `looping_`, `quit_`, `callingPendingFunctors_`, `pendingFunctors_` (under `mutex_`), the eventfd, `activeChannels_`; the thread's cached tid | `loop`, `quit`, `runInLoop`, `queueInLoop`, `wakeup` | every component queues functors; the poller returns channels |
| `EventLoopThread`, `Thread` | `loop_` (under `mutex_` and `cond_`), the child thread, the semaphore of its start | `startLoop`, `threadFunc`, the destructor, `start`, `join` | owns a thread whose stack holds an `EventLoop` |
| `EventLoopThreadPoll` | `loops_`, `threads_`, `numThreads_`, `next_` | `setTheadNum`, `start`, `getNextLoop` | gives `TcpServer` a loop for each connection |
| `TimerQueue`, `Timer` | `timers_` (a set ordered by expiration), the timerfd; each timer's expiration and interval | `addTimer`, `insert`, `cancel`, `handleRead`, `getExpired`, `reset` | a channel of the loop; `addTimer` queues its insertion |
| `EpollPoller`, `Channel` | `channels_`, the epoll set, `events_`; a channel's `events_`, `revents_`, `index_` | `poll`, `updateChannel`, `removeChannel`; `enableReading` and the like, `remove`, `handleEvent` | `EventLoop::loop` polls; every handler may change any channel |
| `Buffer` | one array, `readerIndex_`, `writerIndex_` | `append`, `readFd`, `writeFd`, `retrieve*`, `makeSpace` | two in each connection |
| `TcpConnection` | `state_`, its channel, socket and two buffers | `send`, `shutdown`, `connectEstablished`, `connectDestroyed`, the handlers | the user's callbacks; `removeConnection` of the server or client |
| `Acceptor` | the listening socket and its channel | `listen`, `handleRead` | calls `TcpServer::newConnection` |
| `TcpServer` | `connections_`, `nextConnId_`, the acceptor, the pool | `start`, `setThreadNum`, `newConnection`, `removeConnection`, the destructor | owns one reference to each connection |
| `Connector` | `connect_`, `state_`, `channel_`, `retryDelayMs_` | `start`, `stop`, `restart`, `handleWrite`, `handleError`, `retry` | a channel and retry timers of the loop |
| `TcpClient` | `connection_` (under `mutex_`), `retry_`, `connect_` | `connect`, `disconnect`, `stop`, `newConnection`, `removeConnection` | a connector and at most one connection |
| `Socket`, `SocketsOps`, `InetAddress`, `Endian` | a descriptor; an address | wrappers of system calls | used by all of the above |
| `Logger`, `Timestamp` | the level of the next message | `log`, `now` | called everywhere; `LOG_FATAL` exits |

What is hard, and what makes each component correct:

* **EventLoop**: several threads append functors while the loop swaps them out;
  the test for the wakeup reads a flag outside the lock; `quit()` races with
  `loop()`.  Functors must run once, in order, soon, and in the loop's thread.
* **EventLoopThread**: a semaphore and a condition variable between parent and
  child, and members the child uses until it ends.  `startLoop()` must return a
  loop that lives until the destructor, which must end.
* **TimerQueue**: one timerfd stands for all timers; the delay is truncated; a
  callback may add and cancel timers.  No timer may be early, forgotten, or run
  in a burst.
* **EpollPoller and Channel**: three views of one fact (`index_`, `channels_`,
  the kernel's set).  They must agree, or `epoll_ctl` fails and the process ends.
* **Buffer**: index arithmetic with a reserved prefix.  It must be a byte queue
  and must not grow with traffic.
* **TcpConnection**: the handlers, the functors, the program and the peer act in
  any order; writes are partial, block or fail.  The stream must be intact, every
  connection go up once, down at most once, and be destroyed.
* **TcpServer, Acceptor**: a connection outlives the map that held it; its
  descriptor is used again; accepting may fail.  No channel may outlive its
  connection, and everything closed must be given back.
* **Connector, TcpClient**: attempts, retry timers, `stop()` and a deferred
  deletion of the channel overlap.  Refusals must not end the process, an attempt
  and a connection never coexist, a retrying client connects at last, and no
  close or functor begins an attempt that nobody asked for.

## Modules

| module | models | form |
|---|---|---|
| `EventLoop` | `EventLoop.cpp`, `CurrentThread.cpp` | one step per access to shared state |
| `TaskQueue` | what `queueInLoop` promises | abstract: a FIFO of functors |
| `EventLoopThread` | `EventLoopThread.cpp`, `Thread.cpp` | one step per semaphore, mutex or loop operation |
| `TimerQueue` | `TimerQueue.cpp`, `Timer.h` | one step per functor, callback, or part of `handleRead` around them |
| `Channel` | `Channel.h`, the part of `EpollPoller.cpp` about one channel | operators on a record |
| `EpollPoller` | `EpollPoller.cpp` | composes channels with `poll` and its array |
| `Buffer` | `Buffer.h`, `Buffer.cpp` | the methods as operators, one step per call |
| `ByteQueue` | what a `Buffer` promises | abstract: a FIFO of bytes |
| `TcpConnection` | `TcpConnection.cpp`, `Channel::handleEvent` | one step per handler; uses `Channel` |
| `TcpServer` | `TcpServer.cpp`, `Acceptor.cpp`, `EventLoopThreadPoll.cpp` | one step per handler or functor |
| `Connector` | `Connector.cpp` | the methods as functions of a record |
| `TcpClient` | `TcpClient.cpp` | composes a connector with its loop, network and connections; one step per handler or functor |
| `EventLoopProofs`, `EventLoopThreadProofs`, `TimerQueueProofs`, `EpollPollerProofs`, `BufferProofs`, `TcpConnectionProofs`, `TcpServerProofs`, `TcpClientProofs` | | theorems about the module they are named for |
| `MC*` | | the instances TLC checks |

A definition whose comment begins with *Mutation* is no part of a
specification.  It is a wrong version of the definition that follows it, kept so
that every property can be seen to fail when the code has that bug.

How they fit together.  `EventLoop` is modelled at the grain of single shared
accesses and with user code as a location.  The other modules rely on what it
establishes (functors run once, in order, and at last) and so model a loop as
alternating events and functors.  `EpollPoller` shows the same for channels:
`TcpConnection` uses the same `Channel` record, and has `~ch.fatal` in its type
invariant.  `TcpConnection` treats `outputBuffer_` as a sequence, which `Buffer`
justifies (`QueueRefined`).  `TcpServer` and `TcpClient` keep of a connection only
what matters for its lifetime; that it says once that it is closed is
`OneDownPerUp` of `TcpConnection`.

### EventLoop

`pc` is where the loop's thread stands: `outside` loop(), at the `while`, in
`poll`, among `events`, about to `swap`, about to `run` a functor, or in user code
(`callback`, `functor`).  User code calls operations; `call[t]` is how far thread
`t` is in `queueInLoop` (appended, or about to write the eventfd) or in `quit`.
Critical sections of `mutex_`, reads and writes of the atomic flags and of the
eventfd are steps of their own, and interleave freely.  `executed`, `submitted` and
`ranIn` are history.

`Tid` is 0 in every thread.  `CurrentThread.cpp:11` reads `if (t_cachedTid=0)`: it
assigns, so the branch that asks the kernel is never taken.  `IsInLoopThread` is
therefore true everywhere, and `runInLoop` runs its callback in the caller's
thread.  `quit` from another thread writes no wakeup, and `queueInLoop` does so only
when it finds `callingPendingFunctors_` set, whichever thread calls it.  The model
has both branches, and takes what the compiled condition yields.

### EventLoopThread

Each object is a record with the owner's and the child's position, `loop_`, the
mutex, the semaphore and the loop's `quit_`.  One owner, several objects.
Waiting on the condition variable releases the mutex in the same step and may end
for no reason.  Objects in `EarlyQuit` have a loop that user code quits too: for
these only what holds regardless is claimed.

### TimerQueue

Time is a counter of ticks.  `HowMuchTimeFromNow` truncates to microseconds of
`Micro` ticks and raises to `MinDelay`, as lines 32-44 do.  `addTimer` numbers the
timer at once and queues the insertion.  `handleRead` is a step up to the first
callback, one for each callback and one for `reset`, so that anything may happen
in a callback, and time passes in it.  `getExpired` takes what expired strictly
before the clock it read; the timer that expires at that very instant stays.

### Channel and EpollPoller

A channel is a record of `events_`, `index_`, whether `channels_` has it, whether
and for what the kernel watches it, and whether an `epoll_ctl` failed in a way
that exits.  `Poll` returns any set of ready channels up to the array's size, and
doubles a full array.  Errors and hangups (`Unmaskable`) are reported of every
registered descriptor, even one that `updateChannel` has added with no events: a
`disable*` method called on a channel that is not registered does that.

### Buffer

`buf` is the array with its two indices, and the operators are the methods, with
the same arithmetic.  `Fill` is `readFd` after `readv` has returned, with the
64 KB array on the stack as `ExtraBuf`.  `RetrieveAsString` is guarded by what every
caller in the library sees to, that no more is taken than is readable:
`Buffer.h:60-65` does not check it, and would read past the readable bytes.

### TcpConnection

The kernel's socket is `wire` (all it ever accepted), `taken` (how much of that has
left the send buffer), the bytes waiting to be read, the peer's FIN, a reset and the
socket's pending error.  `Ready` is what `epoll_wait` reports.  `HandleEvent` follows
`handleEventWithGuard` (error, else hangup, else reading and writing). Bytes sent are
numbered; `Junk` is whatever lies in memory before the program's data, which the code
sends after a write that would block.  `StreamIsIntact` holds with such writes too:
what they displace is their own message and no other.  The program calls `send` (of
nothing, too: `SendEmpty`) and `shutdown` between handlers, which is also where the
end of a callback is.  `SIGPIPE` ends the process, for nothing in the library ignores
it: a reset whose error was already consumed, or was `EPIPE`, makes the next write
raise it.

### TcpServer

Connections are numbers in the order of `nextConnId_`.  `Referred` is who holds a
pointer: `connections_`, the functors queued, running and already run in the same
round (their vector is destroyed when the round is over), and the program.
`DeleteUnreferred` is the shared pointer's count reaching zero; the descriptor is
then free and may be the next one accepted.  The pool is there as the code has it:
`setTheadNum` assigns its parameter, so `numThreads_` stays 0 and `getNextLoop`
always answers with the base loop.

`Poll` reports any connections that read, those whose end can be noticed among them
(`seenClosed`).  A close cannot be noticed of a `deaf` connection: `BacklogDrains` is
`handleWrite` writing the last byte of its output, which disables reading
(`TcpConnection.cpp:190`), and a FIN that is not read is not reported, for
`EPOLLRDHUP` is not asked for.  A reset (`PeerResets`) is reported of every connection.

The server is destroyed when its loop has ended (`DestroyServer`) or by a message
callback of one of its connections (`MessageDestroysServer`).  The second is sound
only if nothing that the round still has to call is the server's: `rash` records
that the acceptor's channel, a connection only the server points to, or one
whose close has been reported (its close callback holds a plain pointer to the
server) was still in `activeChannels_`.  What follows then is undefined, so a rash state has no
successors and only the type and map invariants are claimed of it.

### Connector and TcpClient

A connector is a record and its methods are functions of it, composed as the code
calls them; a method that fails an assertion, goes through a null pointer or
reaches `LOG_FATAL` sets `fatal`.  What it queues is left in `queued`, and
`TcpClient`'s `Becomes` moves that to `pendingFunctors_`.  `channel_` is null, added,
or removed but not yet reset by its functor; `sockfd` is its descriptor until that
is closed or handed over.  As in the code, `handleWrite` gives the descriptor to
the new connection and `retry` closes the one it has (a `removeAndResetChannel` of an
already removed channel fails only when its descriptor is gone).

`TcpClient` adds the loop's round (`active`, `activeConns`, `pending`, `executing`),
retry timers with a weak pointer to the connector (`TimerFires` of a dead client does
nothing), the socket of the attempt (`pending` until the network answers, then
`connected`, `failed` or connected to itself), a server that comes and goes, and the
pointers to connections as in `TcpServer`.  `activeConns` are the connections that epoll
reports, for a close (`HandleClose`) or for data or room to write (`HandleMessage`).  A
functor of a destroyed connector, a close callback of a destroyed client, or a call
of the channel of a connection deleted earlier in the round, ends the process.

The code does not survive every legal call, and `mishap` records exactly those it
does not:

* `stop()` while connecting, or an attempt while a `stopInLoop` is queued:
  `stopInLoop` and `retry` both remove the channel, the second time of a closed
  descriptor;
* `connect()` while an attempt or connection exists, or after one was closed
  without a retry (`state_` stays `kConnected`): the assertion in `startInLoop`;
* an attempt that `connect()` refuses at once (`retry` goes through a null
  `channel_`) or for which there is no descriptor (`LOG_FATAL`), and one that fails
  with another error, which is not fatal but ends in silence;
* a socket that fails between `epoll_wait` and `handleWrite`, and a self-connection:
  `retry` removes a channel whose descriptor `handleWrite` has closed;
* a destruction while the connector has a channel (its destructor asserts that it
  has none), while a `stopInLoop` is queued, or, in a running loop, without a
  connection (a functor goes to the connector destroyed with the client), with one
  the program also holds (its close callback holds the destroyed client), or with
  one whose channel the round has still to call, for a close or for data (the
  connection is deleted under it).

`SurvivesRefusals` is `crashed => mishap`: whatever else happens, in any order and
for any number of attempts, the process lives.

## Runs

`expect: pass`.  Safety and liveness of a component are checked in one run.

| run | bounds | shows |
|---|---|---|
| `eventloop` | 2 other threads, 1 channel, 3 functors | the functors are a FIFO (`QueueRefined`); none that the loop's thread queued waits for the timeout (`NoStalledFunctor`); a round is what the swap took (`RoundIsFixed`); all run and `quit()` is obeyed (`FunctorRuns`, `QuitLeavesLoop`) |
| `eventloopthread` | 2 objects, one of them quit early | the semaphore outlives its post (`SemaphoreOutlivesPost`); the child never outlives the object; `loop_` is valid whoever quits the loop, and the destructor never goes through a dead one (`LoopPointerValid`); `startLoop()` returns |
| `timerqueue` | 2 timers, 6 ticks, intervals 1 and 2 | the timerfd is armed for the earliest timer (`EarliestIsArmed`); none is early, twice, or in a burst (`RunsWhenDue`); a cancel that found its timer in `timers_` is final (one that did not, cancels nothing) (`CancelIsFinal`); a scheduled timer runs |
| `epollpoller` | 2 channels, room for 1 | the three views of a channel agree (`EpollAgrees`); what is returned is registered, and beyond errors and hangups has only events it wants (`OnlyRegisteredAreReturned`); one that stays ready is returned (`ReadyChannelIsReturned`) |
| `buffer` | 2 byte values, at most 5 readable, chunks of at most 3 | a byte queue; its size follows the largest content |
| `tcpconnection` | 4 bytes out, 2 in the kernel, mark 2, 2 bytes in | each byte goes out in its place; only within a message whose write would block are bytes late, by one (`StreamIsIntact`); up once, then the data, then down at most once (`OneDownPerUp`); no byte after the write side is shut or the connection is down, no shut before the last byte (`NothingWrittenAfterEnd`); buffered output is written and announced (`DrainIsAnnounced`); a connection that is down or reset is destroyed (`EndedIsDestroyed`; a FIN that comes after a drained backlog is noticed by nobody, see `tcpserver`) |
| `tcpserver` | 3 clients, 2 descriptors | no channel of a deleted connection is known to the poller or about to be called, even if a callback destroys the server, unless that is rash (`NoDanglingChannel`); the server's and the poller's map agree; a connection that its peer resets is deleted, and one that it closes, unless its backlog has drained (`ClosedIsDeleted`); a client that found no descriptor is accepted later, unless such connections keep them all (`WaitingClientIsAccepted`) |
| `tcpclient` | 3 descriptors, one retry timer, one `stopInLoop` queued at a time | a client survives everything but the mishaps (`SurvivesRefusals`); an attempt and a connection never coexist, and descriptors are given back (`AttemptOrConnection`); a queued `resetChannel` hits its own channel (`ResetsOwnChannel`); an attempt begins in `connect()`, or at the close of a connection of a client that retries and has not been told to disconnect or stop since (`BeginsWhenAsked`); a retrying client connects when the server stays up (`ConnectsWhenServerIsUp`) |

`expect: violation`.  Each checks one sentence of the repository, which the code
breaks.

| run | sentence | what happens |
|---|---|---|
| `eventloop_runinloop_thread` | `EventLoop.h:35`, `runInLoop` runs the callback in the current loop | it runs in the calling thread: `tid()` is 0 everywhere |
| `eventloopthread_destructor` | `EventLoop.h:27`, `quit()` leaves the loop | a `quit()` made before the child reaches `EventLoop.cpp:58` is erased by `quit_ = false`, and the destructor joins for ever |
| `tcpconnection_shutdown` | `README.md:80`, `TcpConnection.cpp:284`, `shutdown()` closes the write side | with output buffered it never does: line 190 calls `disableReading` where the interest in writing should go, so `isWriting()` is still true |
| `tcpconnection_blocked` | `TcpConnection.cpp:123`, a write that would block is no error | `nwroter` stays -1 and is added to the pointer: a foreign byte is sent, and the last one is not |

Every constant is written with a value in its `.cfg`; no definition is replaced.
Why these bounds suffice to show what the properties are about:

* `eventloop`: two threads besides the loop's interleave in every pair of
  statements; three functors are one running, one in the vector and one queued.
* `eventloopthread`: a second object shows that a start can overlap another
  object's child, though never another start of the same owner.
* `timerqueue`: two timers are an earlier and a later one; with `Micro = 2` a
  delay of one tick truncates to zero and is raised to `MinDelay`; six ticks let
  a repeating timer of interval 1 fall behind by several.
* `epollpoller`: one more ready channel than the array has room for.
* `buffer`: prefix 1, size 3, so every append moves, grows, or fits, and a `readv`
  of three overflows into `ExtraBuf` (2) both with and without moving.
* `tcpconnection`: twice as many bytes as the kernel holds, so writes are full,
  partial and blocked, and the mark can be crossed from below.
* `tcpclient`: one descriptor for the attempt, one for a connection that is still
  referred to, and one for the next attempt before the second is closed; with all
  in use there is none, which the code does not survive.  Attempts, retries and
  server failures are not bounded at all.
* `tcpserver`: one client more than there are descriptors, so that accepting fails
  and a descriptor is used again while a pointer to its former owner may be kept.

`CHECK_DEADLOCK FALSE` is given where the modelled program ends: all objects
destroyed, the connection destroyed or the process killed, the loop left, the
client's process ended, the server destroyed rashly, the modelled time over.

Bounds in guards: `MaxTasks` in `QueueInLoop`, `MaxTimers` in `AddTimer`, `MaxTime`
in `Tick`, `MaxReadable` in `AppendData` and `ReadFd`, `MaxChunk` in `Chunks`,
`MaxSent` in `Send`, one queued `writeComplete` in `SendEmpty`, `MaxInbound` in
`PeerSends`, `MaxConns` in `ClientConnects`,
`~StopQueued` in `StopClient` (one `stopInLoop` queued at a time) and `~retry_` in
`EnableRetry` (the call is idempotent).

## Fairness

* A thread that can run, runs; user code returns.  This is the weak fairness of
  `FinishCall`, `OwnerStep`, `ChildStep` and each `LoopStep`.  `OwnerStep` begins with
  the owner's call of `startLoop()`: that it is made is assumed too, and nothing
  rests on it, for the properties of `EventLoopThread` speak of an object whose
  `startLoop()` or destructor has been entered.
* `epoll_wait` never waits longer than `kPollTimeMs` (10 s, `EventLoop.cpp:16`).
  `EventLoop` therefore needs no event for `Poll` to return: `UnaidedStep` is the
  loop's progress with no help from a channel.  Another thread writes the eventfd
  only while functors run, and in `quit` never, so this timeout is all that makes
  `FunctorRuns` and `QuitLeavesLoop` true for a functor or a `quit()` that comes
  while the loop waits; the properties' mutant, an infinite timeout, breaks both.
* `Tick`: time passes.
* `TcpConnection`: `connectEstablished` is the last statement of `newConnection`;
  the peer reads what it is sent, without which no server can drain its output.
  That it ever sends, shuts down or resets is not assumed.
* `TcpServer`: peers close at last (that they reset is not assumed) and the program
  lets its pointers go; a
  program that does not keeps the connection, and rightly so.  After a rash
  destruction nothing is assumed, for nothing is defined.
* `TcpClient`: the loop goes round, an attempt that waits has some answer (the
  kernel gives up at last), and the time of a retry timer comes.  That the server
  is ever up is not assumed: the property speaks of a server that does not go down.
* Nobody is assumed to call an operation, and nobody to destroy anything.

## Proofs

TLAPS proves the following for every value of the constants that the `ASSUME`s
allow: any number of threads, channels, functors, timers, clients, attempts and descriptors,
any sizes of buffers and arrays.  Each module of proofs rests on the `ASSUME`
of the module it is about and on nothing else.  Each has an
inductive invariant, which `InitInv` and `StepInv` (or lemmas for single actions)
show to hold at the start and to be kept, and which the other theorems follow from.

| module | theorem | statement |
|---|---|---|
| `EventLoopProofs` | `InductiveInvariant` | `Spec => []IInv` |
| | `TypeCorrect` | `Spec => []TypeOK` |
| | `NoFunctorStalls` | `Spec => []NoStalledFunctor` |
| | `RoundsAreFixed` | `Spec => RoundIsFixed` |
| | `ImplementsTaskQueue` | `Spec => QueueRefined` |
| | `FunctorsRunInOrder` | `Spec => []RunInOrder` |
| `EventLoopThreadProofs` | `Invariance` | `Spec => []Inv` |
| | `TypesAreCorrect` | `Spec => []TypeOK` |
| | `SemaphoreIsThere` | `Spec => []SemaphoreOutlivesPost` |
| | `NoChildIsLeft` | `Spec => []ChildDoesNotOutliveObject` |
| | `LoopPointerIsValid` | `Spec => []LoopPointerValid` |
| `TimerQueueProofs` | `InductiveInvariant` | `Spec => []Inv` |
| | `TypeCorrect` | `Spec => []TypeOK` |
| | `TimerfdIsArmed` | `Spec => []EarliestIsArmed` |
| | `TimersRunWhenDue` | `Spec => RunsWhenDue` |
| | `CancelledStaysCancelled` | `Spec => CancelIsFinal` |
| `EpollPollerProofs` | `InductiveInvariant` | `Spec => [](TypeOK /\ EpollAgrees)` |
| | `TypeCorrect` | `Spec => []TypeOK` |
| | `PollerAgrees` | `Spec => []EpollAgrees` |
| | `PollReturnsRegistered` | `Spec => OnlyRegisteredAreReturned` |
| `BufferProofs` | `InductiveInvariant` | `Spec => [](Inv /\ SizeIsBounded)` |
| | `TypeCorrect` | `Spec => []TypeOK` |
| | `SizeStaysBounded` | `Spec => []SizeIsBounded` |
| | `ImplementsByteQueue` | `Spec => QueueRefined` |
| `TcpConnectionProofs` | `InductiveInvariant` | `Spec => []Inv` |
| | `TypeCorrect` | `Spec => []TypeOK` |
| | `StreamStaysIntact` | `Spec => []StreamIsIntact` |
| | `CallbacksInOrder` | `Spec => OneDownPerUp` |
| | `EndIsFinal` | `Spec => NothingWrittenAfterEnd` |
| `TcpServerProofs` | `InductiveInvariant` | `Spec => []Inv` |
| | `TypeCorrect` | `Spec => []TypeOK` |
| | `MapsAgree` | `Spec => []ServerAndPollerAgree` |
| | `NoChannelDangles` | `Spec => []NoDanglingChannel` |
| `TcpClientProofs` | `InductiveInvariant` | `Spec => []Inv` |
| | `TypeCorrect` | `Spec => []TypeOK` |
| | `ClientSurvives` | `Spec => []SurvivesRefusals` |
| | `AttemptsAndConnections` | `Spec => []AttemptOrConnection` |
| | `OwnChannelIsReset` | `Spec => ResetsOwnChannel` |
| | `AttemptsBeginWhenAsked` | `Spec => BeginsWhenAsked` |

**`EventLoop`.**  `NoStalledFunctor` speaks of the moment before `epoll_wait` and is
not inductive: what the loop finds there was decided many steps before.  `IInv` adds
why.  A functor queued by a callback is taken by the swap of the same iteration
(`CallbackFunctorsTaken`).  One queued by a functor came after the swap, while
`callingPendingFunctors_` was set (`FlagMeansFunctors`), so its submitter goes on to
write the eventfd before the loop's thread can move (`CallsFromUserCode`), and the
eventfd stays readable until the loop reads it, from where the next swap is
certain (`FunctorFunctorsAnnounced`).  `VectorIsLocal` says that the vector is empty
outside of the round, which the refinement needs: the abstract queue is
`functors \o pendingFunctors`, the swap moves a part without changing the whole,
and `RunFunctor` takes the head of the whole.  The lemmas about concatenation say
so for any sequences.  `RunInOrder` is a consequence in terms of the functors: the k-th
to run is the k-th that was queued.  It is what lets `FunctorRuns` speak of a functor by
its number, and follows from the line of all that was ever queued (`LineInOrder`), which
`queueInLoop` extends and no other step changes (`StepOfLine`).

**`EventLoopThread`.**  The objects share nothing but their owner, so the invariant
speaks of one object (`OneObjectChanges`).  `Semaphore` ties the child's first step
to the owner's wait in `start()`; `Published` says at which places of the child the
loop exists, `loop_` points to it and the child holds `mutex_`; `Undisturbed`, for
objects nobody else quits, that the child leaves `loop()` only after the
destructor's `quit()`.  Without `Published`, `LoopPointerValid` cannot be carried
over `threadFunc`'s last steps.

**`TimerQueue`.**  A timer is in one place at a time (`Places`): queued, in `timers_`,
in `handleRead`'s vector, or cancelled.  What has run and may run again has the time
of its last run in its expiration (`Runs`), and what `handleRead` runs expired before
its snapshot (`Handling`): together at most one run an interval.  `Armed` restates
`EarliestIsArmed` timer by timer, so that inserting and cancelling need no minimum.
That the earliest exists is `MinFacts`, from the well-foundedness of `<`; what
`howMuchTimeFromNow` truncates is `DelayFacts`.

**`Channel` and `EpollPoller`.**  Here the invariant is inductive with the types.
`UpdateAgrees` and `RemoveAgrees` prove for one channel, in any state in which its views
agree (`ChannelAgrees`), that `updateChannel` with any new `events_` and
`removeChannel` leave them in agreement and call no `epoll_ctl` that fails.  A step of
the poller changes one channel by one of these.  `OnlyRegisteredAreReturned` follows:
what `Poll` returns is watched, so it is `kAdded` and in `channels_`, and what it is
watched for, beyond what cannot be masked, is what it wants.

**`Buffer`.**  The types are inductive; the work is in lemmas about the methods.
`WriteFacts` is the copy behind the readable bytes, `EnsureFacts` that `makeSpace`, by
growing or by moving, changes none of them and leaves room, so that `AppendFacts`,
`FillFacts` (`readFd` with its overflow) and `RetrieveFacts` can say what each method
does to the readable bytes alone.  These are steps of `ByteQueue`.

**`TcpConnection`.**  `Lifecycle` relates `state_`, the callbacks and the channel: a
connection that is up has a channel that is watched, one that is not has no
events.  `WriteSide` relates the bytes: what is written and what is buffered
make up what was sent, output in the buffer means that the channel waits to
write, and the write side is shut only when nothing is buffered.  The channel is
handled by `MethodFacts`, which says of each method what it does to the events and
that `ChannelAgrees` stays, the stream by the lemma on concatenation (`Halves`): a
`send` appends to wire and buffer (`SendStream`), a write moves a prefix.  What is
appended is the message or, if its write would block, `LateMessage`, a byte of junk and
all but the last byte; both are as long as the message, so that the next one begins in
its place, and `StreamIsIntact` is kept byte by byte (`SendKeepsPlaces`).

**`TcpServer`.**  `ServerAndPollerAgree` is nearly inductive.  It needs `Entries` (the
poller's map knows a channel by its own descriptor only), `Queues` (a connection is
in one functor), `Calls` (what is still to be called is in `connections_`, or held by
the program once the server is gone) and `Clients` (there is a number for every
client that waits).  `Remaining` is the deletion of what nobody points to, `Erased` is
`connectDestroyed`.  `Pool` carries the fact that `setTheadNum` has no effect.

**`TcpClient`.**  `AttemptOrConnection` says what coexists; whether the next step keeps it
depends on what the connector has left in the loop.  `OneAttempt` says which of the
functors of `removeAndResetChannel` and `retry` can wait in which state of the
connector: none while its channel is watched, a `resetChannel` while a removed channel
is still there.  `OneTimer` says that a retry is queued or its timer set, never both,
and that within one vector the `resetChannel`s come before the `insertTimer`
(`InOrder`), so that when the timer's `connect` runs, the channel of the old attempt is
gone; this also gives the single timer of `TypeOK`.  `Round` says the same of the events
that `epoll_wait` reported and the loop has not handled.  `Connections` says who still
points to a connection, so that a descriptor is used again only when nobody does.
`Luck` lists what is true as long as there was no mishap (no `stopInLoop` waits during
an attempt, nothing points to a destroyed client or connector): with it, each path to a
failed assertion or to `LOG_FATAL` goes through a mishap.  The methods of `Connector`
have lemmas of their own (`ConnectFacts`, `HandleErrorFacts`, `HandleWriteFacts`,
`StopInLoopFacts`), which say what they queue; `BecomesFacts` says what that makes of
`pendingFunctors_`.  `ResetsOwnChannel` and `BeginsWhenAsked` then need one step:
`StepKeepsChannel` and `StepBeginsNothing`.  All of it holds for any number of
descriptors, attempts and changes of the server.

**Only model-checked.**  All liveness (`FunctorRuns`, `QuitLeavesLoop`,
`StartLoopReturns`, `ScheduledTimerRuns`, `ReadyChannelIsReturned`, `DrainIsAnnounced`,
`EndedIsDestroyed`, `ClosedIsDeleted`, `WaitingClientIsAccepted`,
`ConnectsWhenServerIsUp`), which is beyond the prover.  Every other property of a
passing run has a theorem that states it.

## What the code does that its text does not say

The four violated sentences above have runs.  The following were met while
modelling, are in the models as the code has them, and have no run.

* `setTheadNum` assigns its parameter (`EventLoopThreadPoll.h:16`), so the threads
  that `TcpServer.h:41` and `README.md:91` promise are never started.
* `quit` from another thread never wakes the loop, nor does `queueInLoop`
  (`EventLoop.h:36`) unless functors are being run at that moment; they take effect
  within `kPollTimeMs`.
* After a backlog has drained, line 190 of `TcpConnection.cpp` has disabled
  *reading*: the connection receives nothing more, and since the interest in
  writing stays, `epoll_wait` returns at once for ever.  That its peer closes is not
  noticed either: unless the peer resets, the connection is never destroyed and
  its descriptor never given back, and when such connections have all of them,
  no client is accepted any more (`Exhausted` in `TcpServer`).
* `connectDestroyed` reports only a `kConnected` connection as down; one in
  `kDisconnecting` when the server is destroyed is not reported.
* `~TcpServer` run in a callback, with channels of other connections still in
  `activeChannels_`, deletes what the loop is about to call (`rash`).
* A failed write ends the process instead of closing the connection, as the comment
  in `TcpConnection.cpp:129` has it: `SIGPIPE` is ignored nowhere, and line 115 has
  `snprintf` write into a constant.
* A refused attempt is retried after as many milliseconds as its descriptor's number:
  `handleError` calls `retry(sockfd)` (`Connector.cpp:183`), and line 87 passes no delay
  either.  The delays of `Connector.h:31-32` are doubled but not used for these.
* `stop()` while connecting, which `Connector.h:28` offers, ends the process; a second
  `connect()` after a connection was closed fails an assertion; `disconnect()` while
  connecting does not prevent the connection, nor the next try of an attempt that waits
  for its retry timer (`Connector.cpp:197`); a `connect()` that is refused at once
  goes through a null channel; other errors end the attempt without a word.
* `~TcpClient` leaves its connection a callback to the destroyed client, and its
  connector a functor to the destroyed connector.
* A hangup that comes with data closes the connection before the data is read.
* `cancel()` does not find a timer whose insertion is still queued or that is in
  the batch being run: a repeating timer cannot cancel itself.
* `getExpired` and `reset` use `timers_` without the mutex that `insert` and
  `cancel` take.

## Not modelled, and why

* `Socket`, `SocketsOps`, `InetAddress`, `Endian`: wrappers; the callers' models say
  what the calls do to a descriptor.
* `Logger`: text only.  Its level and its message are two unsynchronised steps.
  `Timestamp` is a reading of the clock.
* The `MUDUO_USE_POLL` branch of `DefaultPoller.cpp` returns no poller.
* Several loops serving one server: `numThreads_` is always 0, so no connection
  is ever given to another loop.  `getAllLoops` changes nothing and is not called.
* Calls of `TcpConnection` and `TcpClient` by another thread in the middle of a
  handler: since `isInLoopThread()` is always true they run there and then, and race
  on plain members.  The models take them between two handlers.
* How long a retry of `Connector` waits, and a self-destruction of the client inside
  its own close callback.
* Data races on `std::set` and on plain pointers, where what a step does cannot
  be said.  `EventLoopThread`'s unlocked reads of `loop_` are modelled as the choice
  between the old and the new value.
* A callback that was never set: calling it throws, and every program sets it.
* Bytes of addresses and names, formatting, `build/` (output of CMake), `example/`.

## Plan

Done: 1 `EventLoop`, `TaskQueue`; 2 `EventLoopThread`; 3 `TimerQueue`; 4 `Buffer`,
`ByteQueue`; 5 `Channel`, `EpollPoller`; 6 `TcpConnection`; 7 `TcpServer`; 8 `Connector`;
9 `TcpClient`; 10 the theorems about 1 to 7; 11 the theorems about 8 and 9.

What is left, in this order:

12. The delay of a retry in `Connector`, and `TimerQueue` under it instead of the
    single retry timer.
13. The composition of `TcpClient` with the whole of `TcpConnection`, for a client
    destroyed in a message callback.
