# Winterfell in TLA+

This directory is a specification of *winterfell*, a C++ network library in the
reactor style: one `EventLoop` per thread, built on `poll(2)`, an `eventfd` and
a `timerfd`, and on top of it TCP connections, a server, a client, a small HTTP
server, and a rate limiter. The modules describe what the code of
`src/winterfell` does, TLC checks them on small instances, and TLAPS proves
every safety property of these for every value of the constants. File names below are relative to
`src/winterfell`; identifiers are those of the source where TLA+ allows it.

1. [The system](#1-the-system)
2. [What is hard](#2-what-is-hard)
3. [The modules and the code](#3-the-modules-and-the-code)
4. [The runs](#4-the-runs)
5. [Fairness](#5-fairness)
6. [What is proved](#6-what-is-proved)
7. [What the models show the code to do](#7-what-the-models-show-the-code-to-do)
8. [What is not modelled](#8-what-is-not-modelled)
9. [Plan](#9-plan)
10. [Running it](#10-running-it)

## 1. The system

| Part | State | Operations | What makes it correct | Module |
|---|---|---|---|---|
| `EventLoop` | `looping_`, `quit_`, `pendingFunctors_` (under a mutex), `callingPendingFunctors_`, the eventfd | `loop`, `runInLoop`, `queueInLoop`, `quit`, `wakeup`, `doPendingFunctors`, the destructor | no wakeup is lost; a functor runs once, in order; a pass ends; `quit` works | `EventLoop` |
| `Channel`, `PollPoller` | `pollfds_`, `channels_`, each channel's `events_`, `index_` | `updateChannel`, `removeChannel`, `poll`, `fillActiveChannels` | the three structures agree; channels do not disturb each other | `PollPoller` |
| `TimerQueue`, `Timer` | `timerHeap_`, one timerfd | `addTimer`, `timerQueueCallBack`, `reset` | never early, once, and at all | `TimerQueue` |
| `Buffer` | a vector and two indices | `append`, `prepend`, `retrieve*`, `readFd`, `makeSpace` | it is a byte queue; its memory is bounded; the prepend area is kept | `Buffer` |
| `TcpConnection` | `state_`, `outputBuffer_`, its channel | `send`, `shutdown`, `handleRead/Write/Close`, `connectEstablished/Destroyed` | the stream is what was sent, in order; the FIN comes last; it is closed once | `TcpConnection` |
| `TcpClient`, `Connector` | two `connect_` flags, `retry_`, `state_`, `channel_`, `retryDelayMs_`, `connection_` | `connect`, `disconnect`, `stop`, `enableRetry`, the destructor; the connector's handlers | one attempt at a time; no socket leaks; `stop` is obeyed; retries succeed in the end | `Connector` |
| `TcpServer`, `Acceptor`, `SubLoops` | `loops_`, `next_`, `connections_`, `nextConnId_` | `start`, accept, `newConnectionCallback`, `removeConnection`, the destructor | polled channels belong to live objects; equal shares; every connection is established | `TcpServer` |
| `HttpServer`, `HttpContext` | the parser's state of each connection | `parseRequest`, `onMessage`, `onRequest` | requests are cut out of the stream as they were written, and answered in order | `HttpServer` |
| rate limiter (`base/wf_rate`) | `limit_`, `burst_`, `last_` (`tokens_` is never written) | `reserve`, `reserveN`, `delay` | nobody is told to wait for too long; who reserves again waits for new tokens; the limit is kept | `RateLimiter` |
| `MutexLock` | `holder_`, the pthread mutex | `lock`, `unlock`, `isLockeddByThisThread` | the holder is known; nobody is taken for it who is not between `lock` and `unlock` | `MutexLock`, used by `RateLimiter` |
| `Thread` | `started_`, the thread | `start`, the destructor | | partly, in `TcpServer` |
| `Conditon`, log, time stamps, sockets, endpoint | | wrappers and formatting | | not modelled |

How they interact. Everything that belongs to one loop runs on that loop's
thread: `poll()`, then the callbacks of the channels it reported, then the
functors. A loop owns a poller and a timer queue; the timer queue, the wakeup
descriptor, the acceptor, the connector and each connection own a channel,
whose `enable/disable` methods go to the poller and whose callbacks come from
`handleEvent()`. A `TcpServer` accepts on the main loop and hands each
connection to one of the loops of its `SubLoops`, round-robin; a `TcpClient`
makes its connection through a `Connector`; both own `TcpConnection`s through
shared pointers, and the functors queued on loops hold some of these, or bare
pointers. A connection reads into an input `Buffer`, which it passes to the
message callback - for an `HttpServer`, `onMessage()` with the `HttpContext`
that is kept in the connection - and writes from an output `Buffer`.

Other threads reach a loop through `queueInLoop()` only, except where the code
reads or writes a field directly: `state_` in `TcpConnection::send()` and
`shutdown()`, the two `connect_` flags of the client, `connections_` in the
server, `loops_` in the sub-loops, `last_` in the rate limiter. Those exceptions
are where most of the hazards are.

## 2. What is hard

- **Sleeping on work.** `queueInLoop()` may come between any two steps of the
  loop, from a callback, from a functor that is being run, or from a thread
  whose `wakeup()` is yet to come (`net/wf_event_loop.cc:109`).
- **Bookkeeping by index.** `removeChannel()` moves the last entry of `pollfds_`
  into the hole (`net/poller/wf_poll_poller.cc:96`).
- **One timerfd for many timers**, armed by whoever added a timer last
  (`net/wf_timer_queue.cc:57`).
- **Writes cut anywhere**, with `shutdown()`, further `send()`s and the peer's
  close coming in between (`net/wf_tcp_connection.cc:127`).
- **A connecting socket** that reports `POLLERR` and `POLLOUT` together, while
  timers expire and another thread calls `stop()` (`net/wf_connector.cc:143`).
- **Unlocked sharing** of `connections_` and `loops_` between the main thread and
  the sub-loops, and objects freed while they are being used
  (`net/wf_tcp_server.cc:71`, `net/wf_sub_loops.cc:27`).
- **Objects that go while others are still on their way to them**: a loop with a
  late `wakeup()` (`net/wf_event_loop.cc:131`), a server whose threads are still
  starting (`net/wf_tcp_server.cc:73`), a client in the middle of an attempt
  (`net/wf_tcp_client.cc:44`).
- **Input cut anywhere** for a parser that remembers where it was
  (`net/http/wf_http_context.cc:51`).
- **A clock read twice**, and a field written outside the mutex
  (`base/wf_rate.cc:77`).

`PROJECT.json` lists each of these, and more, at its line, with the properties
that would catch it going wrong.

## 3. The modules and the code

| Module | Extends or instantiates | Role |
|---|---|---|
| `TaskQueue` | | what `runInLoop`/`queueInLoop` promise: the abstract specification of `EventLoop` |
| `EventLoop` | `TaskQueue` | the loop, its queue, its wakeup, `quit()` |
| `QueueLemmas` | | lemmas on `Append`, `Head`, `Tail` and `Range`, and on an element that is queued once |
| `PollPoller` | | the poller |
| `EventLoopProofs` | `EventLoop`, `PollPoller`, `QueueLemmas` | proofs about the loop and about its poller |
| `ByteFifo` | | what a `Buffer` promises: a queue of bytes |
| `Buffer` | `ByteFifo` | the buffer |
| `TimerQueue`, `TimerQueueProofs` | | timers over one timerfd, and proofs |
| `MessageStream` | | what a connection promises to those who send: the abstract specification of `TcpConnection` |
| `TcpConnection` | `MessageStream` | one connection with its senders |
| `TcpConnectionProofs` | `TcpConnection`, `QueueLemmas` | proofs, the refinement included |
| `Connector` | | a client and its connector |
| `ConnectorProofs` | `Connector`, `QueueLemmas` | proofs |
| `TcpServer` | | the server with its acceptor and sub-loops |
| `ServerProofs` | `TcpServer`, `QueueLemmas` | proofs |
| `HttpServer` | | one HTTP connection |
| `InputProofs` | `Buffer`, `HttpServer` | proofs about what becomes of input: in the buffer, and in the HTTP parser |
| `MutexLock` | | the mutex with its holder |
| `RateLimiter`, `RateLimiterProofs` | `MutexLock` | a limiter and its callers, which lock its mutex, and proofs |
| `MC<module>` | `<module>` | the instances for TLC |
| `MCObjects` | `PollPoller`, `Buffer`, `RateLimiter` | one instance for the three components that only answer their callers |

Conventions. `pc` (or `main` and `thread`, or `call[t]`) is where a thread
stands; an action is what one handler does up to the next point where another
thread's step can make a difference, with every call it makes. What the kernel
answers - how much `write(2)` takes, what `poll(2)` reports, whether `connect(2)`
succeeds - is a choice in the action. A failed assert, a null or dangling
pointer, a `SIGPIPE` end the program: the action sets `fault` to the name of what
happened and nothing follows. Operators that are commented as a mutant are
wrong on purpose: each shows, put in the place of the definition beside it,
that a property would notice.

**EventLoop.** `pc` walks through `loop()`: `check`, `poll`, `events`, `handler`,
`functors`, `functor`. A call from another thread is two steps, the store under
the mutex and the `wakeup()`. `pending` is `pendingFunctors_`, `batch` the local
vector that `doPendingFunctors()` swapped out. `callingPendingFunctors_` starts
with either value, since the constructor does not set it. `eventFd` is whether
the counter is not zero. User code on the owner's thread - before `loop()`, in a
callback, in a functor - calls `runInLoop`, `queueInLoop` and `quit` at will. A
loop that has returned may be entered again, or destroyed (`Destroy`); a thread
whose own call made it return may by then not have got to its `wakeup()`, which
reads `eventFd` of an object that is gone (`LateWakeup`). There the model ends.

**PollPoller.** `pollfds`, `channels`, `index`, `events` as in the code, and one
action for each method that a channel's owner may call, in any order, including
the destruction of a channel and a new one on the same descriptor (`Rebuild`),
and `poll()` with `fillActiveChannels()`.

**TimerQueue.** Times are relative to now (`due[t]` is `when_ - now`), so that
behaviours are endless and states finite. `SetTime` is `timerfd_settime()` with
what the kernel does with a positive, a zero and a negative time. `heap`,
`expired`, `running`, `adds` are the four places where a timer may be.

**Buffer.** A buffer is a record (size, data, two indices) and each operation an
operator on it, `makeSpace()` with its two ways included. The state machine
applies them in any order.

**TcpConnection.** Messages are sequences of units; `SendInLoop` writes any
number of them, `HandleWrite` any number of what is in `output`. A sender on
another thread makes the test of `state_` and the queueing as two steps. The
owner is a server, which destroys the connection inside `handleClose()`, or a
client, which queues that. `writing` is the `POLLOUT` bit of the channel's
events, and poll() reports input and room in one `handleEvent()` or apart. Mapped
to `MessageStream`, the stream is what the socket took and `output` behind it; a
message that is dropped never gets into it.

**Connector.** `TcpClient` and `Connector` together: the loop's thread, and a user
who makes the calls of a *script* from the loop's thread (before `loop()`, or in
the connection callback) or from another thread, a field at a time. Attempts
fail at once, with `POLLERR`, with `POLLOUT` and an error, or succeed; retries
go through `timers`. The last call may be the destructor, which runs on the
loop's thread; the model goes on after it with what it leaves behind: the
attempt, the timers, the functors that are bound to the connector's bare
pointer. `client` is whether `~TcpClient()` has run, and with a connection or
not; `kept` that a `Timer` holds the connector, which no timer ever gives up,
since `TimerQueue` does not delete timers. A functor on a connector that
nothing holds is `RunFreed`.

**TcpServer.** The main thread and one thread per sub-loop. Whatever is shared
without a lock is accessed in two steps. A `push_back()` reads the size and then
writes the element, so that concurrent ones overwrite each other; one that read
a size which another has moved back since leaves the places in between
(`Beyond`) with whatever was there, a loop or none. Operations on
`connections_` that overlap leave the map in either of the states in which one
of them is lost (`raced`, `overlap`). The shared pointers are counted by
`Alive(c)`: who holds `c` is computed from where the threads stand and what is
queued. Handling an event of a freed channel is the fault `freedChannel`.
`~TcpServer()` may come at any time: it destroys the connections it finds, and
detaches the threads, whose loops go on - they hold what is queued on them. A
thread that is only starting then calls back into a server that is gone
(`serverGone`); `busy` says that the user did not wait (`LeftToDo`).

**HttpServer.** The client writes requests (`Write`), up to `MaxRequests` of them, at
any time (`pipelined`) or each when the one before has been handled. `stream` is
what it has written: the requests' lines, each a
sequence of tokens - a method, blanks, path, query, the version's prefix and
digit, a header's field, colon and value - made by `RequestLine` and
`HeaderLine`. The parser goes the other way, over the tokens, as
`parseRequestLine()` and `addHeader()` do over characters: the first blank, the
second, the question mark, the colon, the blanks to trim. What it takes for
granted, refuses or lets pass is therefore in the model, for the lines that the clients
write: bad request lines of several kinds, but every header line has a colon
(`RequestsAssumption`). The parser takes a line without one for the empty line at the end;
`ProcessHeader` says so, but no client of the model makes use of it, and what would
follow such a line is not looked at. Input arrives in
half-lines, so that a piece may end before, after or within a line. `context` is the
`HttpContext`; `handled` and `replies` record what the callback has seen and
what has been answered. The user's callback decides whether to set the
`Connection` header of its reply or leave it as it finds it (`choice`).

**RateLimiter.** One token is `interval` ticks long. A call of `reserveN()` is the
entry with the first reading of the clock, the second reading, the two steps of
`MutexLock::lock()` with `tokensAt()` at the end of the second, the two of
`unlock()`, and `setLast()` behind them; between any two of these the clock and the other
callers may move on. The clock is one for all threads and never goes back: one that is
set back while the program runs is left out. The mutex is an instance of `MutexLock`: `holder_` is written
before the pthread mutex is taken, and cleared before it is given back.

## 4. The runs

| Run | Instance | States | What it shows |
|---|---|---|---|
| `event_loop` | 2 other threads, 2 functors, 1 socket | 10,348 | `NoLostWakeup`; the loop implements `TaskQueue`; `PassIsBounded`; `QueuedFunctorRuns` and `QuitLeavesLoop` although nothing makes `poll()` time out |
| `objects` | one of three: a poller with 4 channels on 3 descriptors; a buffer of 2 + 3 bytes, 3 extra, at most 4 held; a limiter with 2 callers, with a limit or without, a burst of 2 tokens of 2 ticks, clock 4 to 6, 2 grants | 1,039,008 | `IndexConsistent`, `BookkeepingSound`, `OthersUndisturbed`; `ImplementsByteFifo`, `MemoryBounded`, `PrependRoomKept`; `WaitIsBounded`, `ReservationsAreSpaced`, `OnlyLockersHold` |
| `timer_queue` | two one-shot timers and a repeated one, delays -1 to 2 | 15,525 | `TimerInOnePlace`, `NeverEarly`, `OneShotRunsOnce`, `ArmedForSomeTimer`, `ArmedTimerRuns` |
| `tcp_connection` | a sender on another thread, one in the callbacks, 2 messages each of 2 units, both kinds of owner | 194,645 | the connection implements `MessageStream`; `WritingWhileOutput`, `FinAfterOutput`, `ClosedOnce`, `ShutdownCompletes` |
| `connector` | 13 scripts of one `connect()`, with what else a user may call, up to the destructor | 5,999 | `OneAttempt`, `SocketOwned`, `StopIsObeyed`, `AssertsHold`, `DestroyIsSafe`, `ConnectionComesUp`, `AbandonedAttemptEnds` |
| `tcp_server` | 2 sub-loops, 3 connections | 41,752 | `PolledIsAlive`, `RoundRobin`, `OnlyRacesLose`, `AcceptedIsEstablished`, `EndedIsReleased` |
| `http_server` | up to two requests, pipelined or not, each of 6 request lines and 5 lists of headers, every way to cut them | 281,474 | `RequestsFollowStream`, `RepliesFollowRequests`, `ParserLeaves`, `ClientIsServed` |
| `timer_queue_rearm` | one one-shot and one repeated timer | fails | `EveryTimerRuns`, see section 7 |
| `tcp_connection_dropped` | one message of each sender | fails | `NothingDropped`, see section 7 |
| `connector_restart` | `connect`, `disconnect`, `connect` | fails | `ClosedClientMayConnect`, see section 7 |
| `rate_limiter_limit` | 1 caller, a burst of 2 tokens of 2 ticks, clock 4 to 8, 5 grants | fails | `LimitIsKept`, see section 7 |
| `mutex_holder` | 2 callers of the limiter, whose mutex it is | fails | `HolderIsKnown`, see section 7 |

Why the bounds are enough to be of interest:

- `event_loop`: with two threads, one may store its functor while the other is
  inside `wakeup()`; with two functors there is one in the batch and one behind
  it, and the order of two can be wrong. A functor is handed over once, which
  is what makes the state space finite.
- `objects` is three instances in one, each with its own states: `which` says of which one
  a behaviour is, and the others stay as they began. They share nothing, no liveness
  is asked of them, and the callers of the limiter are symmetric.
  - The poller: a removal from the front, the middle and the end needs three
    entries; the fourth channel shares a descriptor with the first, as a new
    object on a reused descriptor does. No counter is bounded: the space is
    complete for these channels.
  - The buffer: chunks shorter than, equal to and longer than the room that can be
    left; the vector grows, and the data moves, in all combinations.
  - The limiter: two callers overlap in every way, and two grants are what
    `ReservationsAreSpaced` speaks of. The bucket is full at the start. With three
    grants and a clock from 4 to 7 it has 12,763,396 states without the symmetry, with the
    same result; its three properties are proved for any times and callers.
- `timer_queue`: an earlier, an equal and a later timer, and one that comes back.
  Times further in the past than one tick are not told apart, which nothing in
  the code does either. `runs` counts to 2, enough to see a second run.
- `tcp_connection`: a message in two units is one that can be cut once; with two
  messages of two senders each order between them can be wrong. The FIN, the
  peer's close and the destruction can come at any place.
- `connector`: `InitDelay` 1 and `MaxDelay` 3, so that the doubling both passes and
  hits the bound. A script is one `connect()` and all that makes sense after it;
  a second `connect()` is the run `connector_restart`. `ConnectionComesUp` asks for
  a client that is not stopped, `AbandonedAttemptEnds` for one that is destroyed;
  both kinds of script are there, with and without `enableRetry()`.
- `tcp_server`: two threads race in `push_back()` and in `erase()`, and the main thread
  with either; with three connections one loop has two. `~TcpServer()` comes at
  every place where the main thread is in its loop.
- `http_server`: a second request shows what the first left in the context. Two
  request lines are good (one with two question marks), four are not: an unknown
  method, an unknown version, no version, an empty line. Among the headers are
  blanks in front of, behind and within a value, a colon in a value, a blank in
  front of the colon, and one field twice.
- `rate_limiter_limit`: the instance of the echo server of the examples, where a tick is
  50 ms: a bucket of two tokens, one token in 100 ms, one caller. The clock goes far enough
  for five grants at one a tick, the first two out of the full bucket.
- `mutex_holder`: one thread to have the mutex and one to wait for it.

`CHECK_DEADLOCK FALSE` is given where the system stops: after a fault
(`PollPoller`, `TcpConnection`, `Connector`, `TcpServer`, `HttpServer`), when the
loop has been destroyed (`EventLoop`), with all scripts, messages and connections
at their end, or at the bounds of the clock and of the grants (`RateLimiter`).
`TimerQueue` is checked for deadlock.

Type invariants. Each module states one, `TypeOK` (`BufferTypeOK` and `PollerTypeOK`
where a module of proofs extends two). Those of `EventLoop`, `PollPoller`, `Buffer`,
`TcpConnection`, `Connector`, `TcpServer` and `HttpServer` are proved, and those of
`TimerQueue` and `RateLimiter` are, but for the bounds that only TLC needs
(section 6). They are not among the properties of the runs, which ask what could
really be wrong.

## 5. Fairness

Safety is checked and proved without fairness. For liveness:

- **A thread that can go on does.** Weak fairness of the loop's own steps, of the
  return from callbacks and functors (one that does not return blocks its loop,
  in this as in any reactor), and of the second step of a
  call that has begun. The code has no spinning and no priority; a mutex is held
  only for a swap or a push.
- **`poll()` returns when a descriptor is readable.** Never because of
  `kPollTimeMs`: a timeout may or may not come, so that a lost wakeup cannot hide
  behind it. In `TcpServer`, `TcpConnection` and `Connector`, a queued functor
  makes `poll()` return; that is the property `QueuedFunctorRuns` of `EventLoop`.
- **`TcpConnection`**: strong fairness of `poll()` reporting `POLLOUT` and of
  `HandleWrite` making progress: the peer reads, or closes. With a peer that does
  neither, no implementation could complete a `shutdown()`.
- **`Connector`**: strong fairness of an attempt that gets as far as
  `EINPROGRESS`, and of one that then succeeds: the server comes up some time.
  What is queued runs, on a connector that is still there or not.
  A retry's timer expires: `ConnectionComesUp` takes that for granted, although
  `timer_queue_rearm` shows that a loop with other timers may forget one.
- **`TcpServer`**: the loops of the sub-loops go on after `~TcpServer()`, as the
  detached threads do: `EndedIsReleased` depends on them.
- **`TimerQueue`**: weak fairness of `Tick`: time passes.
- **`HttpServer`**: what the client has written arrives. It need not write anything.

Nothing is assumed of what users, clients and peers decide to do otherwise:
nobody has to call, connect, speak or close.

## 6. What is proved

All theorems are checked by TLAPS from the specifications as TLC runs them. The
assumptions on the constants are those named in the modules
(`WakeupAssumption`, `FdAssumption`, `BufferAssumption`, `ConnectionAssumption`,
`TimerAssumption`, `DelayAssumption`, `RateAssumption`, `ServerAssumption`,
`TokensAssumption`, `RequestsAssumption`), and all of them are
evaluated by TLC on every run. Where a theorem has a hypothesis of its own, about
the calls a user makes, it is named below; the scripts of the run satisfy it.

**EventLoopProofs**, for any sets of threads, functors and channels.
- `TypeCorrect`: `Spec => []TypeOK`.
- `WakeupNotLost`: `Spec => []NoLostWakeup`. The property speaks of `check` and
  `poll` only, and is not inductive: the step into `check` comes from the end of
  a pass. `NoLostWakeupInv` says the same of every place except the two
  (`events`, `handler`) from which a whole pass is certain to follow, and the
  end after a late wakeup, and adds that `callingPendingFunctors_` is set while
  functors run. The second conjunct needs the first, since a functor's own
  `queueInLoop()` wakes only because of that flag.
- `PassesAreBounded`: `Spec => PassIsBounded`, from `BatchInPass`: no vector is
  in the hands of `doPendingFunctors()` outside its pass, so that the swap, the
  one step that refills the batch, starts from an empty one.
- `LoopImplementsTaskQueue`: `Spec => ImplementsTaskQueue`, with the queue mapped to
  `batch \o pending`. A queueing step appends at its end, `RunFunctor` takes its
  head, and the swap is a stutter because of `BatchInPass`. The
  `QueueLemmas` say what `Append` and `Tail` do to a concatenation and to a range.

**EventLoopProofs, the poller**, for any channels and any assignment of descriptors.
- `PollerTypeCorrect` and `IndexStaysConsistent`: `PollerTypeOK /\ IndexConsistent` is inductive;
  neither part is alone, since the positions that `removeChannel()` writes are in
  range only because the indices agree, and type correctness of the array comes
  from that. There is a lemma for each method and each of the two invariants.
  The removal has the cases of the last entry and of a swap; `EntryOwner` finds
  the channel whose entry is moved.
- `BookkeepingAssertsHold`: from there, the asserts on `index()` in `updateChannel()` and
  on the lookup in `fillActiveChannels()` never fail.
- `OthersStayUndisturbed`: `PollerSpec => OthersUndisturbed`. What poll(2) sees of a
  channel is its entry, wherever that is; a removal moves one entry, and by
  `IndexConsistent` its index goes with it.

**InputProofs, the buffer**, for any bytes, any sizes of the prepend area, of the vector and of
`extrabuf`, any chunks and any bound.
- `BufferTypeCorrect`: the indices stay in order, within the vector.
- `BufferImplementsByteFifo`: `BufferSpec => ImplementsByteFifo`. Each operator has a lemma
  saying what becomes of the contents: resizing and moving keep them
  (`ResizedKeepsContents`, `MovedKeepsContents`), `makeSpace()` makes the room that
  was asked for, a copy writes its range only, and from these `AppendExtends`,
  `ReadFdExtends`, `PrependPutsFirst`, `RetrieveDropsFirst`.
- `MemoryStaysBounded`: resizing only happens when moving would not be enough, so
  that the new size is at most the prepend area and twice what is held.
- `PrependRoomIsKept`, from the same lemmas.

**TcpConnectionProofs**, for any senders, any number and length of messages and
either kind of owner. The lemmas follow the actions, and each invariant has its own.
- `TypeCorrect`: `TypeOK` needs `SendCounted` (a sender inside `send()` has counted its
  message), so that the message it queues is one of `Messages`.
- `PolloutFollowsOutput` and `FinComesLast`, from `OutputInv`, their conjunction: the FIN
  goes out where there is no output, and it is `writing` that the code asks.
- `ConnectionClosedOnce`: the asserts on `state_` depend on `connectDestroyed()` being
  queued once, and only by the owner that gave the connection up (`DestroyOnce`),
  and on the connection being open as long as somebody is to close it (`StillOpen`).
- `ConnectionImplementsMessageStream`: `Spec => ImplementsMessageStream`. That a message is
  whole follows step by step, from `output` being written from its front. That a sender's
  come in order needs `OrderInv`: the calls queued on the loop are in the order of
  their numbers, and later than what is in the stream; `BatchInPass` makes the
  two vectors one queue, as in `EventLoop`.

**TimerQueueProofs**, for any timers, delays and interval.
- `TimersStayApart`: `PlaceInv` says of heap, expired, running and what is being added that
  they are disjoint and that nothing is added twice; `Cardinality` follows.
- `NoTimerRunsEarly`, and `NeverArmedForNobody`: a timerfd that is armed is armed for
  a timer of the heap, since only its expiry takes timers out.
- `OneShotsRunOnce`, with `WaitingHasNotRun`: a timer that does not repeat and is
  waiting has not run.

**RateLimiterProofs**, for any callers, burst, limits and times.
- `WaitsAreBounded`, from `RateTypes`: whatever the other callers do to `last_`, a
  caller computes no less than zero tokens and no more than the bucket holds.
- `ReservationsAlwaysSpaced`, from `SpacingInv`: the readings of the clock are in order
  (`ReadInOrder`), no earlier than the grants that are there (`GrantsFirst`), and
  `last_` is the time of the last grant, so that its caller finds no more in the bucket
  than has come in since (`TokensSinceLast`). The property is about two grants of one
  caller with no other in between; without the last part nothing ties them together.
- `OnlyLockersEverHold`: of `MutexLock`, as the limiter's callers use it.

**ConnectorProofs**, for any scripts - not only those of the run - and any delays.
- `SocketsDoNotLeak`: `SocketInv` ties the socket and its polled channel to
  `kConnecting`. It needs that one reset of the channel is queued at most, and only
  for a channel that was removed (`ResetOnce`): a second one would take away the
  channel of the next attempt. And it needs `UpIsConnected`: `restart()` sets
  `kDisconnected` without a look at the state, which is harmless since it follows
  a connection that was up.
- `StopAlwaysObeyed`: after `stop()`, `connect_` stays false, unless `restart()` sets it
  (`StopInv`); and the callback of the connecting socket looks at it.
- `OneAttemptAtATime`, for users that connect once. `Reached` is the set of the stages
  at which there is an attempt, from the user's script over the two vectors of
  functors, the timers and the socket to the connection and its end; it has at most
  one element. Every step leaves the set as it is or moves on from one stage
  to another (`MovesOn`); `Retry`, which schedules a timer without asking whether
  there is one, is only ever called at a stage that it leaves. With two calls of
  `connect()` it does not hold: the second may be queued while a connection is up.
- `AssertsAlwaysHold`, for users that besides call `connect()` before `stop()` and the
  destructor. The assert of `startInLoop()` follows from there being one attempt.
  That of `connecting()`, which wants no channel, needs to know where the reset of
  the last one is (`ChannelInv`): in this iteration of the loop, before which no timer
  expires (`ResetSoon`), or there is no attempt to come at all, or a `stop()` was lost
  on `restart()` (`StopLost`), which is the exception the property names. That only a
  lost `stop()` finds an attempt that it retries is `EndInv`.
- `DestroyAlwaysSafe`, for users that besides make the destructor their last call
  (`ConnectsFirst` and `DestroysLast`). What is bound to the connector when the
  destructor runs is behind it in the queue, and that can only be resets of the
  channel (`InOrder`): the calls that were queued before it run before it. After
  that, with a connection that was up, nothing is queued for a connector that no
  timer keeps (`LeftInv`); without one `connect_` is false, so that what
  is left of the attempt does not start another.
- `ConnectorTypeCorrect`, for any scripts of calls. That no socket is closed which is
  not owned, so that `open` stays a natural number, is `SocketInv`.

**ServerProofs**, for any number of sub-loops and of connections, and with
`~TcpServer()` at any time.
- `PolledStaysAlive`: `Alive(c)` depends on where every thread stands. `PollInv` says who
  holds a connection by what it has been through (`LifeInv`): while it connects, the
  main thread or the functor that is to establish it; connected, the map or
  the thread that is closing it; disconnected, its channel is not polled. That
  `enableReadInLoop()` may be bound to the bare pointer is because it is queued on
  the same loop as the other functor, and before it (`QueueInv`): the one that
  holds the connection is run after the one that does not. This is independent of
  what the races do to the map, since a connection whose insertion was lost ends the
  program when it is established: the functor held the last pointer (`Released`).
- `OnlyRacesEverLose`: without an overlap in `connections_`, the map holds what is not
  being inserted and has not been destroyed (`StoredInv`), a thread that erases is
  the only one (`AloneInv`), and a server that is destroyed when nothing was
  left to do leaves nothing to do (`DoneInv`).
- `TurnsAreEven`: the property speaks of the time when all loops are in `loops_`,
  but connections are given to loops before. `PushInv`, `SlotInv` and `ShareInv` relate
  the size of `loops_` to the threads that are up: as long as no loop was lost,
  each is there once, the next one comes at the end, and the shares are those of
  the turn that `next_` has come to. With fewer loops than threads that is the
  first round, since `next_` never gets back to 0 without meeting a place that is not
  there. Once a loop was lost, `loops_` will never be complete again, and the
  property says nothing.
- `ServerTypeCorrect`: that no `push_back()` reads a size larger than the number of
  threads follows from `PushInv`.

**InputProofs, the parser**, for any tokens, any methods, any set of requests as long as
what it calls a path, a query, a field has no separator in it
(`RequestsAssumption`), any number of requests, and any cuts.
- `ParserAlwaysLeaves`, from `ParserInv`: `onMessage()` resets the context, or refuses the
  request, before there is more input to parse. A line that is refused leaves
  the parser where it is.
- `RepliesAlwaysFollow`, from `ReplyInv`: the state of the connection says how far the
  replies have come. While it is connected, all the requests are answered and none
  closes (`Answered`); when it closes, the last answer is a 400 (`Refused`), or that of
  the first request that asked for it (`Closed`). After a 400 the parser is `Stuck`
  at the line it refused, so that no request is handled behind it.
- `RequestsAlwaysFollow`: what the callback has seen is what the client meant, in the
  order it wrote. `RequestInv` says where each request lies in the stream (`StreamIs`)
  and that the context is what has been parsed of the next one, up to the
  line that has been taken (`ParsedTo`). That the parser gets a line back into its
  parts are lemmas of their own: `RequestLineParsed` (the first blank, the
  second, and the first question mark between them are where `RequestLine` has put
  them, and a line that is none is refused), `HeaderLineParsed` (the first colon, the blanks
  that are trimmed), and `AddHeaderIs` (the later of two headers of one field stays).
  These are about sequences of any length, without induction: each is a
  concatenation, and `Find` has a definition by `Min`.
- `HttpTypeCorrect`.

Only model-checked: every liveness property (`QueuedFunctorRuns`, `QuitLeavesLoop`,
`ArmedTimerRuns`, `ShutdownCompletes`, `ConnectionComesUp`, `AbandonedAttemptEnds`,
`AcceptedIsEstablished`, `EndedIsReleased`, `ClientIsServed`). They need fairness, and
so `ENABLED`, which the prover does not reason about. Every invariant and every action
property of the runs that pass is stated by a theorem. The five properties
that TLC refutes (section 7) are of course not proved.

## 7. What the models show the code to do

Five runs refute something that the repository says.

- `timer_queue_rearm`. `addTimerInLoop()` arms the timerfd for the timer just added,
  and nothing arms it again when it has expired. A timer for tick 1 and then one
  for tick 2: the first waits for the second's time, and in the other order the
  second waits until somebody adds another timer. `wf_timer_queue.h:55` says that
  the timerfd is updated when a timer expires.
- `tcp_connection_dropped`. `sendInLoop()` writes a message only when none is waiting,
  and has no branch for the other case: the message is gone.
- `connector_restart`. `state_` stays `kConnected` after the connection was closed, and
  a second `connect()` fails the assert of `startInLoop()`.
- `rate_limiter_limit`. `tokens_` is never written: the bucket is the time since `last_`,
  and nothing else. A caller whose bucket is empty reserves and waits for one token's
  time; that time is then in the bucket, and lets it act once more at once. It acts twice
  per token, with no other caller near. `wf_rate.h:16` calls the limit a number of events per
  second, `wf_rate.h:38` says that the tokens become one less, and
  `example/echo_rate/server.cc:45` has one token added every 0.1 s. What remains
  is `ReservationsAreSpaced`.
- `mutex_holder`. `lock()` writes `holder_` before it waits for the mutex: the thread that has
  it is then told by `isLockeddByThisThread()` that it has not. `wf_mutex.h:34` says that
  one can tell by it whether the lock is being used by this thread. What remains is
  `OnlyLockersHold`.

The models follow the code in more that a reader may not expect. Of what follows nothing
in the repository claims the contrary, so no run is about it; the properties are worded
so that what remains is true.

- **EventLoop**: `quit()` before `loop()` is forgotten. A functor the owner queues
  before `loop()` is not announced and may wait for `poll()` to time out (`early`).
  A loop that is left keeps the functors it has. A thread that makes the loop
  return may touch it after its owner has destroyed it (`late`).
- **PollPoller**: an entry without events gets `fd` -1 and does not get its own back
  when events are enabled again; a removal while such an entry is the last one
  looks up the channel of -1 and dereferences a null pointer (`nullChannel`).
  `disableAll()` does nothing: it *or*s `kNoneEvent`, which is zero, into the events.
- **TimerQueue**: a timer in the past gives `timerfd_settime()` a negative time, which is
  refused; a time of exactly zero disarms the timerfd.
- **TcpConnection**: a `send()` that has passed its test of `state_` before a
  `shutdown()` writes after the FIN (`sigpipe`), or enables writing on a channel
  that is no longer registered (`notRegistered`).
- **TcpServer**: a client that comes before all loops have been pushed may be given a
  loop that is not there (`noLoop`); data before the callbacks are set, or the end
  of the stream before `connectEstablished()`, end the program (`noCallback`,
  `earlyEof`); a server that is destroyed while its threads start is used after it
  (`serverGone`); `connections_` may lose entries to races; when `erase()` drops the
  last pointer inside `handleEvent()`, what follows runs on a freed channel
  (`freedChannel`).
- **Connector**: `removeConnection()` tests one `connect_` and `restart()` sets the
  other, so that a `stop()` in between is lost; the retry that `stopInLoop()` then
  schedules may meet a channel that is not yet reset. `StopIsObeyed` and
  `AssertsHold` except clients with `enableRetry()` for that. `disconnect()` during an
  attempt does nothing to it. The destructor during the first attempt fails the
  assert of `~Connector()` (`destructor`), or leaves functors behind that run on a freed
  connector (`freed`), the one of its own `stop()` for one. Once there has been a
  retry it does not: the timer of that retry is never deleted and holds the connector.
  `DestroyIsSafe` says of which clients no such thing is true, `AbandonedAttemptEnds`
  that the attempt does end.
- **HttpServer**: after a 400 the parser is not reset; with more input the assert of
  `setMethod()` fails (`methodSet`). Of two requests that arrive together the
  second waits for more input: `ClientIsServed` is about clients that wait.
- **RateLimiter**: callers that reserve at the same time all get the same answer, so that
  the rate of several callers together has no bound. With a clock that moves within
  `reserveN()` what it gains between the two readings is counted twice.
- **MutexLock**: a thread that waits for the mutex is taken for its holder, and before the
  first `lock()` the thread that made it is.

## 8. What is not modelled

- `Conditon`: three calls of pthread functions; only a test uses it. Of `Thread`,
  `join()`, for the same reason. Outside `RateLimiter`, a locked section is one
  step of the modules that have one.
- `EpollPoller`: the source file has no definitions.
- `Socket`, `sockets`, `Endpoint`: wrappers of system calls; their results are choices
  of the modules that call them. Errors that end the program (`LOG_FATAL`) are left out.
- `Log`, `Timestamp` and what is in `util`: logging is left out of every
  action, times are numbers, the rest has no state.
- Of modelled parts: `Buffer::swap()` and the moved-from buffer, which nothing uses
  (`findCRLF()` is `HasCrlf` in `HttpServer`); the one-loop-per-thread check of
  `EventLoop`, which ends the program (`LOG_FATAL`); `Limiter::cancel()`, which is
  declared only; the bodies of HTTP requests, which the parser never reads. Header lines
  without a colon are not written by the clients of the model, and a clock that is set
  back is in none of the modules.
- `example`, the `tests` directories, build files: read for how the library is used.

## 9. Plan

Done, in this order: `EventLoop` with `TaskQueue` and its proofs; `PollPoller` and its
proofs; `TimerQueue`; `TcpConnection`; `Connector`; `Buffer` with `ByteFifo` and its
proofs; `TcpServer`; `HttpServer`; `RateLimiter`; the destructors of loop, server and
client with what they leave behind; `MutexLock`; the lines of an HTTP request by
tokens; `MessageStream`; the proofs about `TcpConnection`, `TimerQueue`,
`RateLimiter` and `Connector`; those about `TcpServer` and `HttpServer`, with requests
that are written while others are handled.

To do:

1. *Model.* The composition of two loops that talk to each other, as `TcpServer` and its
   sub-loops do, with `TaskQueue` in the place of each `EventLoop`. A client whose
   calls come from two threads at the same time.
2. *Abstract.* A round of requests and replies as the abstract specification of
   `HttpServer`.
3. *Prove.* A refinement of the abstract specification of point 2, and of `TcpServer`
   with `TaskQueue` in the place of its queues.

## 10. Running it

    tlc -config EventLoop.cfg MCEventLoop.tla      # and so on: X.cfg with the MC module of its component
    tlapm EventLoopProofs.tla                      # and so on: EventLoopProofs, InputProofs, ..., QueueLemmas

`PROJECT.json` gives the module and the `.cfg` of each run, the source lines
that each definition translates (`map`), a mutant for each property, the findings,
the hazards and the theorems. The longest run (`objects`) takes about a minute and a half.
