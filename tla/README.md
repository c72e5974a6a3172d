# A TLA+ model of HXLibs

HXLibs is a header-only C++20 network library built on coroutines: an event
loop over io_uring (or IOCP), a thread pool with futures, awaitable
combinators, and on top of them an HTTP/1.1 server and client with WebSocket,
SSE, range requests and chunked bodies.  This directory holds TLA+ modules that
model it, TLC configurations that check them on small instances, and TLAPS
proofs.  `PROJECT.json` lists the components, the runs, the source lines every
definition stands for, the hazards and the theorems.

Paths below are relative to `src/include/HXLibs/` unless they start with
another directory of the repository.

## 1. Inventory

### Threads, queues and futures

**ThreadPool** (`container/ThreadPool.hpp`, `container/SafeQueue.hpp`).
State: the atomics `_isRun`, `_minThreadNum`, `_maxThreadNum`, `_runCnt`,
`_delCnt`; the task queue and the queue of deleted thread ids (each a
`SafeQueue` with its own mutex); the map of worker threads; one mutex and one
condition variable.  Operations: `addTask`, the setters, `run` in two models
(a fixed number of workers, or a manager thread that grows and shrinks the
pool through a strategy), the destructor.  Hard: `addTask` and the destructor
notify without the mutex; the manager acts on counts it sampled earlier; an
order to delete (`_delCnt`) is overwritten while workers still act on it;
ids travel through a queue before their threads are joined.  Correct means: a
task whose `addTask` returned is run once, in order; no pop of an empty queue;
the number of threads stays within its limits; every thread is joined exactly
once before the members are destroyed.

**FutureResult and Try** (`container/FutureResult.hpp`, `container/Try.hpp`).
A shared slot with a mutex and a condition variable, filled by a worker;
`get`, `wait`, `thenTry` (a new task on the same pool that first waits for its
predecessor) and `co_await` (a continuation that resumes the coroutine from the
worker).  Hard: a continuation blocks a worker; a void task's slot is filled
before its function runs; `co_await` starts its continuation before the
coroutine is stored, and the worker then touches the loop of another thread.
Correct means: filled once, chains cannot block the pool, a coroutine is
resumed once and only after it was stored.

### The event loop and coroutines

**Event loop** (`coroutine/loop/EventLoop.hpp`, `TimerLoop.hpp`,
`ThreadLoop.hpp`).  State: the timer tree (a multimap by time), the yield
queue, the ring with `_numSqesPending`, the pair `_threadTaskCnt`/condition
variable of tasks handed to other threads.  `run` serves timers, then yields,
then completions, and stops when all three are empty.  Hard: the order of the
three, a source that becomes busy after it was looked at, counters shared with
pool threads.  Correct means: `run` does not return with something pending, no
timer fires early, no completion is dropped.

**Tasks, promises and combinators** (`coroutine/task/*`, `coroutine/promise/*`,
`coroutine/awaiter/WhenAny.hpp`, `WhenAll.hpp`, `coroutine/executor/*`).
A coroutine frame resumes its parent when it ends; `whenAny` resumes on the
first branch that ends, and drops the others; `whenAll` counts down;
`linkTimeout` is `whenAny` over two linked io_uring entries; `SerialExecutor`
makes coroutines of one loop take turns.  Hard: two branches completing in one
batch of completions, frames destroyed with a completion outstanding, an
exception in the turn holder, a `clear()` under it, a timeout whose
cancellation fails.  Correct means: the waiter is resumed exactly once, each
with its own result, and turns are never lost.

### Network

**Sockets and IO** (`net/socket/*`): partial sends and reads in a loop, with
linked timeouts.  **HTTP server** (`net/server/*`): one acceptor and loop per
thread, a coroutine per connection with keep-alive, `syncStop`/`asyncStop`
that connect to themselves until the count of running threads is zero.
**HTTP client** (`net/client/*`): one socket, one loop, one worker; connects
lazily, reconnects and repeats a request on failure; a pool hands clients out
round-robin.  **HTTP messages** (`net/protocol/http/*`): headers, bodies framed
by `Content-Length` or chunks under any segmentation, ranges.
**Router** (`net/router/*`, `container/RadixTree.hpp`): literal, `{param}` and
`**` segments.  **WebSocket** (`net/protocol/websocket/*`): frames,
fragmentation, ping/pong with a timeout, closing.

### Not concurrent, or not the project's own logic

`Move-only callables`, `Other containers`, `URL and codecs`, `Tokens`, `HTTPS`
(OpenSSL), `Proxies`, `RPC and AI clients`, `SQL`, `Reflection and JSON` and
`Support` (logging, formatting, platform headers) keep no state that several
actors share; `PROJECT.json` gives the reason for each.  `lib/liburing` is
vendored; what the code uses of it is modelled as external.

## 2. Plan

| order | modules | what they model | state |
|---|---|---|---|
| 1 | `ThreadPool`, `PoolStrategy`, `FifoExecutor` | the pool, its sizing policy, and the executor it implements | checked, proved |
| 2 | `EventLoop` (`TimerLoop`, `ThreadLoop` and the ring in one module: they share the loop's control) | `start`, `trySync`, `run`, timers, yields, completions, `co_await` of a future from a pool worker | checked, safety proved |
| 3 | `SerialExecutor` | coroutines of one loop that take turns | checked, safety proved |
| 4 | `Combinators` | `whenAny`, `whenAll`, `linkTimeout` over timers and the ring; frames destroyed with a timer or an operation outstanding | checked, proved |
| 5 | `HttpServer` | start, accept, keep-alive, stop over several threads | checked, safety proved |
| 6 | `HttpClient` | connection life cycle, descriptors, reconnect and retry | checked, proved |
| 7 | `HttpMessages` | what is written and the incremental parsers that read it, on one kept-alive connection | checked, proved |
| 8 | `WebSocket` | both ends of a connection: frames, fragments, ping/pong, close, a second sender | checked, proved |
| 9 | `Router`, `RangeTransfer`, composed by `FileServing` | route lookup against the best template; ranges of a file that changes meanwhile | checked, proved |

What could come next: the pool of clients (`net/client/HttpClientPool.hpp`),
downloads and SSE of the client, the WebSocket handshake and multipart forms.

## 3. The modules

### ThreadPool

`ThreadPool` has one action per access to shared memory.  Its threads are the
submitter of each task, the workers, the manager and the owner.

| code | model |
|---|---|
| `_isRun`, `_minThreadNum`, `_maxThreadNum`, `_runCnt`, `_delCnt` | `isRun`, `minThreadNum`, `maxThreadNum`, `runCnt`, `delCnt` |
| `_taskQueue`, `_delIdQueue` | sequences; each operation is atomic, since `SafeQueue` locks its own mutex |
| `_workers` | the set of keys; a thread object is the worker's `wpc` |
| `_mtx`, `_cv` | `mtx` is the owner; the threads blocked in `_cv` are those with `wpc[w] = "wait"` |
| the place a thread is at | `wpc` (workers), `opc` (manager), `main` (owner), `sub` (submitters) |
| a `FutureResult` | `result[t]`: pending, or filled with a value or an exception |
| `addTask`: `emplace`, then `notify_one` | `Emplace`, `Notify`, two steps |
| the worker of `makeWorker` | `LoopTest`, `Lock`, `TestPredicate`, `Block`, `CheckRun`, `TryDecrement`, `PushDelId`, `Pop`, `IncRun`, `CallValue` or `CallVoid` and `VoidBody`, `DecRun` |
| the manager `check` | `ManagerInit` ... `ManagerSleep` |
| `run` | `RunFixed`, `RunAsync`, `OwnerMake`, `OwnerMade` |
| `~ThreadPool` | `BeginDestroy`, `JoinManager`, `DestroyNotify`, `JoinWorkers`, `FinishDestroy` |

What the model decides:

- A worker whose predicate was false is first at `block`, still the owner of
  `_mtx`, and then atomically asleep.  A notification sent in between reaches
  nobody, since neither `addTask` nor the destructor holds `_mtx`.
- The three reads of the predicate are one step.  While a worker holds `_mtx`
  nothing makes a disjunct false again, so a predicate evaluated to false was
  false at its first read.
- `tryDecrementIfPositive` is one step: its CAS loop retries until it succeeds
  or reads a count that is not positive.
- Starting a thread and inserting it in the map are one step; only the thread
  that does both reads the map.
- The setters are called before `run`.  Calling them while the manager runs, which
  reads `_minThreadNum` twice, is not modelled.
- A `thenTry` continuation is a task with a predecessor, submitted after the
  predecessor's `addTask` returned; its call is enabled once the predecessor's
  future is filled, which is what `self.get()` waits for.
- The values futures carry are abstracted to value or exception.

`PoolStrategy` is the default strategy as a function, with the wrap-around of
`uint32_t` differences and the conversions to `size_t` and `int`; `IntLimit` is
the least value an `int` does not hold, 2^31 in the code.  `FifoExecutor` is the
abstract specification: tasks are queued, started in that order, and a
continuation finishes after the task it continues.

### EventLoop

`EventLoop` has the thread that calls `run` and the workers of a pool, which
resume the coroutines that await futures.  A coroutine is what any coroutine
may do between two suspensions: it awaits a timer, a yield, an operation or a
future, or ends.  `LoopMoves` and `WorkerMoves` say which of these it may do
where.

| code | model |
|---|---|
| `_timerTree`, `_yieldQueue` | `timerTree` (a set of entries with their time), `yieldQueue`; `cur` is the entry whose coroutine has been resumed and that is erased next |
| `_numSqesPending` | `pend` |
| the ring | `sq` the entries prepared, in order; `fly`, `cq` and `batch` how many operations of each coroutine (and null ones) are in the kernel, completed, and collected |
| `_threadTaskCnt` and the local `cnt` of `isRun` | `cnt`, `cntSeen` |
| the place of `run`, and its `timeout`, `tasks`, `numGot` | `lpc`, `timeout`, `batch`, `numGot` |
| `start`, `trySync`, `run` | `Start`, `TrySync`, `BeginRun` and the disjuncts of `LoopStep` |
| `TimerLoop::run` | `TimerResume`, `TimerErase`, `TimerWait`, `TimersDone`, `YieldResume`, `YieldPop`, `YieldsDone` |
| `IoUring::run` | `Drive`, `WakeUp`, `Interrupted`, `Collect`, `Subtract`, `BatchResume`, `BatchDone` |
| `ThreadLoop::isRun` | `Return`, `ThreadWait`, `ThreadWake` |
| `getSqe` and the `prep...` that follows it | `SqeRead`, `SqeFull`, `SqeWrite`; `StillFull` is its second test, which throws into the coroutine (`SqeThrows`) |
| a coroutine's `co_await` | `AwaitTimer`, `AwaitYield`, `AwaitAio`, `AwaitFuture` with `StoreCoroutine` |
| the continuation of `_hx_Await` | `Take`, `ResumeOnWorker` or `ResumeNull`, `NotifyLoop`, `PostNop` or, with no room, `PostNopThrows` |

What the model decides:

- A resume runs the coroutine on the resumer's stack: the thread stays where
  it is, with `run[t]` the coroutine, until that suspends or ends.
- The ring and `_numSqesPending` are used by two threads without
  synchronisation.  A thread reads the tail and the counter in one step and
  writes both in another: of two overlapping uses one counter update and one
  entry can be lost.  `raced` records that it happened, and the properties say
  what holds until then.  The room that `getSqe` waited for may be taken by the
  other thread before it tests again; it then throws.  Other outcomes of that
  data race (an entry submitted half prepared) are left out.
- The timer tree and the yield queue are not synchronised either; timers and
  yields awaited on a worker are left out (`LoopAssumption`).
- The kernel completes operations in any order, so the order of the completion
  queue says nothing and is not kept: `Collect` takes what has completed and
  `BatchResume` resumes any coroutine of what was taken.
- Every operation completes with a result for its coroutine.  Cancelled
  operations, which `IoUring::run` counts and skips, are in `Combinators`.
- `now` is `system_clock`, and only advances.  Bounds: `MaxAwaits` awaits per
  coroutine, `MaxTime` on the clock; a timer is set within that bound, so that
  a clock at its bound does not look like a timer that never fires.
- The pool is the part of it this component sees: a queued continuation is
  taken by an idle worker when its future is ready.

### SerialExecutor

Everything happens on one thread: a coroutine runs from a `resume()` to its
next suspension, and whoever resumed it goes on then.  `acts` is the stack of
those resumptions (callers, `start()` frames, tasks); only its top moves.

`clear()` may be called by the loop, by a caller or by a task, whatever runs.
It resets `isRun` under an awaited `start()` whose task goes on, so that the
next `serial()` runs beside it; `clears` counts those calls.  Where the code
would then go on in a frame that is destroyed, or take the front of an empty
queue, the stack becomes `Undefined` and the behaviour ends.

| code | model |
|---|---|
| `State`: `isRun`, `q`, `runList` | `isRun`, `q` (entries of a task and the coroutine waiting for it, `None` for the noop), `runList` |
| `SerialAwaiter::await_suspend` | `Serial`: with a task running, wait behind it; else queue the noop and await `start()` |
| `start()` | `Pop`, then the task (`TaskSuspends`, `TaskResumed`, `TaskEnds`, `TaskThrows`), `Test` (serve the next through a detached `start()` or become idle), `End` |
| `clear` | `Clear` (`Executing` says that a frame it destroys is on the stack) |
| `~SerialExecutor`, once its callers are gone | `Destroy` |
| frames and who awaits them | `starts`, `awaits`, `waits` |

### Combinators

`whenAny`, `whenAll` and `AioTask::linkTimeout` over the timers and the ring of
one loop.  A branch that ends, the combinator it resumes and the destruction of
the other branches are one synchronous chain, hence one step.  A branch is
`<<parent, call, index>>`, so a frame is never reused and anything that refers
to a destroyed one is seen (`dangling`).

| code | model |
|---|---|
| `WhenAnyCtlBlock`, `WhenAllCtlBlock`, results | `exc`, `last`, `cnt`, `slot`, `out` |
| `await_suspend` of both, resuming branch after branch | `Begin`, then `StartSuspends` or `StartEnds` per branch |
| `anyStart`, `allStrat` | `AnyEnds`, `AllEnds` |
| `~TimerAwaiter`, `~YieldAwaiter` | `LeftByFrames`, `LeftInQueue` |
| `linkTimeout` and the two `makeAioTask` of its arguments | `GetPair`, `LinkFlag` |
| `IoUring::run` | `Submit`, `Collect` (which skips cancelled operations), `ResumeTask` |
| the kernel: a timeout limits the entry before it if that is linked | `Accepted`, `Refused`, `OpCompletes`, `TimeoutFires` |

An elapsed timeout only asks for the cancellation of its operation.  The
kernel succeeds, or the operation has just completed, or it goes on and ends
with a result of its own; `IoUring::run` resumes every completion that is not
`-ECANCELED`, so that in the last two cases (`late`) both branches of
`linkTimeout` are due, and the second refers to a frame that is gone
(`dangling`).  What follows the use of such a frame is not followed (`Defined`).
`makeAioTask` of the operation is taken to be evaluated before that of the
timeout, as the builds do; C++ leaves the order open.

### HttpServer

Every thread of `asyncRun` has an event loop and a listening socket of its own
on the same port; every connection is a detached coroutine.  A thread looks at
`_isRun` only after an accept, so that stopping means clearing it and
connecting until `_runNum` is zero.

| code | model |
|---|---|
| `_isRun`, `_runNum` | `isRun`, `runNum` (an `atomic_uint16_t`, modulo `RunNums`) |
| `asyncRun`, `_sync` | `AsyncRun`, `CountIn` (with resolving, which may throw before `++_runNum`), `Listen`, `CountOut` |
| `Acceptor::start` | `Accept`, `AcceptFails`, `CloseListener` |
| `ConnectionHandler::start` | `RequestRead`, `ReadEnds`, `Served`, `Throws`, `CloseConn`; `KeepsAlive` is its loop condition |
| `syncStop`, on the owner's thread from the destructor or on `asyncStop`'s | `Destroy`, `CallAsyncStop`, then `ClearIsRun`, `TestRunNum`, `Try`, `TryEnds`, `TryTimesOut` |

What a request is and does is left out, except for an endpoint that calls
`asyncStop()`.

### HttpClient

One worker executes the calls of its owner one after the other.  Descriptors
are small numbers which the system gives out again, lowest first, also to the
rest of the program (`OtherOpens`), so that using a stale one is visible.

| code | model |
|---|---|
| `_cliFd`; `_io` and its `_fd` | `cliFd`; `ioSet`, `ioFd` |
| `coRequest`, `coUploadChunked`, `coConnect`, `coClose` | `Begin`, then the steps of the worker |
| `makeSocket` | `Resolve`, `Socket`, `Connect`, `Bind` (`bindNewFd`), `Handshake`, `CloseCli` when it failed |
| the first attempt, reconnecting, the second attempt | `Send`, `Recv`, `Again`, `Resend`, `RecvAgain` |
| after an answer or an exception | `Answered`, `CloseIo`, `Done`, `ResetIo` |
| the server: late, silent, breaking off within the head or the body | `ServerAnswers`, `ServerCloses`, and receiving nothing |

`_io` is constructed by the first connection that succeeds.  When `makeSocket`
swallows a failure before that, the code goes on with `_io.get()`, which tests
nothing (`container/Uninitialized.hpp:64`): sending then crashes or writes to
any descriptor, closing closes any (`IoFds`), and `unset` records it.
`HttpIO::reset` forgets its descriptor in a debug build only; `build` is chosen
at the start.

The owner is assumed to wait for its futures before it calls `close()` or the
destructor.

### HttpMessages

What `HttpRequest` and `HttpResponse` write, and the incremental parsers that
read it, over one kept-alive connection whose stream is cut into reads at any
place.  A symbol stands for what no property tells apart (the text of a line,
a header name, the digits of a size: `Number`); CR, LF and every body byte are
symbols of their own.  `ChunksFrom` is the loop of `sendChunkedReq` and
`useChunkedEncodingTransferFile`, from a read of the file on.

| code | model |
|---|---|
| `_recvBuf`, the line, `_remainingBodyLen`, `_body`, `_completeBody` | the record `p[d]` |
| `parserReq`/`parserRes`: request line, headers | `ParseLine`, `ParseHeader` |
| `_parserReqBody` of both: `Content-Length`, none, chunked | `ParseLength`, `ParseNone`, `ParsePending`, `ParseFirst`, `ParseChunk` |
| the handler of the server, which parses a body the endpoint has not, replies and calls `clear()` | `EndpointParses`, `Reply`, `ClearParses`, `Clear` |
| the client | `Request`, `ParserRes`, `Answered` |

### WebSocket

Two ends, each with a coroutine that calls `recvText`, `sendText` and `close`
in any order, and a second coroutine of the server that sends through
`sendPacketView` (as `src/tests/server/02_ws_server.cpp` does with its pool of
connections).  A frame is written in two sends, its head and its content.
HXLibs never fragments a message; an end in `Foreign` is another program's: it
may, may put a ping between the fragments, and may send what `recvText` does
not want, a Binary frame, a pong nobody asked for, or a head that `recvPacket`
refuses (`SendStray`; "Bad" stands for a reserved opcode and a wrong mask).
`Broadcasting` are the ends of HXLibs that have the second sender.

| code | model |
|---|---|
| `recvPacket`, `firstOpCode`, its content | `StartsPacket`, `ReadHead`, `ReadContent`; `got`, `first`, `content` |
| `recvText` and what it does with each opcode | `RecvText`, `Packet`, `Wanted`; `held` is the message read while a pong is expected |
| a read that times out, and the ping that follows | `Timeout` |
| `sendPacket`, `close`, `sendPacketView` | `Write`, `SendText`, `Close`, `Broadcast`, `WriteBroadcast` |

A head is one `recv` of two bytes of which one is enough: `ReadHead` may be
short, and the mask and the length are then what the array held before.  Such
an end is `astray`: the packet in hand is followed to its end or to the
exception, with any content, and nothing is said of it after that.  Masking
keys, long lengths and the upgrade handshake are left out.

### FileServing: Router and RangeTransfer

`Router` is the route tree (`RouterTree::insert`, `_find` with its
backtracking, and the parameters of `RequestParsing.hpp`).  `RangeTransfer` is
`useRangeTransferFile`: a file sent whole, in one range or in several, one read
after the other, while another program appends to it or truncates it and the
peer may go away.  `FileServing` composes them: endpoints are added, a request
is routed, and a template that ends with `**` sends the file.  A path is the
sequence of its non-empty segments, and `Segment` is what may stand between two
slashes, of a path or a template.

### Runs

| run | shows |
|---|---|
| `pool_fixed` | A pool of two workers implements `FifoExecutor` (`ExecutorSpec`); tasks are started in order and none is lost (`StartedInOrder`); a worker blocked in a continuation waits for a task another worker is running (`NoChainDeadlock`); every started task ends, even when every worker might have blocked (`StartedFinish`); while one worker is awake the backlog is drained, and awake threads stop after `_isRun = false` (`AwakeProgress`) |
| `pool_async` | The self-sizing pool under the default strategy: no pop of an empty queue although a worker may be woken by an order that another one takes (`PopsNonEmpty`); what the manager joins is in the map, past its loop, and queued once (`DelIdsJoinable`); `_runCnt` is exact and the manager's subtraction does not wrap (`RunCntExact`); the map stays within `_maxThreadNum` (`WithinMax`); the members are destroyed only after every worker left its loop (`NoWorkerOutlivesPool`); every variable keeps its type (`TypeOK`) |
| `pool_lost_wakeup` | the finding below (`EveryTaskRuns`, violated) |
| `event_loop` | A suspended coroutine is due to be resumed from exactly one place and a running one from none (`OneSource`); the two counters that keep `run` going are exact, the one of the ring as long as two threads did not write it at once (`PendingExact`, `ThreadTasksExact`); `run` returns only when nothing is left to resume, but for two gaps the property names (`ReturnsIdle`) |
| `event_loop_live` | Timers fire whatever else is outstanding (`TimerFires`); an operation prepared on a worker while the loop is blocked in the ring is submitted, which is what the null operation is for (`OperationSubmitted`); when all coroutines have ended `run` returns (`RunReturns`) |
| `serial` | One task at a time, and one more for each `clear()` of a running executor (`OneAtATime`), in the order of the calls that were not cleared (`InOrder`); every call returns, except behind a task that threw and those that were cleared (`SerialReturns`) |
| `combinators` | Neither a timer nor a yield nor a cancelled operation of a branch that lost outlives its frame, and the two kinds of operation that do are named (`NoDangling`); `whenAny` gives what the first branch ended with and no other ends after it, `whenAll` gives every branch its own result (`ResultsExact`); a timeout is reported only if its time was over (`TimeoutMeansElapsed`); whoever awaits is resumed (`CallReturns`) |
| `server` | `_runNum` counts the threads inside `_sync` (`RunNumExact`); when a stop returns, the threads counted by then have ended with their connections closed (`StoppedMeansStopped`); stopping ends although keep-alive connections are open and each listener needs a connection of its own (`StopReturns`) |
| `client` | A call gets the answer to itself, however late the server and whatever was sent twice (`OwnAnswer`); the client never uses a descriptor that belongs to somebody else (`NothingForeign`); `coRequest` sends again only after the first attempt failed as the client sees it, which does not mean that the server has not executed it (`ResentOnlyAfterFailure`); each with the exceptions it names |
| `messages` | A parsed message has the body that was sent (`BodyExact`), and a well-formed message is parsed (`AlwaysParsed`), wherever the stream is cut, except at the cuts the properties name |
| `websocket` | Messages arrive whole, in order, none twice (`DataInOrder`); an end told that the peer closed has returned everything sent before (`ClosedMeansRead`); `recvText` throws for a frame only when the peer sent what no reader wants, or a second message before the pong (`ThrowsOnlyBeforePong`); all until frames are written into each other, a fragmented message is interrupted, or a head is read in part (`Disturbed`) |
| `serving` | The endpoint is that of the best template, in whatever order they were added (`FindsBest`); parameters and `**` filled in give the path back (`ParamsRebuildPath`); a range is answered with exactly its bytes (`RangeExact`) and never with more than announced, however the file changes (`NeverMore`) |

The properties that hold but for an exception name it in their definition, and
the exceptions are the observations below.  Configurations that are no run
show some of them; they are checked by hand with
`tlc -config <file>.cfg <module>` and end in a violation.

**Bounds.**  `pool_fixed` has two workers and three tasks: a task with a
result, its continuation and a void task.  Two workers are what it takes for
one to block in a continuation while another runs the predecessor, and for a
notification to miss one and reach the other; `MinChoices = {2}` with the
default of one gives pools of one and of two.  `pool_async` has four thread
ids, a maximum of two or three and two tasks: with `minThreadNum` one, two
tasks are a backlog above the minimum (so the pool grows by two) and, once
taken, leave sleepers (so it shrinks), and the four ids cover deleted threads
that are not cleared yet together with new ones.  Thread ids are
interchangeable, hence the symmetry of that run, which checks no liveness.
`Decisions` lists the integers a strategy may return.  `IntLimit = 128` is wide
enough for every count that occurs, and small enough for a wrapped difference
to be visible.

`event_loop` has two coroutines with two awaits each, so that every pair of
sources meets (a timer set from the yield queue, a future awaited on a worker,
an operation started there), and two workers and the loop's thread meet on a
submission queue of one entry, which is full as soon as one operation is
prepared.  Coroutines and workers are interchangeable, hence its symmetry.
`event_loop_live` has one worker, no symmetry and a smaller choice of awaits:
timers and futures on the loop's thread and operations on the worker, which is
where progress depends on two threads; with one worker nobody takes the room
that `getSqe` waited for, so `SqeThrows` and `PostNopThrows` occur in
`event_loop` only.

`serial` has three callers, two with two calls and one with one: one runs, one
waits, one comes while a detached `start()` takes over, and callers return
before others are served; `MaxClears = 1` lets a `clear()` fall at any place of
that.  `combinators` has two coroutines awaiting one combinator of two branches
each, so that completions of both share a batch; `whenAny` is given operations,
too (`AnyWays`); its queue of eight entries is never full.  `server` has two
threads, two clients and both stoppers: one listener may take what was meant for
the other, and a stop from an endpoint races the destructor.  `client` makes
four calls over four descriptors: a call that leaves a descriptor behind, a
foreign one taking its number, and two calls that may meet it; any step of
`makeSocket` may fail, in either build.  `messages` has two exchanges, since a
leftover of the first is what the second trips over, with bodies that are empty
or take two chunks; a reader stops at its first misread (`FollowMisread`),
behind which neither property says anything.  `websocket` has two messages and
one ping per end: one message held for a pong and one behind it; a stray takes
the place of a message.  `serving` adds up to three of eight templates, which is
what it takes for a literal child to hide a parameter that leads on, and files
of zero or three bytes read two at a time.

**Deadlock** is not checked where the system may rest: a pool nobody uses, a
loop nobody runs, a server that has stopped.  `serial` checks it: its last
state is `Stop`.

**Fairness** (`FairSpec`).  The operating system runs every thread, so the
steps of each worker, of the manager, and of the owner within `run` and the
destructor are weakly fair, and a submitter that queued a task goes on to
notify.  Nobody has to submit a task, call `run` or destroy the pool, and no
spurious wakeup ever has to happen.  Weak fairness on the mutex is enough: the
properties that depend on it speak of what some thread does.  Tasks and the
strategy are assumed to return.  In `EventLoop`, the steps of `run`, of a
coroutine that is running and of each worker are weakly fair for the same
reason, time passes (`Tick`), and a null operation, which waits for nothing,
completes.  Any other operation may stay in the kernel for ever, nobody has to
call `start` or `run`, and no signal has to interrupt a wait.

In `SerialExecutor` what executes goes on to its next suspension, the loop
resumes a task whose timer is over, and (strong fairness) a task resumed over
and over ends.  In `Combinators` the loop's steps are weakly fair, and of a
linked pair one completes, as does an operation that its timeout could not
cancel.  In `HttpServer` threads and handlers run, reads end
by their timeout and endpoints return; strong fairness says that a stopper
which connects over and over reaches each listener at some time, because the
kernel spreads connections over `SO_REUSEPORT` sockets by a hash of addresses
and each attempt has a new port.  The other modules are checked for safety.

### Findings and observations

The finding, shown by `pool_lost_wakeup`: `addTask` calls `notify_one` without
`_mtx` (`ThreadPool.hpp:146`).  A worker that has found the queue empty and has
not slept yet misses it; if nothing else notifies, the task is never run and
`get` blocks, contrary to `src/tests/container/03_thread_pool.cpp:62`.

What follows was met while modelling.  A configuration is named where one shows
it.

*Pool and futures*

- The manager computes how many workers to delete from a map that still holds
  workers which have left their loop (`ThreadPool.hpp:206-219`), so the pool
  can fall below `minThreadNum`, the "minimum number of threads" of line 40
  (`MCThreadPoolMinThreads.cfg`).
- A worker deleted since the manager's last clear is in `_workers` and in
  `_delIdQueue`; the destructor joins both (`ThreadPool.hpp:185-190`), and the
  second `join` throws out of a `noexcept` function
  (`MCThreadPoolDestructor.cfg`).
- For a void function `addTask` fills the future before it calls the function
  (`ThreadPool.hpp:136-137`): a continuation may run before the task it
  continues, and cannot see its exception (`MCThreadPoolVoidChain.cfg`).  In
  `pool_fixed` the continued task has a result.
- The constructor of `_hx_Await` queues the continuation before
  `await_suspend` stores the coroutine (`container/FutureResult.hpp:114`): a
  fast worker resumes a null handle (`MCEventLoopNullResume.cfg`).

*Event loop and combinators*

- The continuation of an awaited future lets `run` return (`raii.notify()`)
  before it posts the null operation (`container/FutureResult.hpp:117-118`).
  Nobody collects that operation, and the next `trySync` throws "Unexpected
  call", which `src/tests/container/04_FutureResult.cpp:21` does not expect
  (`MCEventLoopUnexpectedCall.cfg`).
- A timer set by a coroutine resumed from the yield queue is not seen by the
  `run` in progress (`coroutine/loop/TimerLoop.hpp:48`): with nothing else
  outstanding `run` returns and the coroutine stays suspended, contrary to
  `coroutine/loop/EventLoop.hpp:372` (`MCEventLoopYieldTimer.cfg`).  With an
  operation outstanding the timer fires late; `TimerFires` leaves these out.
- `ReturnsIdle` names one more gap: `run` reads `_numSqesPending` as zero, then
  a worker's coroutine starts an operation and its worker counts down
  `_threadTaskCnt`, then `run` finds that zero too, and returns with the
  operation outstanding.
- A linked pair that a full submission queue splits loses its link: the
  timeout is refused and `linkTimeout` reports a timeout at once
  (`MCCombinatorsFullQueue.cfg`).
- `~AioTask` does not cancel its operation: a branch of `whenAny` that awaits a
  bare operation and loses leaves the kernel with a frame that is gone.
  `linkTimeout`, the way HXLibs itself uses, is safe as long as the kernel can
  cancel the operation: if the timeout elapses and it cannot, both completions
  are resumed (`EventLoop.hpp:167-176`).  `NoDangling` names both (`MayOutlive`).
- `getSqe` waits for room only once and throws if it is taken meanwhile
  (`EventLoop.hpp:204-208`).  From `prepNop` on a worker the exception leaves
  the continuation with nothing submitted.
- A task that throws leaves `isRun` set: everyone behind it in the
  `SerialExecutor` waits for ever (`SerialExecutor.hpp:99`); `SerialReturns`
  names it.
- `clear()`, "clears all waiting tasks" (`SerialExecutor.hpp:124`), also resets
  `isRun` and destroys the detached `start()` frames: the next `serial()` runs
  beside a task that goes on, coroutines that waited are never resumed, and a
  task whose `start()` is gone, or a coroutine it resumes after the reset, ends
  in undefined behaviour.

*Server and client*

- If resolving throws, `--_runNum` runs without `++_runNum` and the counter
  wraps (`MCHttpServerResolve.cfg`).  `HttpServer::syncStop` hides the base's,
  which is the one that clears `_isRun`; a stop that looks at `_runNum` before a
  thread counted itself returns early; a second `asyncStop` joins its own
  thread.
- Every successful chunked upload is sent twice (`HttpClient.hpp:169-181`): the
  body has been parsed by `parserRes`, and the parse that follows throws.
- When `makeSocket` fails after `_io` was bound, `_io` keeps a descriptor that
  has been closed and may be somebody else's by the time it is used
  (`stranded`, an exception in `NothingForeign`).
- When `makeSocket` fails before `_io` was constructed, the request is sent and
  the connection closed through an object that was never constructed
  (`HttpClient.hpp:160`, `723`, `776`; `unset`, the other exception).
- An answer broken off within its head leaves a half-filled `Response` for the
  second attempt (the exception in `OwnAnswer`).

*Messages*

- The size of a complete chunk stays in `_remainingBodyLen`; if the next size
  line has not arrived whole, the next bytes are taken for the rest of that
  chunk (`Request.hpp:765` and `799`, and the same in `Response.hpp`).  A chunk
  whose CR arrived without its LF throws (`Request.hpp:802`).  The end of a
  chunked body that arrives after `clear()` begins the next message.
- A second WebSocket message before the pong throws; a message held while only
  the pong is expected is lost if the peer closes instead; `sendPacketView` and
  an answered ping can write into each other's frames; a control frame between
  two fragments joins the message; a timeout between fragments drops them; a
  head of which one byte arrives is accepted, with a second byte that is old or
  was never set (`WebSocket.hpp:541-550`).
- The query is not stripped before routing: behind a slash it is a segment.
- A range may end at `fileSize`, and announces one byte too many; a suffix
  range `-n` is read as `0..n`; a part of a multipart answer that takes several
  reads has CRLF after each; a whole file that grows meanwhile makes
  `remaining` wrap.

## 4. Proofs

Eight modules hold proofs.  They are for every value of the constants that the
named assumption of the module admits, and of the hypotheses given here.

| module | theorem | states |
|---|---|---|
| `ThreadPool_proofs` | `TypeCorrect`, `NeverPopsEmpty`, `FirstInFirstOut` | `TypeOK`, `PopsNonEmpty`, `StartedInOrder` |
| | `DeletedIdsJoinable`, `NoThreadOutlives`, `RunCountExact` | `DelIdsJoinable`, `NoWorkerOutlivesPool`, `RunCntExact` |
| | `ChainsDoNotBlock` | `NoChainDeadlock` |
| | `PoolIsAnExecutor` | `NoVoidChain` implies `Spec => ExecutorSpec` |
| | `MapWithinMax` | `LimitsInOrder` and `GrowsWithinMax` imply `WithinMax` |
| | `DefaultWithinMax` | `WithinMax` for the strategy of the code |
| `EventLoop_proofs` | `SourcesInvariant`, `ResumedByOne`, `ControllersCounted` | `EInv`, `OneSource`, `ThreadTasksExact` |
| | `PendingCounted`, `ReturnsWhenIdle` | `PendingExact`, `ReturnsIdle` |
| `SerialExecutor_proofs` | `InvariantHolds`, `TasksTakeTurns`, `ServedInOrder` | `IInv`, `OneAtATime`, `InOrder` |
| `Combinators_proofs` | `ResultsAreExact` | `ResultsExact` |
| | `NothingDangles`, `TimeoutsElapsed` | `NoDangling`, `TimeoutMeansElapsed`, if `RoomForAll` and no bare operation is raced |
| `HttpEnds_proofs` | `ServerTypeCorrect`, `RunNumberExact`, `StopWaitsForThreads` | `ServerTypeOK`, `RunNumExact`, `StoppedMeansStopped` |
| | `OwnDescriptors`, `AnswersMatch`, `SecondSendAfterFailure` | `NothingForeign`, `OwnAnswer`, `ResentOnlyAfterFailure` |
| `WebSocket_proofs` | `MessagesInOrder`, `ReadBeforeClosed`, `OnlyLatePongThrows` | `DataInOrder`, `ClosedMeansRead`, `ThrowsOnlyBeforePong` |
| `FileServing_proofs` | `NeverSendsMore`, `RangesAreExact` | `NeverMore`, `RangeExact` |
| | `FindsTheBest`, `ParamsArePath` | `FindsBest`, `ParamsRebuildPath`, if `NoStarSegments` |
| `HttpMessages_proofs` | `StreamInvariant`, `BodiesAreExact`, `MessagesAreParsed` | `Inv`, `BodyExact`, `AlwaysParsed`, if `~FollowMisread` |
| | `ExactUntilMisread` | both, without a hypothesis, until the first misread |

**ThreadPool** (under `TaskAssumption` and `SizeAssumption`).  `PopsNonEmpty`
is not inductive: it depends on what the worker saw two steps earlier.  `IInv`
adds what carries it: a worker between lock and unlock owns `_mtx` (`Locked`),
so that no other worker pops or takes the deletion order meanwhile; the reason
it woke for is still true at `checkRun` and `checkDel` (`WokenForAReason`); the
manager may only raise `_delCnt` above zero, never clear it; and there is no
manager or worker before `run` (`NoWorkerYet`).  `HasTask` types the task a
worker holds.  `FirstInFirstOut` rests on `OnlyQueueSteps`, which sorts the
steps of `Next` by what they do to the three sequences, and on `MoveHead`, an
identity on sequences.

`JInv` adds that a thread that was started and not joined is in the map
(`AliveInMap`) and that the manager has ended when the destructor notifies
(`ManagerJoined`).  `RunCntExact` needs the first of these as well, to bound
the running workers by the map.

`CInv` carries a chain from its submission to its run: a task is queued after
the one it continues (`PredFirst`), what a worker runs has been taken from the
queue (`TakenFromQueue`), and a task that left the queue and has no result is
with a worker (`PendingRuns`).  Tasks leave in the order they came, so the
task a blocked continuation waits for has left the queue before it.

`RInv` says each task is queued once, run by one worker and finished by it, so
that every step of the pool is a step of `FifoExecutor` under the mapping of
`ThreadPool!Executor`, or changes none of its variables.  `NoVoidChain` is
needed: a void task is filled before it is run.

`WithinMax` is about a decision taken from a sample that is stale when it is
acted on.  `MInv` adds that the threads in the map and those the manager has
still to make (`todo`) are together at most `maxThreadNum`: between the sample
and the last `makeWorker` the map can only shrink.  The two hypotheses are on
the constants.  `LimitsInOrder` says the setters are not asked for a minimum
above the maximum; the code does not look, and the maximum is
`hardware_concurrency()` by default, which may be 0.  `GrowsWithinMax` says the
strategy asks for no more than there is room for; `DefaultWithinMax` shows
this of the default strategy, through its wrapped differences, for every
maximum below `IntLimit`.

**EventLoop** (under `LoopAssumption`).  `OneSource` counts, per coroutine,
what may resume it.  `EInv` says for each source exactly which coroutines it
holds: the timer tree, one entry per coroutine in state `timer`, with `cur` the
one being resumed (`TimerInv`); the yield queue, without repetition
(`YieldInv`); the ring, where an operation is in one of `sq`, `fly`, `cq` and
`batch`, once, unless two threads raced (`RingInv`); the continuations,
between the pool's queue and one worker (`FutureInv`); and which thread runs
whom (`RunInv`).  The submission queue and the batch are counted by functions on
sequences and bags, whose changes by one element are lemmas.  `ThreadTasksExact`
then follows step by step, since only taking a future and notifying change it.

For `PendingExact` the entries of a bag are counted by a bijection (`Size`,
`SizeAdd`), as the counter goes down by a whole batch.  `ReturnsIdle` looks back
from the return: `ReturnInv` says which coroutines can still be suspended at
each place of `run` and on whose thread they were started (`OnLoop`,
`TimersFromYields`, `NoYields`, `OperationsFromWorkers`), since the two gaps the
property names are a timer started from the yield queue and an operation
started on a worker.

**SerialExecutor** (under `SerialAssumption`).  A task has the turn while it
runs, while its `start()` takes it, and until that has passed it on (`Turns`).
`TurnsCounted` says there are at most as many as `isRun` and the clears of a
running executor stand for (`Places`); each step adds and takes what it adds to
`Places`.  That needs the shape of the stack (`Stack`: only `start()` frames
wait below the top, each once, for a task that has ended), that nothing is
queued while idle (`IdleEmpty`), and that a `start()` about to take an entry
finds its own task at the head of the queue (`StartHead`).
`InOrder` adds that the tasks started, followed by those queued, are those
called (`StartedFirst`, `QueuedNext`).

**Combinators** (under `CombinatorsAssumption`).  `ResultsExact` needs no
hypothesis: `Control` says where each call is, which of its branches have
started, and that a `whenAll` waits for exactly the branches that have not
ended, while the others have left their result in their slot (`Unsettled`,
`Settled`).  The other two need `Tokens`: an entry of the timers, the yield
queue and the ring belongs to a branch that still waits for it (`Timed`,
`Yielded`, `Waited`), there is at most one of each branch (`Once`), and an
operation and its timeout go the same way, the timeout next to its operation,
until one of them is over (`Paired`, `Adjacent`, `Over`) or the timeout failed
to cancel the operation, whose completion then comes on its own (`LateOK`).
Their hypotheses are what the observations below the runs break: `RoomForAll`,
that the submission queue holds one entry for each branch a coroutine can await
at a time, so that no pair is split, and that `whenAny` is not given a bare
operation.  What `NoDangling` excepts under them is the operation of a late
timeout.

**HttpServer** (under `ServerAssumption`, and `AddressResolves` for the two
properties: without it the counter wraps).  `SInv` says that a thread that was
counted has started (`CountedStarted`) and that an ended one has no handler
left (`EndedDrained`); the count is then the cardinality of a set that each
step changes by one element.

**HttpClient** (under `ClientAssumption`).  `FdInv` says which descriptors are
the client's and how `_cliFd` and `_io` are linked at each place of the worker
(`OwnFds`, `IoUnset`, `Linked`), until one of the two failures (`stranded`,
`unset`); `WireInv`, that a connection the client will
use again carries nothing of an earlier call (`Clean`) and at most the current
one (`ToSend`, `Pending`); `SendInv` counts the attempts by place.

**WebSocket** (under `WebSocketAssumption`).  The three properties share one
invariant, `Inv`, which speaks of one direction at a time: what has been taken
from the wire, the wire, and what its two senders have left to write form one
sequence in which each part may follow the one before (`Stream`, `Chained`,
`Linked`); the messages in it are numbered on from those returned, held and in
hand (`Counted`, `InHand`); and a ping and its pong are at exactly one of six
places, or nowhere (`OnePing`), which is why a pong comes only to who waits for
it, unless the peer sends pongs of its own (`Answers`).  `StraysOK`, which
holds always, says that a Binary frame or a bad head on the way is one the peer
has sent.  The rest holds until two frames are written into each other, a
fragmented message is interrupted or a head is read in part (`Disturbed`), as
the properties say.

**RangeTransfer** (under `TransferAssumption`).  `TransferInv` says of the part
being sent what its head announced (`Opened`), that what was sent and what
remains add up to it (`Accounted`), that what was sent are the bytes from its
begin on, with the CRLFs of several reads (`Faithful`), and that it ends short
only if the file was cut (`Complete`).

**Router** (under `RouterAssumption` and `ServingAssumption`).  `Find` is a
recursive function on a node and a path.  That it is one, that is, that the
equation has a solution and `CHOOSE` finds it, is proved by induction on the
length of the path (`SolutionExists`, `SolutionsAgree`, `FindUnfolds`), as is
what it finds: below any node the endpoint of the key that beats every other
key along the path (`FindFinds`).  `TreeOK` relates keys to templates: each
node on the way to an endpoint is in the tree, and an endpoint is the last
added of those with its key.  `FoundIsBest` puts the two together.  For
`ParamsRebuildPath`, the indices of the parameters are found by induction on
the template (`IndexArrIs`), and so every segment is filled from its own place
(`FilledIsPath`).  The hypothesis `NoStarSegments` says that no request has `*`
or `**` for a segment and no template the literal `*`: these are the tree's own
keys, and the search takes a request for `/**` to the endpoint of `**` before
that of a parameter.  `serving` requests no such path.

**HttpMessages** (under `MessagesAssumption`).  `Inv` says of each direction
that what its parser holds and what is on its way to it make up the rest of the
message it is in and the one behind it, of which there is at most one
(`Stream`).  The rest is spelled out for each place a parser can be at: before
or in the head (`InLine`, `InHeader`), in a body that is not chunked
(`InPlain`), before the size of a chunk (`AtChunk`), within its data
(`InChunk`), and behind the last one (`ChunksDone`).  A chunked body is a
recursive function of the offset; `ChunksUnfold` gives its equation by
induction from the end of the file, and `ChunkShape` what the stream looks like
from any chunk on: its size, a line end, its data and the line end that belongs
to the next size.  That a parser finds a line's end where it is, or not at all
yet, wherever the read was cut, is one lemma about sequences (`TakesLine`), as
is how much of a chunk a read holds (`Reach`, `ChunkEnd`).  `ControlOK` adds
that requests and responses take turns, which is why at most one message
follows the one being parsed, and why none of it is lost when `clear()` empties
the buffer of a body without a framing.  Both properties then follow from one
state.

Behind a misread the stream is arbitrary, so `Inv` says nothing of that
direction but where its messages end.  If its reader went on, an answer made of
left-over bytes could let the client send a request too early, and the other
direction would lose it; hence the hypothesis `~FollowMisread`, that a reader
stops at the first misread, which is how the run is bounded, too.
`ExactUntilMisread` does without it and speaks of the connection up to there.
`Inv` was checked with TLC on the instance of `messages` before it was proved.

**Induction.**  The library's induction theorems take an operator as a
parameter, which the provers cannot instantiate.  Where an induction is needed
it is stated of a set: one that holds 0 and with each n also n + 1 is `Nat`
(`NatSet`), or one with numbers in it has a least (`LeastOf`), both from
`WFMin`.  The recursive definitions that proofs speak of are recursive
functions; no module declares a `RECURSIVE` operator.

**Model-checked only.**  Every liveness property, since the prover does not
reason about fairness or `ENABLED`: `StartedFinish`, `AwakeProgress`,
`TimerFires`, `OperationSubmitted`, `RunReturns`, `SerialReturns`,
`CallReturns`, `StopReturns`.  Every safety property a passing run checks is
stated by a theorem, under the hypotheses given above.

## 5. Not modelled

- **IOCP**: it repeats the ring's structure on another system interface; the
  model follows io_uring.
- **HttpClientPool**: its vector is indexed outside its lock while `resize`
  may change it (`HttpClientPool.hpp:53`), a data race whose outcomes no
  property could name.  `resize` to n makes n + 1 clients.
- **The client's** downloads to a file, SSE and WebSocket loops, and a
  `close()` from the destructor while the worker still runs the loop.
- **The setters of the pool** while the manager runs, and the two older serial
  executors, which are deprecated or unused.
- **HTTPS, proxies, URL and codecs, tokens, RPC and AI clients**: sequential
  code over one connection, or pure functions of strings with unit tests.
- **SQL, reflection and JSON**: compile-time metaprogramming, of which
  `MemberMacro.hpp` is generated; no state that changes at run time.
- **Vendored code** (`lib/liburing`) and libraries (OpenSSL, sqlite3): what
  the code uses of it is modelled as external.
- **Data**: values of futures, header texts, masks, payload bytes beyond what a
  property tells apart, and logging.

The largest files of the repository are the vendored, the generated and the
metaprogramming ones of this list, which is why the share of all lines that the
modules stand for is small; the concurrent and protocol code is covered.
