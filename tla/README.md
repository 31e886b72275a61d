# A TLA+ model of raster

raster is a C++ framework for RPC services: requests run as coroutines (fibers)
on CPU threads, and non-blocking sockets are served by event loops on IO
threads. This directory models the concurrent core of it, checks the models with
TLC and proves part of the results with TLAPS. Paths below are relative to
`src/raster/`.

## The system

| Part | State | Operations | What is hard about it |
|---|---|---|---|
| `concurrency/` CPUThreadPool | threads, task queue, `threadsToStop_`, `isJoin_` | add, setNumThreads, stop, join, observers | two ways to stop a thread, counters read and changed in separate steps |
| `concurrency/` IOThreadPool | a loop, two flags and a pending count per thread | add, setNumThreads, stop, join | a picked thread may have left; a stop may come before the loop starts |
| `io/event/` EventLoop, EventHandler | events, callbacks, deadlines, epoll set, waker | addEvent, addCallback, stop, loop, handlers | wake-ups, ownership of events, timeouts |
| `util/TimedHeap.h` | map and heap | push, pop, erase | stale heap entries |
| `net/` Actor, AsyncClient; `coroutine/` | fibers, executors, kept-alive events | execute, connect, fetch, yield, close | fibers and events are unlocked and change threads |
| `net/` Protocol | counters and buffers of an event, bytes in sockets | readData, writeData, connect, close | TCP cuts frames anywhere; one connection serves several calls |
| `io/` IOBuf, Appender | circular chains, counted blocks | create, clone, link, split, move, write, reserve, unshare, coalesce | blocks are shared between threads without a lock |
| `parallel/Group.h` | free keys, counts | create, finish | keys are reused, the capacity grows |
| `parallel/` DAG, Scheduler | nodes with counts | run, schedule | atomic counts, destruction while threads still run |
| `util/` RWSpinLock, BlockingQueue, ProducerConsumerQueue, Baton | a word or two, a ring, a queue | lock, add, take, write, read, wait, post | single atomic steps of several threads |

A loop reads a request and calls `Actor::execute`, which queues a fiber for the
CPU pool. The fiber connects clients and yields. The thread that ran it then adds
the clients' events to loops. The loop that finishes the last event of a group
queues the fiber again. When the handler ends, the server event goes back to a
loop, which writes the answer. A Scheduler makes the same use of fibers for a
graph of jobs.

## Modules

- `CPUThreadPool`: one action per access to shared state in `threadRun`,
  `addThreads`, `removeThreads` and `stopThreads`. One owner thread makes the
  calls. A failed `RDDCHECK` aborts, so nothing follows it.
- `IOThreadPool`: the same calls for IO threads, `add` in three steps (pick,
  count, queue), because its lock is released at once, and `threadRun` around the
  part of `loopBody` that runs callbacks. An `add` that meets a thread without a
  loop uses a bad pointer: the variable `bad` says so and nothing follows.
- `EventLoop`: `loopBody` in steps, and every handler of `EventHandler`. Time is
  abstract (`Elapse`), and the outcome of socket operations is a free choice.
- `TimedHeap` implements `DeadlineMap`, the abstract map from keys to deadlines.
  The heap is a bag of entries; the refinement mapping reads `map_`. Both have the
  time that `pop` was given, so what is due is due at that time.
- `Group`: one action per call, since each holds the lock throughout.
- `Actor`: instantiates `Group` and composes fibers, workers, loops, clients and
  the event pool. Loops are abstract: they take an event and later finish it as
  READED or FAIL. The iteration in `Executor::callback` is one step per element,
  because a resumed fiber may extend the list meanwhile.
- `Wire`: both ends of one connection, byte by byte. Each byte carries the frame
  it belongs to and its position there. An action is one `recv` or `send`, or
  what `readData` does between two of them. The framing is that of
  `HBinaryProtocol` (a length in the header) or of `ZlibBinaryProtocol` (a mark
  at the end). The client is an AsyncClient that keeps its connection. With a mark,
  `readDataUntil` fills IOBufs of `Chunk` bytes. When the first is full the Appender
  links a second, `coalesce` deletes that one, and if the mark has not come the
  Appender writes to it all the same (`Protocol.cpp:40-42` and `:61`). The model
  goes to `at = "lost"` there: what follows is undefined, and nothing is modelled.
- `IOBuf`: objects with `next_` and `prev_`, each showing a section of a block.
  Threads own disjoint chains; a copy (unshare, coalesce, gather) is two steps.
  `reserve` moves the bytes inside their block or to a new one, and frees the old
  block whatever its count: its callers must be the only users (`Exclusive`, the
  DCHECK of `reserveSlow`). Without that guard `CountsExact` fails.
  `Join` is `appendChain` behind any object of a chain; behind the last it is
  `prependChain` of the head. The history variable `value` holds what each owner
  expects to read.
- `DAG`: graph execution, with `size_t` counts modulo `Width`. It instantiates
  `HasCycle`, the cycle check of `go()`, one edge per step, compared with the
  definition of a cycle. The Scheduler may end anywhere in the handler
  (`DestroyGraph`) or with it (`ReturnFromHandler`). `callbacks_` keeps its pointer
  to the graph (`Scheduler.h:72-73`), so a handler that yields afterwards runs
  `schedule()` of a destroyed graph (`YieldDestroyed`): the handler is then `"lost"`,
  and what follows is undefined.
- `RWSpinLock`, `Baton`: one action per atomic operation or futex call.
- `BlockingQueue`, `ProducerConsumerQueue`: one action per critical section,
  semaphore operation, or load or store of an index. Both implement `Fifo`, the
  abstract queue; in the ring a record counts as in the queue from the step in which
  `write` finds room for it to the step in which `read` moves it out.
- `MC*` modules add symmetry sets. `MCParts` puts eight modules that share no
  variable into one specification: a behaviour is one of one part, and the others
  keep their initial state. `*Proofs` modules hold the theorems.

Operators commented `Fault:` are plausible mistakes, each of which violates the
property it is paired with in PROJECT.json.

## Runs

| Run | Shows | Distinct states |
|---|---|---|
| `pool_resize` | no check fails, join drains, nothing is left over, observers agree | 113,810 |
| `pool_stop` | all threads exited, stop is prompt, calls return | 162,805 |
| `io_pool` | join runs what was added before it, the pool is settled between calls, calls return | 373,116 |
| `loop_safe` | registration, deadlines, ownership and wake-ups agree | 2,449,802 |
| `loop_live` | clients return, answers end, callbacks run, a stopped loop is left | 183,208 |
| `actor_group` | fibers and events have one user, groups resume once and whole, pooled events are idle | 119,354 |
| `actor_live` | every request is answered once, also with clients in callback mode | 53,642 |
| `iobuf` | contents, reference counts and links stay exact | 84,538 |
| `parts` | see below | 120,386 |

`parts` shows, for each of its parts:

- `RWSpinLock`: a writer is alone (`WriterAlone`).
- `BlockingQueue`: it is a first-in first-out queue in which nobody sleeps while
  there is an item (`QueueIsFifo`, refinement with its fairness).
- `ProducerConsumerQueue`: it is a first-in first-out queue (`RingIsFifo`).
- `Baton`: no assert fails, a reported delivery is one of this lifetime
  (`BatonHonest`), and a post ends the wait (`BatonDelivers`).
- `Group`: keys are exact (`KeysExact`).
- `TimedHeap`: it implements `DeadlineMap` (`Refines`).
- `DAG` and `HasCycle`: exactly the cyclic graphs are refused (`Correct`); jobs
  run after those before them (`PrerequisitesRan`), once (`OnceEach`), never in a
  destroyed graph, which only the handler itself can touch by a late yield
  (`NoUseAfterDestroy`), and the handler is resumed (`Completes`).
- `Wire`: what is handed on is one whole frame, and a deleted IOBuf is used only for
  a frame with a mark that is longer than an IOBuf (`WholeFrame`); a client gets the
  answer to its own request (`OwnAnswer`), and every call ends even if nothing
  times out, unless such a frame has come (`CallEnds`).

Two faults of the code are steps of these models, reached in the run, and no
promise of the repository is about them. Frames with a mark must fit one IOBuf
(`CHUNK_SIZE`, 4096 bytes), and a handler must not yield after its Scheduler is gone.
`WholeFrame` and `NoUseAfterDestroy` say that nothing else leads to such a use.

Three runs end in a violation, each described under "findings" in PROJECT.json:

- `pool_grow_after_stop`: poison left by an early stop fails a check in a thread
  that is added later.
- `actor_again`: a handler that closes a kept-alive client and connects again has
  the same event twice in `callbacks_`; two threads come to run its fiber.
- `actor_callback`: the callback of a callback-mode client is not called, since
  the fiber made for its event throws. `Answered` therefore excepts behaviours
  that this exception ends.

`pool_resize` has no stop(): a thread that stops early does not tell the
observers, so `ObserverAgrees` does not hold for a pool that is both stopped and
observed (`CPUThreadPool.cpp:50-53` against `:42-44`).

### Bounds

- CPU pools have two or three threads and two to four tasks: enough for two
  threads to pass the test of `threadsToStop_` on one count. `pool_stop`
  starts with all its threads, so it says nothing about growth after a stop;
  `pool_grow_after_stop` shows that this fails.
- `io_pool` has two threads and two tasks: one thread may leave while the other
  stays, and a task may add the other task. The proofs are for any number.
- Actor has two workers and two loops, so that every pair of threads can meet,
  and up to three events, so that a group has a first, a middle and a last one.
  `MaxRequests` bounds requests. `FiberAssumption` keeps enough fibers for all
  that follows from them: without it a loop would wait for a fiber, which the
  code never does, and a liveness counterexample would show only the bound.
- EventLoop has one event of each role and, in `loop_safe`, two callbacks: events
  interact only through the queues and the batch, which hold several of different
  roles at once. The proofs are for any number.
- Wire: three calls, headers of two bytes, bodies of 0, 1 and 3 bytes, sockets
  of four bytes. A frame can be cut inside header and body, be longer than a
  socket holds, or end with its header. An IOBuf holds three bytes (`Chunk`): of the
  frames with a mark one fits with room to spare, one just fits, and the longest
  finds the IOBuf full two bytes before its end. Three calls let a late answer meet the
  next call on a connection that was used twice.
- IOBuf: three objects, three blocks and two byte values. Blocks that are created
  hold one byte, those of `ensure` and copies up to two. `MaxHeadroom` is 1: it bounds the headroom
  that `trimStart`, `advance` and `reserve` may make. So there are chains of
  three, insertion in mid-chain, two owners of one block beside a third, and copies
  with headroom. A chain of two is not cloned: that takes four objects. With four
  objects and two blocks the same properties hold, in 249,584 states, but three
  blocks are then too many for a run of a few minutes. A `VIEW` takes states that differ only in bytes nobody shows for one.
- RWSpinLock: three threads. BlockingQueue: two takers, at most `MaxPosts` = 4
  posts. Ring: size 3, the smallest in which full, empty and between differ.
  Baton: three lifetimes, so that a late wake-up can meet the next but one.
- Group: the capacity doubles twice. TimedHeap: two keys, three deadlines, two
  copies of an entry.
- DAG: all graphs of three nodes with up to two edges from each, self-loops and
  repeated edges included. `MaxYields` is 2: one more yield after the graph ran.
  `Width` is 32, the least power of two that `DAGAssumption` allows for these.

### Fairness

Weak fairness only: threads are scheduled, `epoll_wait` returns within its
timeout, handlers, tasks and jobs end, a thread inside `addEvent` or `add`
reaches its end, a socket that can take or give bytes is served, and, in
EventLoop and Actor, deadlines pass. In `Wire` no timeout has to happen. Requests
need not arrive and nobody has to begin a call. Handlers that loop for ever are
outside the claim.

### Deadlock

`CHECK_DEADLOCK FALSE` is set where the system may stop: Actor when the bounded
requests are done or a fault ended the process; IOThreadPool when all threads and
tasks are used up; `parts` when a handler returned, all calls, posts or lifetimes
are used up, or `go()` threw; IOBuf when all objects wait for a free block. That
nobody waits for ever otherwise is what the liveness properties say.

## Proofs

All are for every value of the constants that the named assumptions allow.

- `CPUThreadPoolProofs`, from `PoolAssumption`. For any calls: `TypeCorrect`,
  `StopWaitsForAll` (stop and join return only when all threads have exited) and
  `StopPromptly`. The first invariant, `IInv`, says that a thread that runs is in
  `threads_`, that a thread in `stoppedThreads_` has exited, and that the owner's
  loop counter is the size of `threads_`: so when the loop ends, no thread runs.
  `PromptInv` adds that during a stop `threadsToStop_` covers every thread that
  may still decrement it: whoever reads it sees a positive number and leaves.
  `ChecksHold` and `JoinDrainsQueue` assume `Careful`: the owner does not both
  stop the pool and resize it. `pool_grow_after_stop` shows why. `CheckInv` counts
  every thread to be removed once: still to decrement `threadsToStop_`, on its way
  into `stoppedThreads_`, or in it. Without stops `threadsToStop_` is also the
  number of poisons that have not taken effect. `DrainInv` adds that the tasks
  join owes are ahead of every poison, so none takes effect before them.
  `RemovalsSettle` and `ObserversAgree` assume that stop is never called. After an
  early stop poison stays in the queue and the observers are not told.
- `IOThreadPoolProofs`, from `IOAssumption`: `TypeCorrect`, `CallsSettle`,
  `PendingStaysExact`, `JoinLeavesNothing`. The invariant has four parts.
  `ThreadsOK` ties a thread's flags and its loop to where it is. `OwnerOK` says
  that the owner's counter is the number of threads that were told to end or will
  be, so it collects exactly those. `TasksOK` says that a queued task is with its
  thread. `SureOK` says that a task that join owes is with a thread that has
  not left its loops. A thread leaves them only when `pendingTasks` is 0, and
  because the count is exact no such task is left then.
- `EventLoopProofs`: `TypeCorrect`, `RegistrationExact`, `LoopKeepsToItsOwn`,
  `WakeupNotLost`. The first two properties need each other, and that an added
  event is in one queue once, that what a poll returned is still held, and that a
  forwarded copy never is. `NoLostWakeup` is strengthened to every point between
  the swap of the queues and the end of the poll.
- `ActorProofs`, from `ActorAssumption` (finitely many events, a positive initial
  capacity) and for `Disciplined` handlers: `ActorNoFault`,
  `ActorFiberExclusive`, `ActorLoopOwns`, `ActorWokenWhole`,
  `ActorGroupCountExact`, `ActorPoolIdle`, `ActorAnsweredOnce`, for any number of
  requests, CPU threads and loops, with kept-alive clients or without. Disciplined
  means that a handler does not connect again after it closed a client
  (`actor_again` shows what follows if it does) and uses no client in callback
  mode (`actor_callback`). Few of them are inductive alone. The invariant `IInv`
  rests on the set `Waited` of unfinished clients of blocked fibers. An event to
  be added by a thread inside `Executor::callback` (`AheadInv`), added to a loop
  (`AddedInv`) or polled there (`PolledInv`) is in `Waited`, and in one such place
  only: so whoever finishes it finds its fiber blocked. `GroupInv` says that the
  unfinished clients of a blocked fiber share one group, whose count is their
  number. So the last of them to finish, and no other, queues the fiber, and
  `QueueInv` follows: a queued fiber waits for nothing. The thread that ran the
  fiber may still be inside `callback` then. `WorkerInv` says that the fiber can no
  longer connect, so `callbacks_` does not grow under that thread, and `FiberInv`
  that the callbacks are the clients' events, each once.
- `WireProofs`, from `WireAssumption`: `FramesWhole` and `AnswersOwn`. `Got` is what
  has reached an end since its event was reset, whether it is still in the socket
  or already in the buffer: a `recv` leaves it alone and a `send` extends it.
  `Receiving` says that `Got` is the beginning of one frame, that `rlen` counts
  to the end of its header or of the frame (`Counted`), and that an end which is
  lost has read more than an IOBuf holds and no mark yet. `ServerOK` and `ClientOK`
  add how much of which frame is on the way while a call is asked, handled and
  answered. A connection in the pool is `Quiet`: nothing is on the way, so the next
  call finds its own frame first.
- `HasCycleProofs` and `DAGProofs`, from `DAGAssumption`: `HasCycleCorrect`,
  `JobsInOrder`, `JobsOnce`, `NodesOutliveUse`. The assumption is that a `size_t`
  can count the edges of the linked graph and the yields of the handler.
  hasCycle removes edges until no node without edges into it has any left.
  `WholeInv` says that a set of nodes within which one can always go on keeps a
  part of itself untouched, so a cyclic graph is never emptied. Conversely, if
  edges are left, each leads back to another (`BackwardForward`), and a finite set
  within which one can always go back has a part within which one can always go
  on: the least nonempty closed set is one. This takes the place of an induction
  over paths.
  `FirstInv`: until the handler yields again, a count is the number of edges into
  its node that no `schedule()` has seen. So whoever takes the last count executes
  the node after all before it. `AllSeen`: when the sink was executed no edge is
  left unseen. The target of an unseen edge has not run, so its own edges are
  unseen too, and one could go on for ever within such jobs: a cycle, which
  `Correct` excludes. Hence no thread touches a node after the handler goes on, and
  a Scheduler that ends anywhere after that is safe until the handler yields again.
  `LaterInv`: further yields decrement the counts of the roots once each, from 0 down through `Width`, and
  do not bring one back to 0 within `MaxYields` yields.
- `PartsProofs` has the parts that stand alone.
  `LockExcludes`: the word is twice the announced readers plus the writers, so 0
  means nobody. `EveryItemPosted`: items are at most the posts and the threads
  about to look. `QueueKeepsOrder`: BlockingQueue implements the safety half of
  `Fifo`; a taker that sleeps or is woken leaves the abstract queue alone, one
  that finds an item takes its first. `RingImplements`: the slots between the
  two indices hold the records, and none of them is the producer's.
  `BatonIsHonest`: the state determines where waiter and poster of this lifetime
  can be.
  `GroupTypes`, `KeysStayExact`, `CreateIsFresh`: types and exactness are
  inductive together, since each needs the other when the capacity grows.
  `HeapTypes`, `NothingLost`, and `HeapImplements` (TimedHeap implements
  DeadlineMap). The refinement needs `Covered`: pop may answer "nothing due" only
  because every current deadline is in the heap.

Only model-checked: IOBuf, that a take returns (the fairness of `QueueIsFifo`),
handlers of Actor that are not disciplined, and all liveness (`Answered`,
`Completes` and the like). Liveness under fairness and ENABLED are beyond the
prover. So are induction over data and RECURSIVE operators: what an IOBuf shows
is the concatenation along a chain of any length, a recursive function.

## Not modelled

- TimedHeap drops the `repeat` flag. Waiting for several clients with none
  connected, the size limit of EventPool and job lookup by name are left out.
- Concurrent owners of a pool: the lock holders in `ThreadPool.cpp` are unnamed
  temporaries and protect nothing, so that any two calls interleave freely, and
  the repository never makes two at a time.
- Wire: requests that are sent before the last answer arrived. `readDataUntil`
  would take bytes of the second into the first. The clients here never do that.
- IOBuf: memory of others (wrapBuffer, takeOwnership) and moveToString; that
  capacities are rounded up; the readers of `Cursor.h`, which change nothing.
- `util/Singleton.h`: the first use by two threads at once, of which the second
  replaces the instance (see "hazards" in PROJECT.json). The modules take
  singletons as made before the threads start.
- The memory model: the primitives use acquire and release where it matters for
  one word; the modules take every access as sequentially consistent.
- Observable, EvictingCacheMap, PB RPC, HTTP, Monitor and the Flume plugin:
  sequential code or glue around what is modelled. Compression, text, JSON,
  hashing and vendored code: conversions of data. PROJECT.json gives the
  reason for each part.
