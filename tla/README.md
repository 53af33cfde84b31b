# Verification of my_async

my_async (namespace `zh_async`) is a C++20 coroutine library: per-thread event
loops over io_uring, timers, cancellation, futex-based synchronisation, a
thread pool, queues, streams and thin wrappers for files and sockets.  This
directory models it in TLA+, checks the models with TLC and proves theorems
about them with TLAPS.

The code is read as intended where it does not compile as it stands (misspelt
members, a `SpinMutex` without `unlock`, a missing `!`, ...): a spelling
mistake is corrected silently, a mistake that changes behaviour is kept.

## 1. Inventory

| Component | State | Operations | Interacts with |
|---|---|---|---|
| Event loop: `IOContext`, `PlatformIOContext`, `UringOp` | ring, `mNumSqesPending`, `mPrevious` of each request | `run`, `runOnce`, `getSqe`, `co_await` of a request, `link_ops`, `startDetach`, `waitEventsFor` | resumes coroutines; kernel; timers |
| Timers: `GenericIOContext`, `co_sleep` | tree of `TimerNode`, `mExpires` | enqueue, `runDuration`, `doCancel` | loop; tree; cancellation |
| `RbTree` | links, colours, root | insert, erase, front | timers |
| Futex | word, sleepers in the kernel | `futex_wait`, `futex_notify`, `futex_notify_sync` | requests of the loop; cancellation |
| `BasicMutex`, `MutexImp1`, `CallOnce` | byte, ready flag | `lock`, `try_lock`, `unlock`, `call_once`, `set_ready` | futex |
| `ConditionVariable`, `Semaphone` | 32-bit counter | `wait`, `notify_*`, `acquire`, `release` | futex |
| `RingQueue`, `Queue`, `ConcurrentQueue` | ring indices, a condition variable, a spin lock | `push`, `pop`, `try_*` | condition variable |
| `Thread_pool` | free, working and all threads; task of each | `run`, `submitJob`, `startMain`, destructor | futex; cancellation; OS threads |
| `CancelSource`, `CancelToken`, `CancelCallback`, `IntrusiveList` | flag, list of callbacks, parent link | `doCancel`, `doRegister`, unregistration | every operation that can be cancelled |
| `when_all`, `when_any`, `co_timeout` | control block, results | start, child completion, resume | cancellation; tasks |
| `Task` and its promises | `mPrevious`, result, exception | `co_await`, final suspend, generators | everything |
| Streams: `BorrowedStream`, pipe, file, socket, string | buffer indices, queues of a pipe | `getchar`, `getspan`, `putspan`, `flush`, `seek`, `close` | queues; requests |
| Files, sockets, proxy, URI | handles | wrappers over requests; parsing | loop |
| `IOContextMT`, utilities, HTTP stubs, `main.cpp` | - | start-up, formatting, a demonstration | - |

Hard behaviours, and what makes each component correct:

* **Event loop.**  Coroutines are resumed from three places (spawn, timer,
  completion) and act inside the resume.  Each suspended one must be resumed
  exactly once; the counter that decides when `run()` ends must be exact; the
  wait must not pass a timer; a full submission queue is submitted in the
  middle of a preparation; batches are reaped before they are resumed.
* **Timers and tree.**  The tree must hold exactly the active timers, in order
  and stable among equals, through insertions, expiries and cancellations.
* **Futex and locks.**  The wait reaches the kernel later than `futex_wait`
  is called, the wake later than `futex_notify` is; either may be cancelled.
  No two holders, no lost wake-up, one initialisation.
* **Thread pool.**  Callers, threads and the destructor interleave.  A function
  is run once, by one thread, while its caller's frame is alive; the caller
  sees the result; the destructor ends.
* **Queues, condition variable, semaphore.**  Values are delivered once and in
  order; nobody sleeps on a queue that has what he waits for.
* **Cancellation, when_all, when_any.**  Every registered callback runs once,
  even when callbacks change the list; the waiter is resumed once, after the
  children are done with its frame.
* **Tasks.**  A frame has one owner and is destroyed once; control is neither
  lost nor forked by suspension, early return, exception or `co_yield`; a task
  runs under the token of whoever awaits it.
* **Streams.**  What is read is what was written, whatever the buffer sizes,
  partial transfers and failures; the end of the file comes last and once.
* **Files and sockets.**  The kernel gives a closed number to somebody else at
  once: no descriptor is leaked, closed twice or taken for another's; a call with
  a timeout or a cancelled token ends.
* **Demonstration loop.**  Frames resume one another and are destroyed by the
  resumed; the clock may be set back.

All hazards, with their lines and the properties that watch them, are in
`PROJECT.json`.

## 2. Modules

| Module | Models | Relation |
|---|---|---|
| `Reactor` | what a loop promises its coroutines | abstract |
| `EventLoop` | one thread's loop, its coroutines, ring and kernel | implements `Reactor` |
| `EventLoopProofs` | theorems about `EventLoop` and `TimerTree` | extends both |
| `DemoLoop` | `main.cpp`: its loop, `sleep_for` and the tasks | implements `Reactor` |
| `DemoLoopProofs` | theorems about `DemoLoop` | |
| `TimerSet` | a stable set of timers | abstract |
| `TimerTree` | the timers in their red-black tree, pointer by pointer | implements `TimerSet` |
| `MCTimerTree` | the symmetry of the timers, for TLC | extends `TimerTree` |
| `Futex` | waits and notifications as requests | instantiated by `Mutex`, `Semaphore` |
| `Mutex` | `BasicMutex`, `MutexImp1` | uses `Futex` |
| `CallOnce` | `CallOnce` | extends `Mutex` |
| `MutexProofs` | theorems about both | |
| `Semaphore` | `Semaphone` | uses `Futex` |
| `ThreadPool` | `Thread_pool` | |
| `ThreadPoolProofs` | theorems about it | |
| `ForkJoin` | what a race of tasks promises its caller | abstract |
| `IntrusiveList` | `ListHead`, link by link | instantiated by `Race` and `Net` |
| `Race` | `when_any` over `CancelSource`, `when_all`, `cancelGuard` and `co_sleep` | implements `ForkJoin` |
| `RaceProofs` | theorems about it | |
| `Channel` | a bounded FIFO channel with a loose place | abstract |
| `RingQueue` | `RingQueue` | instantiated by both queues |
| `CondVar` | `ConditionVariable` over one ring or several | instantiated by both queues |
| `Queue` | `Queue` and the coroutines that use it | implements `Channel` |
| `QueueProofs` | theorems about `Queue` | |
| `ByteStream` | what a pair of connected streams promises | abstract |
| `ConcurrentQueue` | `ConcurrentQueue`, on one thread or several | instantiated by `Pipe` |
| `BufferedStream` | the indices of `BorrowedStream`'s buffers | instantiated by `Pipe` |
| `Pipe` | two streams over a pipe, a socket or a string | implements `ByteStream` |
| `CallStacks` | what `co_await` promises | abstract |
| `Tasks` | tasks, promises, awaiters, frames and `co_spawn` | implements `CallStacks` |
| `TasksProofs` | theorems about it | |
| `Net` | files, sockets and the proxy over the loop's requests | |
| `MCNet` | a server and a client, for TLC | extends `Net` |
| `IOProofs` | theorems about `Net` and `Pipe` | extends both |

**EventLoop.**  `pc` is the place in `run`: firing timers, waiting, resuming a
batch.  `stack` is the C++ stack of nested `resume()` calls; the last coroutine
on it is the one executing.  A coroutine is a whole chain of tasks: inside a
chain control is transferred, never queued.  A request is a ticket of `Sqes`
followed from the submission queue (`sq`) to the kernel (`kernel`), the
completion queue (`cq`) and the batch taken from it (`batch`).  `getSqe` of a
full queue is `WithSqe`.  Program actions (`Spawn`, `Sleep`, `AwaitOp`,
`AwaitLinked`, `StartDetached`, `Finish`) happen while a coroutine executes,
loop actions when the stack is empty, and the kernel and the clock at any time.
`EventLoop` needs of its timers only that one of the earliest is fired;
`TimerTree` shows that the tree gives that, and `TimerSet` states it.

**TimerTree.**  `tree` holds every `RbNode` field; the operators carry the names
of the functions of `rbtree.hpp`.  An insertion or an erasure is one step up to
its call of `fixViolation` (`Arm`, `Fire`, `Cancel`); each iteration of that loop
is a step more (`Fix`), and so is its end, where the root becomes black (`Fixed`).
`fixing` is the loop's node, and no other operation starts while it is set, as on
the one thread of the code.  The loops that only walk down (the descent of
`doInsert`, the leftmost node of `getFront` and `doErase`) are `EndOf`: the node
without a next one among those the walk passes.
`fault` records a null pointer dereference.  `order` is a history of who is
armed.  A cancellation takes any node out, as the code does it: `spoiled` says that
the node had two children, and that step, with the tree it leaves or the null parent
it meets, is the last of a behaviour.  A node's fields are forgotten when its coroutine's frame is destroyed,
but for `mCancelled`, which stays as `await_resume` read it: it is how a sleeper,
and `TimerSet`, tell a timer that fired from one that was cancelled.

**Futex, Mutex, CallOnce, Semaphore.**  A wait is `queued` until the kernel takes it and
only then compares the word; a notification is counted until it is delivered.
`EAGAIN` wakes the waiter (it is ignored by `futex_wait`).  Every access to
shared memory is one step.  Assumed: the kernel accepts futexes of one byte,
which `FUTEX2_SIZE_U8` asks for and present kernels refuse.
`Semaphore` takes the accesses of `acquire` and `release` one by one, with the
loop as it is written: repeated when the exchange succeeded, left when it failed.

**ThreadPool.**  A caller walks through `submitJob` one critical section at a
time, then waits as in `rawRun`.  A thread walks through `startMain`.  A
thread's own mutex is held across steps in `Held`; the three spin locks are
never held across steps.  The test of the predicate of `mCV.wait` and the
blocking are two steps (with the mutex held in between, but the destructor does
not take it).  Spurious wake-ups are allowed.  The loop's test of the stop
token at the top of `startMain` is folded into the test after it.  When a call
returns, its shared futex word belongs to the thread alone, so a thread that
has still to notify it wakes nobody.

**Race.**  One thread, so the control stack `stack` is again the nested
`resume()` calls, and a step is what the innermost coroutine does before it
suspends, resumes another or ends.  A task stands for the chain from
`whenAllHelper` down to its operation; `pc` is `calling` while the task's
`cancel()` walks over the callbacks and `suspended` while it awaits them.  The
links of the list of callbacks are kept as the code keeps them
(`IntrusiveList`), with its iteration, which leaves out the oldest node.
`cancelOp` is the request of a `cancelGuard` callback; `aim` remembers the
operation it was meant for, since the kernel matches by address and the task
may have begun another one there.  Tasks that are cancelled give up.

**RingQueue, CondVar, Queue, ConcurrentQueue.**  `Queue` has no lock and belongs to one thread, so
whatever a coroutine does between two suspensions is one step, and the requests
of all of them pass through one ring in order (`CondVar` therefore has its own,
ordered futex; `Futex` is the unordered one of many threads).  `sent` and
`received` are histories.  `push` never executes a `co_return`; it is read as if
it returned success.  `blocking` fixes who calls `push` and `pop` and who calls
`try_push` and `try_pop`: the latter notify only at the edge of empty and full,
which strands the second of two sleepers of a kind, so they are combined with at
most one.  The ring runs over `Size` + 1 slots and `make_unique` allocates `Size`:
what is popped from the last one is any value (`Front`).  That a store there may
also damage memory of somebody else is not modelled.  `Channel` has the same
places, of which the last is a loose one: what `Queue` promises is the FIFO order of
all values but each (`Size` + 1)th.
`ConcurrentQueue` has the same ring under a spin lock.  A critical section is one
step; the wait reads the count, and the notification is sent, after the lock was
given back, so on two threads a push falls in between.

**BufferedStream, Pipe.**  `kind` is what lies between the two streams: a pipe on
one thread or on two, a socket whose kernel takes and gives part of what it is
asked to, or a string that is read when its writer is gone.  `write` and `read`
are the two coroutines' calls; each turn of the code's loops (take what is
buffered, then refill; fill the buffer, then flush) is a step, and a step ends
where a request or a wait of the queue may suspend it.  The writer is the body of
`pipe_bind`: some writes, then flush, close and destruction; or it is destroyed
without.  `sent`, `taken`, `last` and `state` are the variables of `ByteStream`.
`mOutIndex` starts with any value of `Unset`, as it has no initialiser
(`stream_base.hpp:544`), until `flush` or `trywrite` allocates the buffer.  A
socket's write may fail after it took a part: the next flush sends that part again
(`SocketWriteFails`; `sent` then goes on with a copy of what waits, and `Again` is
the step of `ByteStream`).  Three steps are undefined in C++, set `defined` to FALSE
and end the behaviour: a put before the buffer exists, if `mOutIndex` is not zero
(`WildPut`); the close of a socket's or a string's stream, whose `raw_close` is that
of `Stream` and returns a `Task` without a coroutine (`NullClose`); and a push to or
a pop from the slot past the array of the pipe's ring (`InArray`).  So over a pipe
every behaviour ends, or is undefined, with the (`QueueSize` + 1)th chunk.
Read as intended: `raw_write` of a pipe returns the size (`pipe_stream.cpp:51` has
no `co_return` on that path).  A wait is cancelled only on one thread.

**Tasks.**  A frame is a number, allocated in order.  `tasks` says in whose `Task`
variables its handle is, `awaiter` is the `TaskAwaiter` that lives in a frame
while it awaits, `mAwaiter` the promise's pointer back to it.  `current` runs;
`resumers` are those inside a `resume()`; `io` are the handles the event loop
holds.  What a body does is chosen freely: create a task, move one into another's
frame, drop it, await it by name or as a temporary, return, throw, yield, return
early with an error, suspend in the loop, spawn.  Destruction takes with it what
the frame owns and what that owns in turn: the least set closed under ownership
(`OwnedWith`).  `said` and `got` are histories: what a frame
returned and what its caller got of it.  `GenThrows` lets generators throw and
`BindCalled` lets coroutines bind tasks they then await: both FALSE in the run.

**Net.**  `fds` is the kernel's table; a descriptor stands for an open `file`,
whose identity is a history that tells a number from its successor.  `handles`
are the coroutines' `FileHandle`s.  A coroutine is in one `call` and awaits one
request `op`; the request is `prepared` (in the ring), `submitted` (in the kernel)
and `completed`.  A request names its descriptor by number until it completes.
Each wrapper of `fs.hpp` and `socket.cpp` is the action that begins it and the
actions with which its coroutine goes on; the kernel's answers, refusals, timeouts
and cancellations are external.  Each coroutine passes on the token of one of the
sources `Tokens`; `mCancellers` is the list of a source's callbacks, with the code's
iteration, so `Cancel` issues no `prep_cancel` for the oldest of them, which is the
only one when one coroutine waits.  Assumed: handles are not shared between
coroutines; a close that fails keeps the descriptor; a cancellation does not hit
a later request at the same address (`Race` is about that one).  Without a proxy
`socket_proxy_connect` is `socket_connect`: call `connect`.

**DemoLoop.**  A task and the `sleep_for` it awaits are two frames, `outer` and
`inner`; the heap holds the handle of the inner one, whose end resumes the outer.
`now` is the system clock, which goes on by `Tick` and may be set back.

## 3. Runs

| Run | Expected | Question |
|---|---|---|
| `event_loop` | pass | Is everyone who waits held once and resumed, with an exact counter, and is the loop a `Reactor`? |
| `demo` | pass | Is the loop of `main.cpp` one, and does `main` read every result? |
| `locks` | pass | Exclusion, wake-ups, initialisation and termination with cancelled waits. |
| `semaphore_threads` | violation | Does one call take one unit? Not on two threads. |
| `thread_pool` | pass | Is each function run once, in a live frame, and does each call end? |
| `thread_pool_shutdown` | violation | Does the destructor end? A stop can fall between test and block. |
| `timer_tree` | pass | Is the tree a timer set, after any mix of arming, firing and cancelling, exactly until a node with two children is cancelled? |
| `race` | pass | Does `when_any` return once, after all its tasks, with the first result, over a sound list of callbacks? |
| `queue` | pass | Is the queue a FIFO channel, but for the values in the slot past the array, in which nobody sleeps for nothing? |
| `pipe` | pass | Up to the first undefined step: is what is read what was written, over any of the media, and does a closed stream deliver everything? |
| `tasks` | pass | Has each frame one owner, does control always have one place, and does `co_await` behave as a call? |
| `net` | pass | Is a descriptor ever leaked or mistaken, and do the calls that promise to end do so? |

Bounds, and why they suffice:

* `event_loop`: two coroutines (one to be suspended while the other runs, spawns
  or is resumed in the same batch), two tickets (a linked pair, or two requests
  completed in either order), a submission queue of one entry (so that every
  second entry submits, and a pair is split), delays 1 and 3 around a maximal
  sleep of 2 (the cap matters and does not), clock up to 3.
* `demo`: three tasks, each with two sleeps of 0, 1 or 2 on a clock up to 4 that
  is set back once: timers of one expiry, one of no length, and
  one whose wait has to be repeated.
* `locks`: three coroutines (a holder, a sleeper and a newcomer), four calls,
  two undelivered notifications of a kind.
* `semaphore_threads`: two threads, two units, four calls.  With `OneThread` =
  TRUE the property holds over the whole of that instance.
* `thread_pool`: two callers, three calls, two threads: one call makes a thread
  free, the two others contend for it or create another.  `MaxThreads` stops a
  call that would need a third.
* `timer_tree`: five nodes and five times, so every order of five timers with
  and without ties: rotations that move a subtree, recolouring with an uncle,
  reinsertion, and a cancellation of any of them.  The nodes are symmetric.  The
  theorems drop the bounds.
* `race`: four tasks, so that a list of four callbacks loses one to the iteration
  and three are called, nested and through the ring; one of them has two
  operations, so that it may begin another while its cancellation is under way;
  some have none and end before others begin.  `Kinds`
  leaves out requests that nobody can cancel (`"plain"`): adding them triples
  the run and changes no answer.
* `queue`: two producers and two consumers (a sleeper and one who steals), two
  slots, six calls: positions pass the seam, both sides block, and each
  coroutine may return.  One cancelled wait.
* `pipe`: buffers of two bytes, writes and wholes of up to three (one more than a
  buffer), reads of up to two, a queue of three chunks (as many as there are bytes: the writer
  waits for room when each is a chunk, and what it then pushes is in the slot past
  the array), a wire of two bytes, one byte that ends a line, one failure or
  cancelled wait, an `mOutIndex` that is zero or not.
* `tasks`: four frames: a starter, a caller, a callee and one more to be owned,
  yielded to or spawned meanwhile; one token against none.
* `net`: two coroutines, two descriptors: a number is closed by one and given to
  the other at every point between.  One source for both: two callbacks, of which
  one is called, or a lone one that is not.

Fairness.  `EventLoop`: the thread keeps executing (one weak fairness condition
on the program and loop steps together, so the code decides the order), the
clock advances, the kernel completes each request it was given; `-EINTR` is
never forced.  `DemoLoop`: the thread executes and the clock advances;
it is set back at most `MaxSetBacks` times.  `Mutex`, `CallOnce`: a coroutine that can run is run by its
loop, holders release, rings are submitted and notifications delivered.
`Race`: the thread executes (a suspended task is resumed by its loop once its
completion is there) and the kernel answers cancellations; no operation has to
complete by itself, `Returns` assumes it in its premise.  `Queue`: the ring is
submitted and woken coroutines are resumed; calls and cancellations are free.
`Pipe`: whoever can run is run, rings are submitted, the socket completes what it
is asked, and the reader reads on until the end; cancellations and failures are
free.  On two threads `AllDelivered` claims nothing: the window of
`ConcurrentQueue` forbids it.
`Net`: the ring is submitted, completed requests resume their coroutine, what
depends on no peer (opening, closing, creating) is answered, an armed timeout
fires and a cancellation that finds its request ends it; a peer owes nothing.
`ThreadPool`: threads and callers keep running, functions return; a caller that
finds a thread's mutex free again and again gets it (strong fairness, needed
only because spurious wake-ups may recur); nothing forces calls, cancellations,
spurious wake-ups or the destruction.  `Tasks`, `TimerTree` and `Semaphore` state
safety only.

Deadlock is checked in every run but `tasks` and `semaphore_threads`, whose
programs may stop at any moment (a coroutine that nobody resumes, a semaphore
nobody releases); where another system may come to rest there is an explicit
stuttering action (`Terminated`, `Spoilt`) with the condition for it.

## 4. What the violations say

1. `thread_pool.cpp:20`: stop and notification without the thread's mutex: a
   thread between its test and its blocking misses both.
2. `semaphone.hpp:44`: the exchange is repeated when it succeeds and the loop is
   left when it fails: a call may take two units, or none.

More mistakes contradict comments of the code.  They have no run that ends in a
violation: the passing runs model them, and their properties say how far they reach.

* `rbtree.hpp:183`: erasing a node with two children redirects the left link of
  the parent of the erased node, where the one of its successor's parent is meant:
  other timers are lost, or a null parent is dereferenced.  `mTimers` is to store
  all active timers (`generic_io.hpp:101`).  `AllActive` says that this happens at
  every such cancellation, and otherwise never.
* `ring_queue.hpp:63`: positions wrap after `mTail`, not at it, so every
  (`maxSize` + 1)th value is stored past the array (line 8: the array that stores
  the elements of the queue).  `ImplementsChannel` says that the other values come
  out as they went in; in `pipe` the behaviour ends there.
* `ilist.hpp:144`: the end of the iteration is the last node, not the root, so
  `cancel()` skips the oldest callback, or the only one, and its task goes on.
  `cancel.hpp:65` and `:73` say that all callbacks are called, `when_any.hpp:22`
  that all other tasks are cancelled, and `when_any.hpp:112-117` describe `co_timeout`
  as a race of two, whose loser is that task.  `CancelledEnds` and `CallsEnd` are
  about the callbacks that are called; `Returns` assumes that the others end by
  themselves.
* `task.hpp:210` (`GenThrows` = TRUE): an exception that leaves a generator is not
  thrown again, as the comment at line 211 says it is; `Rethrown` states it.  With
  `BindCalled` = TRUE the token given by `bind` is replaced when a coroutine awaits
  the task (`task.hpp:656`), so `bind` does not pass it on as `cancel.hpp:270` says;
  `BoundKept` states it.  The run leaves both constants FALSE.

The same modules show more, with constants that the passing runs avoid, or in
parts that no stated property reaches.  We know of no comment, document or test that
states the contrary:

* `platform_io.cpp:247` (`Kinds` with `"zerocopy"`): a zero-copy send
  (`socket.cpp:343, 381`) posts a completion and later a notification.  The second
  resumes whatever the first left behind, and the counter is lowered twice.
* `thread_pool.cpp:87`: the working list is entered after the task was handed out:
  a thread may be on both lists.
* `stream_base.hpp:38`: to close the stream of a socket or a string awaits a null
  handle.  `stream_base.hpp:544`: a put before the first flush uses an uninitialised
  index.  `stream_base.hpp:422`: after a failure what was sent is sent again.
* `queue.hpp:112`: on two threads a consumer may sleep on a queue that is not
  empty.  `queue.hpp:36`: `try_push` may strand the second of two sleepers.
* `generic_io.cpp:28` fires timers that are due again before it looks at the ring:
  a sleep of zero length in a loop starves all requests.

## 5. Proofs

`EventLoopProofs`, for any sets of coroutines and requests, any queue size and
delays:

* `TypeCorrect`: the types.
* `CounterExact` (no zero-copy): each step changes `pending` by what it adds to
  or takes from the outstanding tickets.  Inductive with the types alone; the
  lemmas say that submitting moves tickets on without adding any.
* `NeverReentered`: the stack holds each executing coroutine once.  Inductive
  with the types; a spawn pushes a new coroutine, a suspension pops the last, the
  loop resumes on an empty stack.
* `HandleOnce` (no zero-copy): needs `ControlInv`, which adds to `OneHandle` and
  `NoReentry` that the loop waits and leaves on an empty stack and that a
  completion is in hand only during its batch.  A coroutine that suspends is
  executing, so no handle of it is outstanding (`FreshHandle`).
* `Implements` (no zero-copy): `EventLoop` implements `Reactor`.  The interesting
  step is `Leave`: the counter is zero, so by `CounterExact` no request is
  outstanding, by `PhaseInv` none is in a batch, and by `OneHandle` nobody is
  suspended.
* `NeverOversleeps`: the deadline was the earliest expiry or sooner when the wait
  began, and while the loop waits nobody runs who could arm an earlier one.

The assumption `"zerocopy" \notin Kinds` is needed: with one TLC refutes each of
the three.  The other assumptions are those of the modules' `ASSUME`s.

The same module, for `TimerTree`, with any finite number of timers and any expiry
times, armed, fired and cancelled in any order:

* `TimersActive` (`AllActive`): until a node with two children is cancelled, the
  tree holds exactly the active timers, links and parent pointers agree, and no red
  node has a red parent between operations; after such a cancellation one of these
  is always false.  So that erasure, and nothing else, is what can go wrong.
* `TreeIsTimerSet`: `TimerTree` implements `TimerSet`, up to and with that step.

Both rest on `TreeSafe`, which is `TreeInv` until the tree is spoiled, and which TLC
checked before it was proved (on three timers, and without `Ordered`, which quantifies
over functions, on five).  `AllActive` alone
is not inductive: it says nothing of where in the tree a timer is, nor of the colours
while `fixViolation` runs.  `TreeInv` adds:

* the search order, as bounds: every node lies between a `lo` and a `hi` that its
  children inherit (`Ordered`).  The order is that of `mExpires` and, among equals,
  of arming (`Less`), because the descent of `doInsert` goes right past equals.
  Stated so, it is local to a node and its children, and survives a rotation by
  looking at the two nodes that turn (`RotateLeftKeeps`, `RotateRightKeeps`);
* the colours: one red node with a red parent, or a red root, and only at `fixing`
  (`Colors`).  This is what gives `fixViolation` a grandparent to rotate although
  erasures repair colours with the fix of insertions and leave black heights uneven
  (`FixKeeps`, by the uncle's colour and the four forms of a rotation);
* that all nodes are reached from the root, as induction (`Reach`): a set that holds
  the root and is closed under children holds every node.  With the bounds it makes
  the walks end (`WalkEnds`) at the first node in the order (`FrontEarliest`).

An insertion hangs the node at the end of its descent, between the bounds of that
place (`InsertKeeps`); an erasure puts the one child, whose bounds widen, in the
place of its parent (`EraseKeeps`).  Equal times are the reason why `order` is part
of the argument: arming extends the order at its end (`LessGrows`) and taking out
restricts it (`LessShrinks`).

`DemoLoopProofs`, for any number of tasks and delays and any clock: `Implements`,
`DemoLoop` implements `Reactor`.  `Inv` says where each coroutine's handle is: in
the queue before it starts, in the heap while it sleeps, nowhere else; what its
two frames and their promises then look like; and that nobody is started before
`main` has added it.  So a timer that fires wakes a waiting coroutine, and an
empty queue and heap leave none.  `TypeCorrect`: the types, which also say that
the ready queue, the heap and the processor hold each coroutine once.

`MutexProofs`, for any number of coroutines and calls: `TypeCorrect`,
`Exclusion`, and `WakeupKept`, whose invariant relates the byte, the program
counters and the futex: a waiter that sleeps compared the byte when it was set,
and whoever cleared it since still has a notification to send or deliver.

Its second half is about `CallOnce`, which extends `Mutex`, for any callers and
calls.  `Once`: `OnceInv` is `InitOnce` with exclusion and the types; `set_ready`
preserves it only because no second holder can be in its initialiser, and the
second test of the flag is made by the holder.  `OnceKeepsMutex`: every step of
`CallOnce` is one of `Mutex`'s, a call that finds the object ready (`Skip`), or a
cancelled lock that is tried again (`Retry`), so types, exclusion and wake-ups carry over to the specification
that the run checks.

`ThreadPoolProofs`, for any callers, threads and calls: `TypeCorrect`, `JobKept`
and `FrameKept`.  The types alone are not inductive: that a created thread has a
number needs `Room` (the threads, and the calls about to create one, are at most
`MaxThreads`).  `Core` ties threads to callers: a waiting caller's function is
with the thread it chose until it has run, a thread has no second function while
it serves one (`WorkerOK`, `Link`), and a thread that is free or chosen has none
and is chosen once (`OfferOK`, `FreeOnce`).

`IOProofs` is about `Net` and about `Pipe`, whose definitions carry names that do
not meet.  `Net`, for any coroutines, descriptors and calls: `OneHolderHolds` and
`RightFileHolds`.  `Inv` has a part per coroutine (`ActorOK`: its request acts on a
handle of its own, and has made a descriptor only if it completed so) and a part
per descriptor (`Held`).  A step of one coroutine leaves the others' part alone
(`LocalStep`), so each action has only to show which descriptors its coroutine
keeps, gains or gives up; the kernel's steps are the only ones to open and close.
`TypeCorrect` adds that listening descriptors are open (`Listen`: a number that
the kernel gives anew does not listen yet) and that a coroutine has a request
while it is in a call and only then (`TokensOK`); that the links of the callbacks
stay in the list follows from the shapes of its operations (`ListOps`, `GuardsKept`).

`Pipe`, for any sizes of the buffers, the queue and the socket, any number of
bytes, any ends of lines, calls, failures and cancellations, any first value of
`mOutIndex`, and each of the four media: `PipeIsStream`, two buffered streams implement `ByteStream`, and
`PipeTypeCorrect`.  The bytes are numbered as they are written, so a sequence of
bytes in order and without a gap is an interval (`Runs`), and `StreamInv` says
which interval lies where:

| bytes after | up to | are |
|---|---|---|
| 0 | `taken` | consumed by reads that are over |
| `taken` | `Consumed` | gathered by the current read |
| `Consumed` | `Arrived` | in the reader's buffer |
| `Arrived` | `Given` | in the reader's chunk and the queue, or on the wire |
| `Passed` (at most `Given`) | `Len(sent)` | in the writer's buffer |

* `InBuffer`, `ReadCall`: what the current read has gathered is the interval after
  `taken`, with no end of line in it if it looks for one, and the reader's buffer
  holds the next.  So what a turn finds or takes is what `ByteStream` gives.
* `OutBuffer`, `WriteCall`: the writer's buffer ends with the last byte written,
  and what is left of a `puts` begins behind it.  A socket's `raw_write` may have
  sent a part: `Given` is then past `Passed`.
* `Between`, `Chain`: over a pipe the intervals of the chunk the reader has taken
  and of the occupied slots of the ring, in order and around the seam, join the
  two; there are marks `b` such that slot `i` holds the bytes after `b[i]` up to
  the mark of the slot that follows.  A chunk is empty only if the stream is
  closed and nothing follows, which is why an end of file, whoever finds it, comes
  last.
* `ReadPlace`, `WritePlace`, `EndState`: in which call of the queue each coroutine
  is, what it pushes, and what has been ended.  The writer pushes all of
  `Unflushed` and clears its buffer only when the push is done: between the two
  the bytes are in the queue and in the buffer, and `Given` counts them once
  (`Stored`).
* `Notified`: the count of notifications stays in its type.  Each chunk is
  announced at most when it is put and when it is taken, holds a byte or is one of
  the two ends (`Ends`), and at most `MaxBytes` bytes are given.

Neither theorem is inductive without the other parts: that `StreamInv` holds was
checked by TLC on the run's instance before it was proved (its first form, where a
notification of the empty chunk was counted too early, was not inductive).
The other steps are those in the queue (`PlaceStep`, `StoreStep`, `TakeItemStep`,
`NotifyStep`): on two threads they fall between any of the two streams' own steps.
An undefined step ends a behaviour, and of what it leaves only the types are
claimed (`StreamSafe`, `SeamStep`).
The window in which a notification is missed leaves bytes in the queue, never out
of order; that nobody waits for ever on one thread is `AllDelivered`, which is
liveness and stays with TLC.

`RaceProofs`, for any number of tasks and operations and any kinds of operation:

* `CallbacksAlive`: `CalledAlive`, inductive with `Control`, the place of every
  coroutine: the stack of nested resumptions holds each once, `mCount` is the
  number of tasks that have not ended, and only the winner calls and waits for
  callbacks.  The list of cancellers is proved link by link: a walk around a ring
  visits each member once (`WalkVisits`, `WalkEnds`), `pushFront` and `unlink`
  take a ring to a ring (`PushRing`, `UnlinkRing`), so what a callback unlinks
  while others are still to be called is never one of those (`Injective(todo)`).
* `Implementation`: `Race` implements `ForkJoin`.  The caller is resumed by
  whoever makes the count zero, and then every task has ended and the result is
  the winner's, who was the first to end.

`QueueProofs`, for any coroutines, capacity, calls and cancellations:

* `Implements`: `Queue` implements `Channel`, whose place `Capacity` may give another
  value: what is in the array comes out as it went in, once and in its turn, and the
  slot past it does not disturb that.  `RingHolds` is inductive with
  the types of the values: the slot `k` places after `mRead`, around the seam,
  holds the value sent `k` after the last one received, and `mWrite` is as many
  places after `mRead` as values are under way.  Different places are different
  slots (`Places`), so a push does not touch a value that is still to be received.
* `NobodyStranded`: `NoStranded`.  Three strengthenings are
  needed.  `WaitersOK`: a suspended coroutine has one request, in the ring, asleep
  or ended, and the ring is in order, so that a wake-up finds every wait it meets
  with an older count.  `Stale`: a waiter that read the present count saw the
  queue as it still is, full or empty.  `Sides`: while somebody of a side
  sleeps, there are as many wake-ups in the ring and coroutines about to look as
  there are values (or free slots); if some only try, and so notify only at the
  edge, a side has a single sleeper and one wake-up is enough.  The kernel's
  delivery of a wake-up turns it into a coroutine about to look.  The proof counts
  requests, so the model assumes finitely many coroutines (`QueueAssumption`).

`TasksProofs`, for any number of frames and any cancel tokens, whatever the bodies
do, throwing generators and bound tasks included:

* `TypeCorrect` and `OneOwnerHolds` (`TypeOK`, `OneOwner`), from one invariant.  A
  frame that awaits another and the awaited one point at each other, the awaited
  one is owned by the awaiting one, and it has spoken exactly when the awaiting one
  has control again (`Answers`); every frame in progress is awaited (`CalleeOK`);
  each frame is in at most one task variable and then alive (`Held`); those inside
  a `resume()` are distinct, run and await nothing (`ResumerOK`).  Destruction is
  the difficulty.  What is in the variables of whoever runs is loose: nobody awaits
  it and it is not in progress (`LooseTasks`); loose frames own loose frames, so
  the least closed set around what is destroyed stays among them (`Closure`,
  `Fall`), nothing that is executing or awaited falls, and the frames left keep
  their owner (`DestroyHeld`).
* `ControlKept` and `TokenKept` (`NotLost`, `OneToken`).  The chain of calls under a
  frame is a recursive function, and all that its definition says of it is kept as
  a property of functions (`Chains`).  `Nested` is what makes it more than a name:
  one such function exists and its chains are bounded, so calls never go around and
  the chain is unique (`ChainUnique`).  A `co_await` lengthens the chains that end
  in the caller by one (`Link`), its return shortens them again (`Unlink`).  What a
  frame inherits from its callee, or from its caller, then holds of all frames, by
  the shortest or the longest chain that would break it (`Downward`, `Upward`):
  the token (`Passed`), and being in a spawned task's chain (`Rooted`).  The end of
  a chain is the only call in it that can run, and it does, waits in the event loop
  or is inside a `resume()` (`Placed`).
* `Implements`, if no generator throws (`GenThrows`; with it TLC finds the exception
  that its caller never gets): `Tasks` implements `CallStacks`.  The stack of a
  spawned task is its starter's chain.  No call is in two of them (`OneRoot`), so a
  `co_await` pushes on the one stack that ends in the caller, and an `await_resume`
  pops it (`AwaitIsCall`, `ResumeIsReturn`).  `Said` says where a result is between
  the two: something was said and not yet taken exactly while the awaiting frame
  has control again, and then the awaiter holds it.  It gives what the caller gets,
  that only the top of a stack speaks, and that a call that is over and still on a
  stack has spoken (`OverSaid`).

Only model-checked:

* every liveness property (`Resumed`, `EveryLockEnds`, `RunEnds`, `CancelledEnds`,
  `Returns`, `Served`, `AllDelivered`, `CallsEnd`, `AllRead`): fairness and ENABLED
  are out of the prover's reach;
* `Semaphore`, where TLC finds the counterexample.

Neither proved nor checked: that the loop of `fixViolation` ends.  `TimerTree`
states safety only.  Each `Fix` goes on from the grandparent or from the node it
puts in the grandparent's place, so it climbs.

## 6. Not modelled, and the plan

Memory order is not modelled: the models interleave atomic accesses.  Results,
formatting and the kernel's error codes are left out except where control depends
on them.

* Event loop: registered buffers and files, setup and thread affinity.
* `IOContextMT` constructs all its contexts on one thread, where the second
  constructor throws; there is nothing to explore behind that.
* Streams: single characters, `getspan`, peeks, `read` and `write` past the
  buffers, `getline` into a view, `seek`, files (`bufempty` compares the wrong index,
  `stream_base.hpp:457`), and `pipe_forward`, which loses what it has read when its
  write fails.
* Files: what is read or written, `fs_getdents`, `fs_cancel_fd`, `fs_nop`; socket
  addresses and options; URI parsing, pure functions on characters.
* Queues: `try_pop` of `ConcurrentQueue`, `InfinityQueue`; condition variable: the
  forms without a mask.  Semaphore: cancelled waits, and a weak exchange that fails
  by itself.
* Races: sources chained to a parent, exceptions, the vector form, `co_forever`.
* Tasks: what `Expected` and its combinators compute; `and_then` and `just`, which
  are tasks like others.
* HTTP and websocket stubs, reflection, debugging, profiling, allocators.

Planned, in order:

1. `Race`: sources chained to a parent and exceptions.
2. The rest of the stream operations over `BufferedStream`.
