# coro_net in TLA+

`coro_net` is a C++20 coroutine network library on io_uring: one event loop
(`Scheduler`) per worker thread, coroutines that suspend into the loop, a timer
queue per loop, a thread pool for CPU work, an asynchronous logger, and on top of
these a TCP server with idle-connection eviction.  This directory holds TLA+
models of its parts, the TLC configurations that check them, and TLAPS proofs.

    tlc -workers 2 -config Scheduler_safety.cfg MCScheduler    # one run
    tlapm SchedulerProofs.tla                                  # proofs

`PROJECT.json` lists every run, what each definition stands for in the source,
the hazards the properties are for, and the disagreements found.

## 1. The system

| part | state | operations | talks to |
|---|---|---|---|
| **Scheduler** (`scheduler.cc`, `io_operation.cc`, `io_uring.h`) | `ready_`, `cross_` (mutex), `stopping_`, ring (SQ, CQ, operations in the kernel), eventfd and its posted read | `run`, `post`, `post_task`, `queue_boot_task`, `spawn`, `stop` | every part: resumes coroutines, runs tasks and callbacks |
| **I/O awaiters** (`ops/*.hpp`) | handle, result | `await_suspend`: get an SQE, fill it in | ring of the scheduler |
| **Task, FireAndForget** | coroutine frame, continuation | start, suspend, resume, end | scheduler, each other |
| **TimerQueue** (`timer_queue.cc`) | `timers_`, `active_`, timerfd, `canceling_seqs_`, posted read | `add`, `add_periodic`, `cancel`, `handle_expired` | a CQE of the scheduler calls it; it calls user callbacks |
| **CoroThreadPool** (`coro_thread_pool.cc`), **SubmitAwaiter** | job queue, `mu_`, `cv_`, `stopping_`, workers | `start`, `stop`, `enqueue`, `worker_loop` | a job ends by `post`ing its coroutine back to its scheduler |
| **AsyncLogger** (`async_logger.cc`) | `current_`, `next_`, `buffers_`, flags, backend thread with two spare buffers | `init`, `append`, `shutdown`, `flush_and_stop` | called from every thread; writes LogFile |
| **LogFile** (`log_file.cc`) | open file, bytes written, roll times | `append`, `flush`, `roll_file` | AsyncLogger's backend |
| **SchedulerPool** | schedulers, threads, round-robin index | `start`, `stop_all`, `wait`, `next` | schedulers |
| **TcpServer**, **TcpConnection** | listen fds, `running_`, connection fds, buffer slots | `start`, `stop`, `wait`; `recv`, `send`, `shutdown` | scheduler pool, idle wheel |
| **Idle wheel** | ring of buckets of shared entries | `register_conn`, `refresh`, tick | TcpConnection, scheduler |
| **RegisteredBufferPool**, **Buffer**, **CircularBuffer** | free slots; reader and writer index | acquire, release; append, retrieve | TcpConnection |

Hard behaviours:

* *Wakeups.* A post is a push under a lock and then a write to the eventfd; the
  loop drains, works, and blocks.  Every order of these steps must end with the
  loop looking at the queue.
* *Handles.* A suspended coroutine is a bare pointer that travels through the SQ,
  the kernel, the CQ, `ready_`, `cross_` or a pool thread.  Held twice it is
  resumed twice, possibly after its frame is gone; held nowhere it is lost.
* *Stopping.* A stop may come before, during or after the loop, from inside and
  outside; the pool's and the logger's stops race with their workers.
* *Limits.* The SQ may be full, the CQE batch is 64, the log backlog 25 buffers.
* *User code in the middle.* Timer callbacks add and cancel timers while
  `handle_expired` is half done; coroutines spawn, stop and post.
* *Time.* A timerfd set late, set in the past, or reset while it is readable.

## 2. Modules

| module | models | remark |
|---|---|---|
| `Executor` | what a scheduler promises: one coroutine at a time, one resume per wakeup | abstract specification |
| `Scheduler` | the event loop, its ring, other threads and the kernel | implements `Executor` |
| `SchedulerProofs` | no lost wakeup, ownership of handles, the size of the SQ, the refinement of `Executor` | TLAPS |
| `TimerQueue` | timers over one timerfd | |
| `TimerQueueProofs` | armed timerfd, ownership of timers, cancels | TLAPS |
| `CoroThreadPool` | the job queue with mutex and condition variable | |
| `CoroSubmit` | `SubmitAwaiter`: coroutines of several schedulers submitting to the pool, and the end of loops, pool and schedulers | extends `CoroThreadPool` |
| `CoroSubmitProofs` | jobs, wakeups and stop of the pool; awaiters and posts of submits | TLAPS |
| `Task` | frames of `Task` and `FireAndForget` coroutines, who owns them, who waits for whom, and the C++ stack | |
| `TaskProofs` | handles, waits, frames and the stack | TLAPS |
| `TcpServer` | start, stop, wait and destruction of a server with its `SchedulerPool`, SQPOLL groups and listen sockets | all workers, seen from outside |
| `TcpServerProofs` | pollers, listen sockets, stops that reach every worker, order of destruction | TLAPS |
| `TcpWorker` | one worker of a TcpServer: accept loop, connections, idle wheel, buffer pool, and the stop of the server | |
| `TcpWorkerProofs` | descriptors and slots, operations in the kernel, eviction | TLAPS |
| `AsyncLogger` | front end, backend thread, start and stop | |
| `AsyncLoggerProofs` | lines through the buffers, spare buffers, stops | TLAPS |
| `LogSink` | what the logger's backend may expect of its file: lines are kept in order, what is durable stays so, a flush leaves nothing behind; a faulty file system loses lines that are not durable, a healthy one none | abstract specification |
| `LogFile` | rolling log files with their names and stdio buffer, on a file system that may fail | implements `LogSink` |
| `LogFileProofs` | names, sizes, the periodic check, the refinement of `LogSink` | TLAPS |
| `MC*` | symmetry sets for TLC | |

Operators named `X_Something` beside an operator `X` are deliberate mutations of
`X` (a dropped wake, a missing reset, an off-by-one): each shows that a property
notices that bug.  They are not part of any specification.

### Scheduler

`pc` is the loop thread's position in `run()`: `top` (while test), `drain`,
`tasks` (running `t_tmp`), `ready` (the inner loop), `check` (second test of
`stopping_`), `submit`, `wait` (blocked in `submit_and_wait`), `cqe` (the loop over
peeked CQEs), `body` (a coroutine or timer callback is executing; `stack` holds who,
innermost first, and `caller` the phase it returns to).  `exited`, `failed` (the
exception of line 226) and `crashed` (a null SQE) are final, except that `run()`
may be entered again after `exited`.

The ring is `sq` (filled in), `inflight` (with the kernel), `cq`; operations are
named by the coroutine they belong to, plus the two watcher reads and the NOP of
`stop()`.  `cqBatch` and `cqDone` are `n` and `i` of the CQE loop; the CQEs stay in
`cq` until `CqAdvance`, while the kernel appends.  `dropped` is a history variable: the
operations for which a caller of `get_sqe()` that copes with null found the queue full.

Other threads take `Post`, `PostTask`, `StopRemote` and, as a separate later step,
`WakeRemote` (the write to the eventfd): `wakePc` tells who is in between.  What a
coroutine does between suspension points is any sequence of `Spawn`, `PostHere`,
`BodyStop`, ended by `AwaitIo`, `AwaitThread` or `Finish`.  Data transferred, results
and error codes of I/O are left out: the loop treats them alike.

`submit_and_wait` may return with completions, with `-EINTR` and no completions, or
with an error.  SQPOLL changes when the kernel takes SQEs, not what the loop sees,
and is not distinguished.  CQ overflow is left to the kernel (it keeps overflowed
CQEs).

### TimerQueue

One action per operation; `handle_expired` is `HandleExpired` (pop what is due),
one `Callback` per timer, and `HandleDone`, since callbacks call `add` and `cancel`.
Time is a counter that `Tick` advances between any two steps, so the loop may be
arbitrarily late.  The timerfd is `armedAt` and `ticks`; `timerfd_settime` forgets an
unread expiration, as the kernel does.  `rd` follows the watcher's read: with the
kernel, completed, failed, being handled, or lost to a full SQ.  `heap` is the set of
allocated `Timer` objects.  Ties of `std::set` are broken by pointer value in the
code and in any way in the model.  Clock readings within one handler are the same.

### CoroThreadPool

`cv_.wait(lk, pred)` is three steps: test under `mu_`, decide to sleep, join the wait
set and release `mu_`.  `stop()` is store, `notify_all`, join, and takes no lock.
Spurious wakeups are possible.  `enqueued` is a history variable, the jobs ever enqueued:
`JobHeldOnce` says where each of them is.

### CoroSubmit

The pool's workers run jobs that come from `AwaitSubmit`: `Compute` (call the function,
store its value or exception in the awaiter) and `PostBack` (post the handle, after which
the awaiter may be gone).  A client is a scheduler: `loop` is running, ended or destroyed,
and it resumes what was posted to it while it runs.  `co` follows the coroutine of each
job.  Loops may end at any time, but schedulers are destroyed only while the pool is not
started, and it is not started again afterwards.  How the post reaches
the loop is `Scheduler`'s business (`NoLostWakeup`).

### Task

A frame is free, not begun (`start`), running, waiting for another Task, suspended in I/O,
or at its final suspension point.  `stack` is the C++ stack of coroutines, `pending` the
handles that the loop will resume; `cont` is `continuation_`, `owner` the coroutine (or
the code outside any) that holds the Task object.  `AwaitSuspend` and `Finish` are the
symmetric transfers: the top of the stack is replaced, not pushed on.  `Spawn` is
`spawn_shim`: it creates the shim, moves the Task into it, and runs both at once, nested in
the caller.  A body may return, throw, catch, drop a Task it holds or spawn it, in any
order.  A Task that is begun outside a coroutine is resumed through `handle()`, as
`sync_wait` of the tests does; code outside coroutines destroys such a Task only before it
began or after it ended (the type does not prevent the rest).

### TcpServer

`pc` has the owner's and another thread's position; the other may call `stop()` at any
time before destruction begins.  `StartBegin`, `BuildPool`, one `Listen` per worker and
`Launch` are `start()`, and any of them may throw; `StopBegin`, `StopShutdown`, `StopPost`
are `stop()`.  The ring of each worker is built by `Granted`, the constructor's sequence of
fallbacks under whatever the kernel refuses.  A worker enters `run()`, which clears
`stopping_`, and leaves it when a posted task or a later `stop()` says so.  `threw` (start()
threw) and `missed` (a stop() found no pool, because start() was still building it) are
history variables.

### TcpWorker

A worker is one thread, so everything between two suspensions is one step; the kernel's
accept (which opens a descriptor) and shutdown (which acts on whatever socket the
descriptor names then) are steps of their own, and `stop()` is three steps of the owner.
A frame that awaits an operation holds its connection: `handler` and `evictor` are the
two frames that can, and `DropReference` is the end of a `shared_ptr`.  `ops` are the
submitted operations with the descriptor and slot they were given.  The wheel is the
ring as the code has it (`buffer_`, `tail_`; it is always full); an `IdleEntry` lives
while a bucket holds it.  Seconds are counted in ticks: a tick comes at least a second
after the last, so eviction on the `IdleSeconds`-th tick is eviction after more than
`IdleSeconds - 1` seconds of silence, one less than the configured number.
Handlers are user code; the model's do what those in the headers, tests and examples do:
await their socket, or (`submit`) a job of the pool or a timer, which is over whenever it
likes and meanwhile keeps the connection alive.  What a job or a timer does in between is
the business of `CoroSubmit` and `TimerQueue`.

### AsyncLogger

A critical section is one step.  A buffer is the sequence of its lines.  The wait of
the backend has a timeout and no predicate, so it may end at any time, and
notifications add nothing.  With `Racy = FALSE` threads log and stop at different
times (a program that stops the logger when its other threads are done); with
`Racy = TRUE` at any time.  The file is `LogSink`'s on a healthy file system: what is
written is taken, and a flush makes it durable.  Lines that a failing write loses are lost
in `LogFile`, without the logger's notice.

### LogFile

`disk` is the sequence of files, each the sequence of the lines that left stdio's buffer;
`buffer` holds the rest of the open one.  A name is the second and the sequence number,
which is all that distinguishes two names of one process.  The clock advances or is set
back between operations; an append reads it once (the code reads it up to twice within
one call).  Opening may fail, which leaves a file that swallows what is written to it: such
lines are never taken.  While the file system is `faulty` (full, say; `Fault` turns it on
and off) any write may fail, in `fwrite`, `fflush` or `fclose`: some lines of the buffer
reach the file (`Written`), the rest is dropped by the C library, and LogFile, which looks
only at `fwrite`'s result, goes on.  The fragment of a line that such a write may leave in the
file is left out.

## 3. Runs

| run | shows | bounds |
|---|---|---|
| `scheduler_safety` | `TypeOK`, `NoLostWakeup`, `HandleOwnedOnce`, `SqNeverFull`; `Scheduler` implements `Executor` | 2 coroutines, 2 threads, 4 SQEs (just `SqDemand`), batches of 2; failing ring and local posts included |
| `scheduler_liveness` | posted handles are resumed, posted tasks run, a stop ends the loop | 1 coroutine, 2 threads; no local posts, no ring failure |
| `scheduler_lost_stop` | *violation*: a stop before `run()` is lost | |
| `timer_queue` | `NoLostTimer`, `TimerOwnedOnce`, `NoTimerForgotten`, `CancelledNotCalled`; a due timer is called or cancelled | 3 timers, clock to 2, delays 0 to 2, watcher may be dropped |
| `submit` | `JobHeldOnce`, `NoForgottenJob`, `AwaiterAlive`, `PostsToLive`; submits are answered, a stop that returns has drained | 2 workers, 2 schedulers, 2 jobs, 2 starts |
| `pool_stop` | *violation*: `stop()` may never return | |
| `tcp_worker` | `ResourcesOwnedOnce`, `OpsOnOwnSocket`, `NoEarlyEviction`, `IdleIsEvicted` | 2 connections, 2 descriptors, 1 slot, 3 buckets |
| `task` | `HandlesLive`, `AwaitersServed`, `FramesFreed`, `StackFlat` | 6 frames |
| `server` | `PollersShared`, `SocketsClosed`, `EveryWorkerTold`, `OutlivesWorkers`; a stop ends the workers, the destructor returns | every server of up to 4 workers and 3 pollers, 2 cores |
| `log_file` | names, sizes and the periodic check; `LogFile` implements `LogSink` | 4 lines of 0 to 2 bytes, files of 1 byte, days of 3 seconds, a check every 2 appends, clock to 4 and set back at any time, writes failing at any time |
| `logger` | `NoLineLost`, `SparesAtTop`, `StopFlushes`; a line reaches the disk | 2 threads, 4 lines, 1 line per buffer, backlog 2, 2 starts |
| `logger_race` | *violation*: `append` during the final flush dereferences null | |

Bounds.  Two coroutines suffice for a handle to be duplicated, overtaken or
nested in a spawn; two posting threads give every order of two pushes, two writes and
a drain.  A CQE batch smaller than the CQ makes leftovers appear.  Three timers give a batch with a sibling to cancel and one
outside it; with two clock ticks a timer is due on time, late, or already past when it
is added.  Two workers and two clients give every notify that hits the wrong sleeper, and two
starts a pool that is used again while coroutines of the first life still wait.
Six frames hold a chain of three Tasks under a shim beside another coroutine.  Four
workers and three pollers include the cases that do not divide.
Two connections with two descriptors and one slot make a descriptor and a
slot change hands while the other connection is busy or being evicted; three buckets
are the least in which a bucket is neither newest nor oldest.
With one line per buffer every append after the first swaps buffers, and a backlog of
2 is exceeded.

The type invariants of `Scheduler` and `TimerQueue` are checked and proved on
their own; in the other modules `TypeOK` is the first conjunct of a safety invariant.  A
second `run()` of a scheduler is covered by the proofs, which fix no number of runs; the
runs enter the loop once.

`CHECK_DEADLOCK FALSE` everywhere: a loop blocked with nothing to do, a pool that
was stopped and a logger without threads are legitimate ends.  What must not stop is
stated as a liveness property.

Fairness.  The loop thread, the posting threads, the pool's workers and the logger's
backend are OS threads that get scheduled (weak fairness of their next step).  The
kernel completes a read of a readable eventfd or timerfd (for the timerfd strong
fairness, since the read may also fail and be posted again; a readable timerfd is not
failed for ever).  `wait_for` of the logger times out.  Nothing is assumed of peers:
socket operations and timeouts may never complete.  Mutexes need no fairness beyond
the threads' own in these runs.

`SqNeverFull` is conditional: it says how many entries are enough.  With one per coroutine
and two per `run()` no watcher and no awaiter is refused; the NOP that `stop()` adds on the
loop thread may then still find the queue full, which the code copes with; one entry more,
and nobody is refused.  The run has a queue of just the first size; the theorem covers both.

What some properties do not say.  `DueTimerRuns` speaks of a periodic timer's first deadline
only (it has then been called once; `NoLostTimer` covers the later ones).  `HandleOwnedOnce`
covers the handles that a failing `submit_and_wait` leaves behind, not `tls_current_`, which
that exception leaves set and which is not modelled.  `OutlivesWorkers` exempts the wheels
of a server that is destroyed after a `stop()` nobody waited for: the code destroys them
under running workers, and only the order of pool, schedulers and threads is claimed.

## 4. What the violations mean

* **Lost stop.** `Scheduler::run` stores `false` into `stopping_` on entry.
  `start(); stop_all(); wait();` on a `SchedulerPool` can therefore hang: the stop of
  a worker that has not reached line 199 is erased.  `TcpServer::stop` posts a task
  that calls `stop()` on the loop thread and is safe (`StopEndsLoop`, `StopTask`).
* **Pool stop.** `stop()` sets the flag without `mu_`: a classic lost notification.
  Setting it under the lock removes the counterexample.
* **Logger.** `started_` stays true while the backend's final flush empties
  `current_`; an `append` in that window dereferences null.

Seen while modelling; the models have these behaviours and the properties make room for
them, but no run is about them:

* `io_uring.h:150` asks callers of `get_sqe()` to handle `nullptr`; the awaiters do not
  (`AwaitIo` then ends in `crashed`), and the watchers' answer is to skip the rearm, after
  which the eventfd or timerfd is never read again.
* The comment in `~IdleEntry` relies on being called from `tick_coro`; the destructor of
  the server also ends entries, on its own thread, after the loop is gone.
* Any accept error, `EMFILE` included, ends a worker's accept loop for good while its
  listen socket stays open (`AcceptEnds`).
* `scheduler.hpp:135` says that `spawn` queues the Task for the next round; it runs it at
  once, nested in the caller (`Spawn` in `Scheduler` and `Task`).
* A `stop()` while `start()` is still building the server (a signal handler installed
  before `start()`, as in the example) finds no pool to post to: the workers then start
  and, with `running_` already cleared, nothing stops them (`missed` in
  `EveryWorkerTold` and `StopEnds`).
* A `start()` that throws leaves zeros in `listen_fds_`; `stop()` and the destructor take
  them for sockets, and shut down and close descriptor 0, whatever it is.  That is a defect;
  the models keep account of the listen sockets only, and no property states it.
* `fflush` and `fclose` report a failed write that nobody looks at (`log_file.cc:25`, `:49`):
  on a full disk log lines that `append()` took are lost without notice (`Flushes`).
* `ceil(n/M)` can give fewer than `M` pollers (4 workers, 3 asked for: 2), where
  `scheduler_pool.hpp:38` promises `M`; hence `<=` in `PollersShared`.
* `log_file.cc:106` says names are made unique; after the clock was set back they may
  repeat, and the two files become one (`NameReuseNeedsSetBack`).

## 5. Proofs

Every safety property that a passing run checks is proved, action properties and both
refinements included: for every value of the constants that the assumptions named below
allow, and for the same definitions that TLC runs.  Each proof has the same shape: an
inductive invariant (`Inv`, `PoolInv`, `BufferInv`, ...) whose parts are named, one lemma or
step per action, and a last temporal step.  The invariants were checked with TLC
before they were proved.

Assumptions.  The `ASSUME`s of the modules fix the types of the constants, keep model
values apart (a coroutine is not a watcher, `Nobody` is no worker, client or job, `Null` is no
line and no buffer), and exclude what the code excludes (no pool without workers, a
backlog of at least the two buffers that are kept, a wheel of at least one
bucket).  Sets of threads, connections, frames, lines and jobs may be infinite.  Some
theorems have a hypothesis of their own: `RingSuffices` takes finitely many coroutines (it
counts them), and `LinesKept`, `StopsFlush` and `AppendSafeWithoutRaces` take `~Racy`, the
discipline under which the run `logger` checks them and without which the run `logger_race`
refutes the last.

**Scheduler** (`ConstantsAssumption`; any ring size, batch size and number of runs).

* `TypeCorrect`, `WakeupNeverLost`.  `NoLostWakeup` speaks of the blocked loop only and is
  not inductive.  `Inv` adds: `WakeArmed` (inside the loop the eventfd read is in the SQ,
  with the kernel, or completed and not yet handled, unless its rearm found the SQ full);
  `SignalInv` (work in the cross queue after the drain, or a stop after the last check, is
  announced by a thread about to write, a set eventfd, or a wake CQE); `LocalInv` (ready
  handles and tasks are finished before the loop blocks); `SubmittedInv` (a blocked loop has
  submitted its SQ); and `BodyInv` (a timer callback runs while its own CQE is being
  handled).  When the CQ is empty, `SignalInv` and `WakeArmed` leave only the two cases of
  `NoLostWakeup`.
* `HandlesOwnedOnce`.  `HandleInv` counts, per coroutine, the queue entries that ask for its
  start, that make it runnable, that wait, and that run; `HandleStep` says that any step
  moves one handle from one class to another, or none, and is proved action by action from
  lemmas on counting in sequences (`CountConcat`, `CountPop`, `TodoNext`, ...).
* `PromiseKept`.  The status of a coroutine in `Executor` is read off from where its
  handle is; since a step moves one handle, it is one step of `Executor` or a stutter.
* `RingSuffices`.  `ReadInv`: the read of a watcher is prepared, in the kernel or
  completed and not handled at most `runs` times, and a NOP never waits in the SQ.  With
  `HandleInv` (at most one SQE per coroutine, none for one that runs) this bounds `SqLen`,
  which `SqLenBound` shows to be the sum it stands for: below `SqDemand` when a watcher or
  an awaiter asks for an entry, and at most `SqDemand` when `stop()` does.

**TimerQueue** (`TimerAssumption`).  `TypeCorrect`, `TimerNeverLost`, `TimerOwnership`:
these properties with one remark (nothing is queued before the watcher starts) are
inductive; the core is `RearmCovers`: setting the timerfd for the earliest timer covers all
of them, including when its deadline has passed and the delay is clamped.
`NoTimerLeftOut`, `CancelIsFinal`: `CallInv` relates cancelled timers to the queue, the
batch and `canceling_seqs_`.

**CoroThreadPool and CoroSubmit** (`PoolAssumption`).  `JobsHeldOnce`, `JobsNotForgotten`,
`StopHasDrained`: `HeldInv` and `KeptInv` are `JobHeldOnce` place by place (at most one,
and one for every job that was enqueued); `SleepInv` adds to
`NoForgottenJob` that a worker about to sleep saw an empty queue and has held `mu_` since;
`OwedInv` that once a worker has left, the jobs `stop()` owes are running or done.  These are
proved of the pool with arbitrary clients; `SubmitImplementsPool` shows that submitting
coroutines are such clients, so that they hold there too (`SubmitKeepsPool`).
`AwaitersAlive`, `PostsReachTheLiving`: with one more conjunct, that a scheduler goes only
when the pool has stopped for good.

**Task** (`TaskAssumption`).  `NoHandleDangles`, `StackStaysFlat`, `NoVainWait`,
`NoFrameLeaks`: the frames form a forest (`Forest`): a Task that has begun is owned by the
frame that awaits it, which cannot act until the Task has ended; this is why no frame is
freed under a handle.  `AwaitersServed` quantifies over sets of waiting frames, so it is
inductive without a notion of a path, and gives the absence of rings.

**TcpServer** (`ServerAssumption`).  `FewPollersOwnCores`, `NoSocketLeft`,
`WorkersTold`, `WorkersOutlived`, from `BuildInv`, `LifeInv`, `CloseInv`
(where a server under construction or destruction can be, and what it then owns), `TellInv`
(a `stop()` that is through has posted to every worker there is or will be, unless it came
before there was a pool) and
`RingInv` (the rings are what the constructor granted); the number of pollers is the
arithmetic of `ceil(n/M)`.

**TcpWorker** (`WorkerAssumption`).  `ResourcesHaveOneOwner`, `KernelUsesOwnSocket`: every
descriptor and slot has one owner (`FdInv`, `SlotInv`), a connection lives exactly while
a coroutine holds it (`ConnInv`), and an operation belongs to the coroutine that awaits it
(`OpInv`).  `IdleEvicted`, `NeverEvictedEarly`: `WheelInv` ties the age of an entry's newest
bucket, computed from the ring's indices, to the silence of its connection.

**AsyncLogger** (`LoggerAssumption`, `NullAssumption`).  `DoubleBuffering`: if `next_` was
used up, a full buffer was queued, and both come back as spares (`SpareInv`).
`LinesKept`, `StopsFlush`: every step leaves the lines of `Pipeline` as they are, appends
the one that is accepted, or cuts out the ones it drops; `LifeInv` and `EmptyInv` say that
threads log only while the backend loops and that an ended backend has left nothing behind.
`BuffersInvariant` states the invariant that needs no discipline.

**LogFile** (`LogFileAssumption`).  `NamesApart`: while the clock is not set back names
grow.  `SizeKept`, `UpkeepComes`: the overlooked appends never outnumber the count to the
next check.  `FilesAreASink`: the files in a row, with the stdio buffer, are the lines
the sink has taken; `WrittenLines` says that a write moves lines from the buffer behind
those on disk and no line past another, and `FlushesLines` that all of them arrive unless
the file system is faulty.

Operators of the community modules that are defined by recursion (`FlattenSeq`, the sum in
`SqLen`) are unfolded by hand: `LeastNatural` (a set of naturals has a least element) gives a
least counterexample, from which a shorter one is made.

Only model-checked: liveness (`PostedIsServed`, `StopEndsLoop`, `DueTimerRuns`, `Answered`,
`StopEnds`, `LineReachesDisk`), since fairness and `ENABLED` are out of the prover's
reach; and the three violations.

## 6. Plan

Built, in order of weight: `Scheduler` and `Executor`; `TimerQueue`; `CoroThreadPool`;
`AsyncLogger`; `TcpWorker`; `CoroSubmit`; `Task`; `TcpServer` with `SchedulerPool`;
`LogFile` and `LogSink`; the proofs of their safety properties.

Left to prove, beyond the properties of the runs: more of the safety facts that the liveness
properties rest on, as invariants of their own (`EveryWorkerTold` is one of `StopEnds`); and
`AsyncLogger` over `LogSink` in one specification, so that `NoLineLost` and `ImplementsSink`
compose.

## 7. Not modelled

* `Buffer` (index arithmetic over bytes, sequential, owned by one coroutine),
  `InetAddress`, and the text of log lines: no state that two steps could disagree about.
* The destructor of `Scheduler` beyond its order against pool workers, and what becomes of
  suspended frames when a loop has ended: the code leaves them, and the watchers' memory is
  freed before the ring that still has their reads is closed.
* Two stops of the logger that join its thread at once (undefined in C++).
* A server that is started a second time (its first listen descriptors leak), the round
  robin of `SchedulerPool::next`, `IdleConnectionWheel::stop` and `Task::release`, which
  nothing calls.
* Timers set from another thread: `run_after` then posts a task and returns an empty
  `TimerId`, so that a later cancel does nothing; needs `Scheduler` and `TimerQueue`
  composed.
* SQPOLL timing, CQ overflow, the examples, tests and benchmarks.
