------------------------------ MODULE Scheduler ------------------------------
(***************************************************************************)
(* One coro_net::Scheduler: the event loop of a worker thread, its         *)
(* io_uring, the queue other threads post into (cross_) and the eventfd    *)
(* that wakes the loop out of submit_and_wait.                             *)
(*                                                                         *)
(* The loop thread is modelled with the program counter pc; every other    *)
(* thread (pool workers, other schedulers, main) is an element of Threads. *)
(* A coroutine body is whatever code the user wrote: between two           *)
(* suspension points it may spawn, post, stop the loop, submit an I/O      *)
(* operation or hand its handle to another thread.  What an I/O operation  *)
(* transfers is left out; where its handle is at any time is not.          *)
(***************************************************************************)
EXTENDS Integers, Sequences, FiniteSetsExt

CONSTANTS
    Coros,        \* coroutine handles
    Threads,      \* threads other than the loop thread
    SqEntries,    \* size of the submission queue (SchedulerConfig::ring_entries)
    Batch,        \* kBatch: CQEs taken by one peek_batch_cqe
    MaxRuns,      \* bound: how often run() is entered
    RingMayFail,  \* whether submit_and_wait may return an error other than -EINTR
    LocalPosts    \* whether code on the loop thread posts to its own scheduler

Wake     == "wake"    \* the read of wake_fd_ posted by EventfdWatcher
TimerRd  == "timer"   \* the read of timerfd_ posted by TimerfdWatcher
Nop      == "nop"     \* the NOP of stop(), user_data = nullptr
StopTask == "stop"    \* a posted task that calls stop() (TcpServer::stop)

Ops   == Coros \cup {Wake, TimerRd, Nop}
Tasks == Coros \cup {StopTask}   \* task c spawns coroutine c

ASSUME ConstantsAssumption ==
    /\ Coros \cap {Wake, TimerRd, Nop, StopTask} = {}
    /\ SqEntries \in Nat \ {0}
    /\ Batch \in Nat \ {0}
    /\ MaxRuns \in Nat
    /\ RingMayFail \in BOOLEAN /\ LocalPosts \in BOOLEAN

VARIABLES
    pc,           \* where the loop thread is
    stopping,     \* stopping_
    crossHandles, \* cross_.handles, guarded by cross_.mu
    crossTasks,   \* cross_.tasks, guarded by cross_.mu
    tTmp,         \* t_tmp of drain_cross_queue, the tasks still to run
    ready,        \* ready_
    stack,        \* code running on the loop thread, innermost first
    caller,       \* the loop phase the running code returns to
    sq,           \* SQEs filled in and not yet submitted, per operation
    inflight,     \* operations the kernel has accepted and not completed
    cq,           \* the completion queue
    cqBatch,      \* n: how many CQEs this round peeked
    cqDone,       \* how many of those have been handled
    co,           \* life of each coroutine
    ext,          \* handles held by another thread (a pool worker, say)
    signalled,    \* the eventfd counter is not zero
    wakePc,       \* per thread: about to write the eventfd or not
    dropped,      \* history: operations skipped because get_sqe() returned null
    runs          \* how often run() was entered

ring  == <<sq, inflight, cq, cqBatch, cqDone>>
cross == <<crossHandles, crossTasks, wakePc>>
vars  == <<pc, stopping, crossHandles, crossTasks, tTmp, ready, stack, caller,
           sq, inflight, cq, cqBatch, cqDone, co, ext, signalled, wakePc,
           dropped, runs>>

Phases == {"tasks", "ready", "cqe"}
LoopPcs == {"top", "drain", "body", "check", "submit", "wait"} \cup Phases
Dead == {"exited", "failed", "crashed"}

ThreadTypeOK ==
    /\ pc \in LoopPcs \cup Dead \cup {"idle"}
    /\ stopping \in BOOLEAN
    /\ crossHandles \in Seq(Coros)
    /\ crossTasks \in Seq(Tasks)
    /\ tTmp \in Seq(Tasks)
    /\ ready \in Seq(Coros)
    /\ stack \in Seq(Coros \cup {TimerRd})
    /\ caller \in Phases
    /\ co \in [Coros -> {"new", "queued", "live", "done"}]
    /\ ext \in SUBSET Coros
    /\ wakePc \in [Threads -> {"idle", "write"}]
    /\ runs \in Nat

RingTypeOK ==
    /\ sq \in [Ops -> Nat]
    /\ inflight \in [Ops -> Nat]
    /\ cq \in Seq(Ops)
    /\ cqBatch \in 0 .. Len(cq)
    /\ cqDone \in 0 .. cqBatch
    /\ signalled \in BOOLEAN
    /\ dropped \in SUBSET {Wake, TimerRd, Nop}

\* In a batch of completions run() handles only CQEs that peek_batch_cqe returned,
\* and those are in the CQ.
TypeOK == ThreadTypeOK /\ RingTypeOK

Init ==
    /\ pc = "idle" /\ stopping = FALSE
    /\ crossHandles = <<>> /\ crossTasks = <<>> /\ tTmp = <<>> /\ ready = <<>>
    /\ stack = <<>> /\ caller = "ready"
    /\ sq = [o \in Ops |-> 0] /\ inflight = [o \in Ops |-> 0]
    /\ cq = <<>> /\ cqBatch = 0 /\ cqDone = 0
    /\ co = [c \in Coros |-> "new"] /\ ext = {}
    /\ signalled = FALSE /\ wakePc = [t \in Threads |-> "idle"]
    /\ dropped = {} /\ runs = 0

-----------------------------------------------------------------------------
(* The ring. *)

SqLen(s) == MapThenSumSet(LAMBDA o : s[o], Ops)

\* get_sqe returns nullptr when this is false.
HasSqe(s) == SqLen(s) < SqEntries

\* rearm of a watcher: "if (sqe) rearm(sqe)".
Rearm(s, o) == IF HasSqe(s) THEN [s EXCEPT ![o] = @ + 1] ELSE s

DroppedBy(s, o) == IF HasSqe(s) THEN {} ELSE {o}

Submitted == [o \in Ops |-> inflight[o] + sq[o]]

EmptySq == [o \in Ops |-> 0]

\* The kernel finishes operation o: its CQE joins the completion queue.
Complete(o) ==
    /\ inflight[o] > 0
    /\ inflight' = [inflight EXCEPT ![o] = @ - 1]
    /\ cq' = Append(cq, o)
    /\ UNCHANGED <<pc, stopping, crossHandles, crossTasks, tTmp, ready, stack,
                   caller, sq, cqBatch, cqDone, co, ext, wakePc, dropped, runs>>

KernelIo == \E o \in Ops \ {Wake} : Complete(o) /\ UNCHANGED signalled

\* The pending read of the eventfd completes once the counter is not zero,
\* and resets the counter.
KernelWake == signalled /\ Complete(Wake) /\ signalled' = FALSE

-----------------------------------------------------------------------------
(* Other threads: Scheduler::post, post_task, queue_boot_task and stop      *)
(* called with tls_current_ # this.  The push and the write to the eventfd  *)
(* are two steps: the lock is released in between.                          *)

Post(t, c) ==
    /\ wakePc[t] = "idle" /\ c \in ext
    /\ ext' = ext \ {c}
    /\ crossHandles' = Append(crossHandles, c)
    /\ wakePc' = [wakePc EXCEPT ![t] = "write"]
    /\ UNCHANGED <<pc, stopping, crossTasks, tTmp, ready, stack, caller, ring,
                   co, signalled, dropped, runs>>

\* A task not yet queued: a coroutine to spawn, or a stop task (one at a time).
Postable(k) == IF k = StopTask
               THEN \A i \in DOMAIN crossTasks : crossTasks[i] # StopTask
               ELSE co[k] = "new"

PushTask(k) ==
    /\ Postable(k)
    /\ crossTasks' = Append(crossTasks, k)
    /\ co' = [c \in Coros |-> IF c = k THEN "queued" ELSE co[c]]
    /\ UNCHANGED <<pc, stopping, crossHandles, tTmp, ready, stack, caller, ring,
                   ext, signalled, dropped, runs>>

PostTask_NoWake(t, k) ==
    /\ wakePc[t] = "idle"
    /\ PushTask(k)
    /\ UNCHANGED wakePc

PostTask(t, k) ==
    /\ wakePc[t] = "idle"
    /\ PushTask(k)
    /\ wakePc' = [wakePc EXCEPT ![t] = "write"]

\* Documented to be called before run(): no wake.
QueueBootTask(k) == pc = "idle" /\ PushTask(k) /\ UNCHANGED wakePc

\* wake_remote: the write to the eventfd.
WakeRemote(t) ==
    /\ wakePc[t] = "write"
    /\ wakePc' = [wakePc EXCEPT ![t] = "idle"]
    /\ signalled' = TRUE
    /\ UNCHANGED <<pc, stopping, crossHandles, crossTasks, tTmp, ready, stack,
                   caller, ring, co, ext, dropped, runs>>

StopRemote_NoWake(t) ==
    /\ wakePc[t] = "idle" /\ ~stopping
    /\ stopping' = TRUE
    /\ UNCHANGED <<pc, cross, tTmp, ready, stack, caller, ring, co, ext, signalled,
                   dropped, runs>>

\* stop(): only the caller that flips the flag wakes the loop.
StopRemote(t) ==
    /\ wakePc[t] = "idle" /\ ~stopping
    /\ stopping' = TRUE
    /\ wakePc' = [wakePc EXCEPT ![t] = "write"]
    /\ UNCHANGED <<pc, crossHandles, crossTasks, tTmp, ready, stack, caller,
                   ring, co, ext, signalled, dropped, runs>>

-----------------------------------------------------------------------------
(* The loop thread: run(). *)

\* Entry of run(): clear stopping_, post the eventfd read and the timerfd read.
Run ==
    /\ pc \in {"idle", "exited"} /\ runs < MaxRuns
    /\ runs' = runs + 1
    /\ stopping' = FALSE
    /\ LET armed == Rearm(sq, Wake)
       IN  /\ sq' = Rearm(armed, TimerRd)
           /\ dropped' = dropped \cup DroppedBy(sq, Wake) \cup DroppedBy(armed, TimerRd)
    /\ pc' = "top"
    /\ UNCHANGED <<crossHandles, crossTasks, tTmp, ready, stack, caller, inflight,
                   cq, cqBatch, cqDone, co, ext, signalled, wakePc>>

\* "while (!stopping_)"
LoopTop ==
    /\ pc = "top"
    /\ pc' = IF stopping THEN "exited" ELSE "drain"
    /\ UNCHANGED <<stopping, cross, tTmp, ready, stack, caller, ring, co, ext,
                   signalled, dropped, runs>>

DrainCrossQueue_Copy ==
    /\ pc = "drain"
    /\ ready' = ready \o crossHandles
    /\ tTmp' = crossTasks
    /\ crossTasks' = <<>>
    /\ pc' = "tasks"
    /\ UNCHANGED <<stopping, crossHandles, stack, caller, ring, co, ext, signalled,
                   wakePc, dropped, runs>>

\* drain_cross_queue up to the loop over t_tmp: both vectors are swapped out
\* under the lock, the handles go to ready_.  The test "!h.done()" made on the way
\* would always succeed: the handle of a coroutine that is done is nowhere
\* (HandleOwnedOnce).
DrainCrossQueue ==
    /\ pc = "drain"
    /\ ready' = ready \o crossHandles
    /\ tTmp' = crossTasks
    /\ crossHandles' = <<>> /\ crossTasks' = <<>>
    /\ pc' = "tasks"
    /\ UNCHANGED <<stopping, stack, caller, ring, co, ext, signalled, wakePc,
                   dropped, runs>>

\* Code starts to run on the loop thread and will return to phase ph.
Enter(code, ph) == stack' = <<code>> /\ caller' = ph /\ pc' = "body"

StopHere_NoSubmit ==
    IF stopping
    THEN UNCHANGED <<stopping, sq, inflight, dropped>>
    ELSE /\ stopping' = TRUE
         /\ dropped' = dropped \cup DroppedBy(sq, Nop)
         /\ sq' = Rearm(sq, Nop)
         /\ UNCHANGED inflight

\* stop() called on the loop thread: the NOP also submits what is in the SQ.  If
\* get_sqe() returns null there is no NOP and nothing is submitted: the loop sees
\* the flag at its next test all the same.
StopHere ==
    IF stopping
    THEN UNCHANGED <<stopping, sq, inflight, dropped>>
    ELSE /\ stopping' = TRUE
         /\ dropped' = dropped \cup DroppedBy(sq, Nop)
         /\ IF HasSqe(sq)
            THEN /\ inflight' = [Submitted EXCEPT ![Nop] = @ + 1]
                 /\ sq' = EmptySq
            ELSE UNCHANGED <<sq, inflight>>

\* "f()" for each task: a spawn runs the coroutine at once, up to its first
\* suspension; a stop task stops the loop.
RunTask ==
    /\ pc = "tasks" /\ tTmp # <<>>
    /\ tTmp' = Tail(tTmp)
    /\ IF Head(tTmp) = StopTask
       THEN StopHere /\ UNCHANGED <<pc, stack, caller, co>>
       ELSE /\ Enter(Head(tTmp), "tasks")
            /\ co' = [co EXCEPT ![Head(tTmp)] = "live"]
            /\ UNCHANGED <<stopping, sq, inflight, dropped>>
    /\ UNCHANGED <<cross, ready, cq, cqBatch, cqDone, ext, signalled, runs>>

TasksDone ==
    /\ pc = "tasks" /\ tTmp = <<>>
    /\ pc' = "ready"
    /\ UNCHANGED <<stopping, cross, tTmp, ready, stack, caller, ring, co, ext,
                   signalled, dropped, runs>>

\* "ready_.pop_front(); if (h && !h.done()) h.resume()"
Resume ==
    /\ pc = "ready" /\ ready # <<>>
    /\ ready' = Tail(ready)
    /\ IF co[Head(ready)] = "done"
       THEN UNCHANGED <<stack, caller, pc>>
       ELSE Enter(Head(ready), "ready")
    /\ UNCHANGED <<stopping, cross, tTmp, ring, co, ext, signalled, dropped, runs>>

ReadyDone ==
    /\ pc = "ready" /\ ready = <<>>
    /\ pc' = "check"
    /\ UNCHANGED <<stopping, cross, tTmp, ready, stack, caller, ring, co, ext,
                   signalled, dropped, runs>>

\* "if (stopping_) break;"
CheckStopping ==
    /\ pc = "check"
    /\ pc' = IF stopping THEN "exited" ELSE "submit"
    /\ UNCHANGED <<stopping, cross, tTmp, ready, stack, caller, ring, co, ext,
                   signalled, dropped, runs>>

\* submit_and_wait(1): the SQ is handed over, the thread blocks.
SubmitAndWait ==
    /\ pc = "submit"
    /\ inflight' = Submitted
    /\ sq' = EmptySq
    /\ pc' = "wait"
    /\ UNCHANGED <<stopping, cross, tTmp, ready, stack, caller, cq, cqBatch,
                   cqDone, co, ext, signalled, dropped, runs>>

PeekBatch_WholeArray ==
    /\ pc' = "cqe"
    /\ cqBatch' = Batch
    /\ cqDone' = 0
    /\ UNCHANGED <<stopping, cross, tTmp, ready, stack, caller, sq, inflight, cq,
                   co, ext, signalled, dropped, runs>>

\* peek_batch_cqe: n is the number of CQEs there are, kBatch at most.
PeekBatch ==
    /\ pc' = "cqe"
    /\ cqBatch' = IF Len(cq) < Batch THEN Len(cq) ELSE Batch
    /\ cqDone' = 0
    /\ UNCHANGED <<stopping, cross, tTmp, ready, stack, caller, sq, inflight, cq,
                   co, ext, signalled, dropped, runs>>

WaitReturns == pc = "wait" /\ cq # <<>> /\ PeekBatch

\* -EINTR is tolerated: the loop goes on with whatever is in the CQ.
WaitInterrupted == pc = "wait" /\ PeekBatch

\* Any other error is thrown out of run().
WaitFails ==
    /\ pc = "wait" /\ RingMayFail
    /\ pc' = "failed"
    /\ UNCHANGED <<stopping, cross, tTmp, ready, stack, caller, ring, co, ext,
                   signalled, dropped, runs>>

NextCqe == cq[cqDone + 1]

EventfdOnComplete_NoRearm ==
    /\ pc = "cqe" /\ cqDone < cqBatch /\ NextCqe = Wake
    /\ cqDone' = cqDone + 1
    /\ UNCHANGED <<pc, stopping, cross, tTmp, ready, stack, caller, sq, inflight, cq,
                   cqBatch, co, ext, signalled, dropped, runs>>

\* EventfdWatcher::on_complete: post the next read of the eventfd.
EventfdOnComplete ==
    /\ pc = "cqe" /\ cqDone < cqBatch /\ NextCqe = Wake
    /\ cqDone' = cqDone + 1
    /\ sq' = Rearm(sq, Wake)
    /\ dropped' = dropped \cup DroppedBy(sq, Wake)
    /\ UNCHANGED <<pc, stopping, cross, tTmp, ready, stack, caller, inflight, cq,
                   cqBatch, co, ext, signalled, runs>>

\* IoOperationBase::on_complete, or nothing for the NOP of stop().
IoOnComplete ==
    /\ pc = "cqe" /\ cqDone < cqBatch /\ NextCqe \in Coros \cup {Nop}
    /\ cqDone' = cqDone + 1
    /\ ready' = IF NextCqe \in Coros /\ co[NextCqe] # "done"
                THEN Append(ready, NextCqe) ELSE ready
    /\ UNCHANGED <<pc, stopping, cross, tTmp, stack, caller, sq, inflight, cq,
                   cqBatch, co, ext, signalled, dropped, runs>>

\* TimerfdWatcher::on_complete calls handle_expired: timer callbacks run here.
TimerfdOnComplete ==
    /\ pc = "cqe" /\ cqDone < cqBatch /\ NextCqe = TimerRd
    /\ Enter(TimerRd, "cqe")
    /\ UNCHANGED <<stopping, cross, tTmp, ready, ring, co, ext, signalled, dropped, runs>>

\* ... and, when they return, posts the next read of the timerfd.
TimerfdReturns ==
    /\ pc = "body" /\ stack = <<TimerRd>>
    /\ stack' = <<>> /\ pc' = caller
    /\ cqDone' = cqDone + 1
    /\ sq' = Rearm(sq, TimerRd)
    /\ dropped' = dropped \cup DroppedBy(sq, TimerRd)
    /\ UNCHANGED <<stopping, cross, tTmp, ready, caller, inflight, cq, cqBatch, co,
                   ext, signalled, runs>>

CqAdvance_WholeArray ==
    /\ pc = "cqe" /\ cqDone = cqBatch
    /\ cq' = SubSeq(cq, Batch + 1, Len(cq))
    /\ cqBatch' = 0 /\ cqDone' = 0
    /\ pc' = "top"
    /\ UNCHANGED <<stopping, cross, tTmp, ready, stack, caller, sq, inflight, co, ext,
                   signalled, dropped, runs>>

\* cq_advance(n)
CqAdvance ==
    /\ pc = "cqe" /\ cqDone = cqBatch
    /\ cq' = SubSeq(cq, cqBatch + 1, Len(cq))
    /\ cqBatch' = 0 /\ cqDone' = 0
    /\ pc' = "top"
    /\ UNCHANGED <<stopping, cross, tTmp, ready, stack, caller, sq, inflight, co, ext,
                   signalled, dropped, runs>>

-----------------------------------------------------------------------------
(* What the code on top of the stack may do between two suspension points. *)

Running(c) == pc = "body" /\ Head(stack) = c

\* The innermost code gives control back to whoever resumed or called it.
Leave == stack' = Tail(stack) /\ pc' = IF Tail(stack) = <<>> THEN caller ELSE "body"

\* An awaiter's await_suspend: get_sqe(), prep, prepare_common.  The result of
\* get_sqe() is used unchecked: with a full SQ a null pointer is written through.
AwaitIo(c) ==
    /\ Running(c)
    /\ IF HasSqe(sq)
       THEN sq' = [sq EXCEPT ![c] = @ + 1] /\ Leave
       ELSE pc' = "crashed" /\ UNCHANGED <<sq, stack>>
    /\ UNCHANGED <<stopping, cross, tTmp, ready, caller, inflight, cq, cqBatch, cqDone,
                   co, ext, signalled, dropped, runs>>

\* An awaiter that hands the handle to another thread (SubmitAwaiter).
AwaitThread(c) ==
    /\ Running(c)
    /\ ext' = ext \cup {c}
    /\ Leave
    /\ UNCHANGED <<stopping, cross, tTmp, ready, caller, ring, co, signalled, dropped, runs>>

\* The coroutine runs to its end; its frame is destroyed.
Finish(c) ==
    /\ Running(c)
    /\ co' = [co EXCEPT ![c] = "done"]
    /\ Leave
    /\ UNCHANGED <<stopping, cross, tTmp, ready, caller, ring, ext, signalled, dropped, runs>>

\* spawn(), or post_task() of a spawn on the loop's own thread: runs inline.
Spawn(c) ==
    /\ pc = "body" /\ co[c] = "new"
    /\ co' = [co EXCEPT ![c] = "live"]
    /\ stack' = <<c>> \o stack
    /\ UNCHANGED <<pc, stopping, cross, tTmp, ready, caller, ring, ext, signalled,
                   dropped, runs>>

\* post() on the loop's own thread: push_ready.  The library's own awaiters
\* never do this; user code may.
PostHere(c) ==
    /\ LocalPosts
    /\ pc = "body" /\ c \in ext
    /\ ext' = ext \ {c}
    /\ ready' = Append(ready, c)
    /\ UNCHANGED <<pc, stopping, cross, tTmp, stack, caller, ring, co, signalled,
                   dropped, runs>>

\* stop() called from a coroutine or a timer callback.
BodyStop ==
    /\ pc = "body" /\ ~stopping
    /\ StopHere
    /\ UNCHANGED <<pc, cross, tTmp, ready, stack, caller, cq, cqBatch, cqDone, co, ext,
                   signalled, runs>>

-----------------------------------------------------------------------------
Body ==
    \/ BodyStop
    \/ \E c \in Coros : AwaitIo(c) \/ AwaitThread(c) \/ Finish(c) \/ Spawn(c) \/ PostHere(c)

Loop ==
    \/ Run \/ LoopTop \/ DrainCrossQueue \/ RunTask \/ TasksDone
    \/ Resume \/ ReadyDone \/ CheckStopping \/ SubmitAndWait \/ WaitReturns
    \/ EventfdOnComplete \/ IoOnComplete \/ TimerfdOnComplete \/ TimerfdReturns
    \/ CqAdvance \/ Body

Others ==
    \/ \E t \in Threads : WakeRemote(t) \/ StopRemote(t)
    \/ \E t \in Threads, c \in Coros : Post(t, c)
    \/ \E t \in Threads, k \in Tasks : PostTask(t, k)
    \/ \E k \in Tasks : QueueBootTask(k)

Next == Loop \/ WaitInterrupted \/ WaitFails \/ Others \/ KernelIo \/ KernelWake

Spec == Init /\ [][Next]_vars

\* The loop thread and the threads that post are scheduled by the OS, and the
\* kernel completes a read of a readable eventfd.  Nothing is assumed of the
\* peer: ordinary I/O and the timer may never complete.
Fairness ==
    /\ WF_vars(Loop)
    /\ WF_vars(KernelWake)
    /\ \A t \in Threads : WF_vars(WakeRemote(t))

FairSpec == Spec /\ Fairness

-----------------------------------------------------------------------------
(* Properties. *)

Holds(s, x) == \E i \in DOMAIN s : s[i] = x

CrossWork == crossHandles # <<>> \/ crossTasks # <<>>

\* No lost wakeup.  The loop may only sit in submit_and_wait with an empty CQ
\* when nothing local is runnable, and work posted by another thread, or a stop,
\* is still on its way to wake it: the poster has yet to write the eventfd, or
\* the eventfd is readable and the read of it is with the kernel.  This is what
\* the order push / write(wake_fd_) / drain / submit_and_wait must guarantee.
NoLostWakeup ==
    pc = "wait" /\ cq = <<>> =>
        /\ ready = <<>> /\ tTmp = <<>>
        /\ (CrossWork \/ stopping) /\ Wake \notin dropped =>
             \/ \E t \in Threads : wakePc[t] = "write"
             \/ signalled /\ inflight[Wake] > 0

\* The number of places that hold the handle of c.
Places(c) ==
    LET In(s) == Cardinality({i \in DOMAIN s : s[i] = c})
    IN  In(crossTasks) + In(tTmp) + In(crossHandles) + In(ready) + In(stack)
        + sq[c] + inflight[c] + In(SubSeq(cq, cqDone + 1, Len(cq)))
        + (IF c \in ext THEN 1 ELSE 0)

\* A coroutine that was started and has not finished has its handle in exactly
\* one place, across posts, drains, completions, stop and a second run(): it is
\* neither lost (never resumed) nor duplicated (resumed twice, or after its frame
\* is gone).
HandleOwnedOnce ==
    \A c \in Coros : Places(c) = IF co[c] \in {"queued", "live"} THEN 1 ELSE 0

\* What every coroutine may have in the SQ at once, and the reads run() arms.
SqDemand == Cardinality(Coros) + 2 * MaxRuns

\* How large the submission queue must be.  With an entry for every coroutine and
\* two for every run(), get_sqe() never returns null to a watcher (its read would
\* never be posted again) nor to an awaiter (which would write through the null
\* pointer).  The NOP of stop() may still find that queue full, and is then
\* skipped; with one entry more nobody ever sees null.
SqNeverFull ==
    /\ SqEntries >= SqDemand => dropped \subseteq {Nop} /\ pc # "crashed"
    /\ SqEntries > SqDemand => dropped = {}

\* A handle posted by another thread is resumed, and a posted task run, unless the
\* loop ends first: whatever the interleaving with drain, the CQE batch and stop.
PostedIsServed ==
    \A c \in Coros :
        /\ Holds(crossHandles, c) ~> (Holds(stack, c) \/ pc \in Dead)
        /\ Holds(crossTasks, c) ~> (co[c] \in {"live", "done"} \/ pc \in Dead)

\* stop() called while the loop is running ends the loop.
StopEndsLoop == (stopping /\ pc \in LoopPcs) ~> pc \in Dead

\* scheduler.hpp: stop() tells the event loop to exit.  Whenever stop() has set
\* the flag, run() returns.
StopIsHonoured == stopping ~> pc \in Dead

-----------------------------------------------------------------------------
\* How far the scheduler has come with coroutine c, read off from where its
\* handle is.
Status(c) ==
    CASE co[c] \in {"new", "queued", "done"}      -> co[c]
      [] Holds(stack, c)                          -> "running"
      [] sq[c] + inflight[c] > 0 \/ c \in ext     -> "waiting"
      [] OTHER                                    -> "runnable"

Promise == INSTANCE Executor WITH status <- [c \in Coros |-> Status(c)]

\* The event loop, with its queues, completions and other threads, implements
\* the abstract executor: one coroutine at a time, one resume per wakeup, no
\* resume of a coroutine that is still waiting for the kernel or a thread.
ImplementsExecutor == Promise!ExecSpec
=============================================================================
