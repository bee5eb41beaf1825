---------------------------- MODULE CoroThreadPool ----------------------------
(***************************************************************************)
(* coro_net::CoroThreadPool: a queue of jobs guarded by mu_, workers that   *)
(* sleep on the condition variable cv_, threads that enqueue jobs, and one  *)
(* owner thread that calls start() and stop().                              *)
(*                                                                          *)
(* cv_.wait(lk, pred) is modelled as it works: the predicate is evaluated   *)
(* with mu_ held, and when it is false the worker joins the wait set and    *)
(* releases mu_ in one step.  Between the two, mu_ is held -- but stop()    *)
(* does not take mu_.  What a job computes is left out; running it includes *)
(* the post of its coroutine handle that ends every submitted job.          *)
(***************************************************************************)
EXTENDS Integers, Sequences, SequencesExt

CONSTANTS
    Workers,    \* worker threads (target_threads_ of them)
    Clients,    \* threads that enqueue
    Jobs,       \* the jobs, each enqueued at most once
    Nobody,     \* mu_ is free
    MaxStarts   \* bound: how often start() is called

ASSUME PoolAssumption ==
    /\ Workers # {} /\ Nobody \notin Workers \cup Clients \cup Jobs
    /\ MaxStarts \in Nat

VARIABLES
    queue,      \* queue_, guarded by mu_
    stopping,   \* stopping_, an atomic
    started,    \* started_, touched by the owner only
    mu,         \* the worker that holds mu_, or Nobody
    wpc,        \* worker threads
    job,        \* the job a worker runs
    cpc,        \* clients: between the push and the notify_one of enqueue?
    opc,        \* the owner: where in stop() it is
    done,       \* jobs that ran
    enqueued,   \* history: jobs pushed by enqueue() so far
    owed,       \* history: jobs queued or running when stop() was called
    starts      \* how often start() was called

vars == <<queue, stopping, started, mu, wpc, job, cpc, opc, done, enqueued, owed, starts>>

WorkerPcs == {"none", "lock", "test", "block", "wait", "run", "exit"}

\* Types, with the scope of mu_: held exactly while a worker evaluates the
\* predicate of cv_.wait, never while it runs a job.
TypeOK ==
    /\ queue \in Seq(Jobs)
    /\ stopping \in BOOLEAN /\ started \in BOOLEAN
    /\ mu \in Workers \cup {Nobody}
    /\ wpc \in [Workers -> WorkerPcs]
    /\ job \in [Workers -> Jobs \cup {Nobody}]
    /\ cpc \in [Clients -> {"idle", "notify"}]
    /\ opc \in {"idle", "notifyAll", "join"}
    /\ done \in SUBSET Jobs /\ enqueued \in SUBSET Jobs /\ owed \in SUBSET Jobs
    /\ starts \in Nat
    /\ \A w \in Workers : (mu = w) <=> (wpc[w] \in {"test", "block"})
    /\ \A w \in Workers : (job[w] # Nobody) <=> (wpc[w] = "run")

Init ==
    /\ queue = <<>> /\ stopping = FALSE /\ started = FALSE /\ mu = Nobody
    /\ wpc = [w \in Workers |-> "none"] /\ job = [w \in Workers |-> Nobody]
    /\ cpc = [c \in Clients |-> "idle"] /\ opc = "idle"
    /\ done = {} /\ enqueued = {} /\ owed = {} /\ starts = 0

Running == {job[w] : w \in Workers} \ {Nobody}

-----------------------------------------------------------------------------
(* start() and stop(), called by the owner. *)

Start ==
    /\ opc = "idle" /\ ~started /\ starts < MaxStarts
    /\ started' = TRUE /\ stopping' = FALSE
    /\ wpc' = [w \in Workers |-> "lock"]
    /\ starts' = starts + 1
    /\ UNCHANGED <<queue, mu, job, cpc, opc, done, enqueued, owed>>

\* stopping_.store(true): no lock is taken.
Stop ==
    /\ opc = "idle" /\ started
    /\ stopping' = TRUE
    /\ opc' = "notifyAll"
    /\ owed' = ToSet(queue) \cup Running
    /\ UNCHANGED <<queue, started, mu, wpc, job, cpc, done, enqueued, starts>>

StopNotifyAll ==
    /\ opc = "notifyAll"
    /\ wpc' = [w \in Workers |-> IF wpc[w] = "wait" THEN "lock" ELSE wpc[w]]
    /\ opc' = "join"
    /\ UNCHANGED <<queue, stopping, started, mu, job, cpc, done, enqueued, owed, starts>>

StopReturn_NoJoin ==
    /\ opc = "join"
    /\ opc' = "idle" /\ started' = FALSE
    /\ UNCHANGED <<queue, stopping, mu, wpc, job, cpc, done, enqueued, owed, starts>>

\* Every join() has returned.
StopReturn ==
    /\ opc = "join" /\ \A w \in Workers : wpc[w] = "exit"
    /\ opc' = "idle" /\ started' = FALSE
    /\ wpc' = [w \in Workers |-> "none"]
    /\ UNCHANGED <<queue, stopping, mu, job, cpc, done, enqueued, owed, starts>>

-----------------------------------------------------------------------------
(* enqueue(), called by any thread: push under mu_, then notify_one. *)

Enqueue_NoNotify(c, j) ==
    /\ cpc[c] = "idle" /\ mu = Nobody /\ j \notin enqueued
    /\ queue' = Append(queue, j)
    /\ enqueued' = enqueued \cup {j}
    /\ UNCHANGED <<stopping, started, mu, wpc, job, cpc, opc, done, owed, starts>>

Enqueue(c, j) ==
    /\ cpc[c] = "idle" /\ mu = Nobody /\ j \notin enqueued
    /\ queue' = Append(queue, j)
    /\ enqueued' = enqueued \cup {j}
    /\ cpc' = [cpc EXCEPT ![c] = "notify"]
    /\ UNCHANGED <<stopping, started, mu, wpc, job, opc, done, owed, starts>>

Sleeping == {w \in Workers : wpc[w] = "wait"}

\* notify_one: some sleeping worker is woken, if there is one.
NotifyOne(c) ==
    /\ cpc[c] = "notify"
    /\ cpc' = [cpc EXCEPT ![c] = "idle"]
    /\ \/ Sleeping = {} /\ UNCHANGED wpc
       \/ \E w \in Sleeping : wpc' = [wpc EXCEPT ![w] = "lock"]
    /\ UNCHANGED <<queue, stopping, started, mu, job, opc, done, enqueued, owed, starts>>

-----------------------------------------------------------------------------
(* worker_loop(). *)

WorkerLock(w) ==
    /\ wpc[w] = "lock" /\ mu = Nobody
    /\ mu' = w
    /\ wpc' = [wpc EXCEPT ![w] = "test"]
    /\ UNCHANGED <<queue, stopping, started, job, cpc, opc, done, enqueued, owed, starts>>

\* The predicate of cv_.wait is false.
WorkerFindsNothing(w) ==
    /\ wpc[w] = "test" /\ queue = <<>> /\ ~stopping
    /\ wpc' = [wpc EXCEPT ![w] = "block"]
    /\ UNCHANGED <<queue, stopping, started, mu, job, cpc, opc, done, enqueued, owed, starts>>

\* cv_.wait joins the wait set and releases mu_.
WorkerBlock(w) ==
    /\ wpc[w] = "block"
    /\ wpc' = [wpc EXCEPT ![w] = "wait"]
    /\ mu' = Nobody
    /\ UNCHANGED <<queue, stopping, started, job, cpc, opc, done, enqueued, owed, starts>>

SpuriousWake(w) ==
    /\ wpc[w] = "wait"
    /\ wpc' = [wpc EXCEPT ![w] = "lock"]
    /\ UNCHANGED <<queue, stopping, started, mu, job, cpc, opc, done, enqueued, owed, starts>>

WorkerExit_Eager(w) ==
    /\ wpc[w] = "test" /\ stopping
    /\ wpc' = [wpc EXCEPT ![w] = "exit"]
    /\ mu' = Nobody
    /\ UNCHANGED <<queue, stopping, started, job, cpc, opc, done, enqueued, owed, starts>>

\* "if (stopping_ && queue_.empty()) return;"
WorkerExit(w) ==
    /\ wpc[w] = "test" /\ queue = <<>> /\ stopping
    /\ wpc' = [wpc EXCEPT ![w] = "exit"]
    /\ mu' = Nobody
    /\ UNCHANGED <<queue, stopping, started, job, cpc, opc, done, enqueued, owed, starts>>

WorkerTake_DropsAtStop(w) ==
    /\ wpc[w] = "test" /\ queue # <<>>
    /\ job' = IF stopping THEN job ELSE [job EXCEPT ![w] = Head(queue)]
    /\ queue' = Tail(queue)
    /\ wpc' = [wpc EXCEPT ![w] = IF stopping THEN "exit" ELSE "run"]
    /\ mu' = Nobody
    /\ UNCHANGED <<stopping, started, cpc, opc, done, enqueued, owed, starts>>

\* Pop the front of the queue and release mu_.
WorkerTake(w) ==
    /\ wpc[w] = "test" /\ queue # <<>>
    /\ job' = [job EXCEPT ![w] = Head(queue)]
    /\ queue' = Tail(queue)
    /\ wpc' = [wpc EXCEPT ![w] = "run"]
    /\ mu' = Nobody
    /\ UNCHANGED <<stopping, started, cpc, opc, done, enqueued, owed, starts>>

\* task(): outside mu_; an exception is logged and changes nothing here.
WorkerRun(w) ==
    /\ wpc[w] = "run"
    /\ done' = done \cup {job[w]}
    /\ job' = [job EXCEPT ![w] = Nobody]
    /\ wpc' = [wpc EXCEPT ![w] = "lock"]
    /\ UNCHANGED <<queue, stopping, started, mu, cpc, opc, enqueued, owed, starts>>

-----------------------------------------------------------------------------
Worker(w) ==
    \/ WorkerLock(w) \/ WorkerFindsNothing(w) \/ WorkerBlock(w)
    \/ WorkerExit(w) \/ WorkerTake(w) \/ WorkerRun(w)

StopSteps == StopNotifyAll \/ StopReturn

Next ==
    \/ Start \/ Stop \/ StopSteps
    \/ \E w \in Workers : Worker(w) \/ SpuriousWake(w)
    \/ \E c \in Clients : NotifyOne(c)
    \/ \E c \in Clients, j \in Jobs : Enqueue(c, j)

Spec == Init /\ [][Next]_vars

\* Threads are scheduled by the OS: a worker that can move does, a begun enqueue
\* or stop is carried on.  Nothing is assumed of who gets mu_ first, and spurious
\* wakeups are allowed but never relied on.
Fairness ==
    /\ \A w \in Workers : WF_vars(Worker(w))
    /\ \A c \in Clients : WF_vars(NotifyOne(c))
    /\ WF_vars(StopSteps)

FairSpec == Spec /\ Fairness

-----------------------------------------------------------------------------
(* Properties. *)

Alive(w) == wpc[w] \in WorkerPcs \ {"none", "exit"}

\* A job that was enqueued is in exactly one place: once in the queue, with one
\* worker, or done.  It is never dropped, never run twice or by two workers, and no
\* job comes from nowhere, over any interleaving of enqueue, workers, stop and start.
JobHeldOnce ==
    /\ TypeOK
    /\ \A j \in Jobs :
        LET InQueue == {i \in DOMAIN queue : queue[i] = j}
            With    == {w \in Workers : job[w] = j}
        IN  Cardinality(InQueue) + Cardinality(With) + (IF j \in done THEN 1 ELSE 0)
              = IF j \in enqueued THEN 1 ELSE 0

\* Enqueue never loses a wakeup: when jobs are queued, not every live worker is
\* asleep unless a notify_one is still to come.
NoForgottenJob ==
    queue # <<>> /\ (\E w \in Workers : Alive(w)) =>
        \/ \E w \in Workers : wpc[w] \in {"lock", "test", "run"}
        \/ \E c \in Clients : cpc[c] = "notify"

\* stop() drains: when it returns, every job that was queued or running when it
\* was called has run.
StopDrains ==
    [][opc = "join" /\ opc' = "idle" => owed \subseteq done]_vars

\* thread_pool.hpp: stop() tells all workers to exit and joins them.  So it
\* returns.
StopReturns == (opc # "idle") ~> (opc = "idle")
=============================================================================
