------------------------------- MODULE TcpServer ------------------------------
(***************************************************************************)
(* The life of a coro_net::TcpServer and of the SchedulerPool it builds:    *)
(* ring set-up in SQPOLL groups, listen sockets, start, stop, wait and the  *)
(* two destructors.  The owner's thread calls everything; another thread,   *)
(* or a signal handler, may call stop() at any time before destruction.     *)
(*                                                                          *)
(* What a worker does inside its loop is TcpWorker's and Scheduler's: here  *)
(* it enters run(), which clears stopping_, and leaves it after a stop.     *)
(* The kernel may refuse any set of ring flags, any socket, bind or listen. *)
(* Bound: start() gets past its first line once (nothing in the repository  *)
(* restarts a server).                                                      *)
(***************************************************************************)
EXTENDS Integers, FiniteSets

CONSTANTS
    MaxWorkers, \* bound: the largest worker_threads_
    MaxPollers, \* bound: the largest sqpoll_threads_
    Cpus        \* how many cores sqpoll_cpus_ names

ASSUME ServerAssumption ==
    MaxWorkers \in Nat \ {0} /\ MaxPollers \in Nat /\ Cpus \in Nat

VARIABLES
    n, m,      \* worker_threads_, sqpoll_threads_
    running,   \* running_
    pool,      \* pool_: null, without threads, with threads (started_), destroyed
    ring,      \* per worker: the leader of the poller that serves it, and its core
    socket,    \* per worker: the socket in listen_fds_; none is a 0 in the vector
    wheels,    \* wheels_ and handler_ exist
    worker,    \* the threads
    posted,    \* workers with a posted task that calls Scheduler::stop
    stopping,  \* workers whose Scheduler::stopping_ is set
    pc,        \* where the owner and the other thread are
    dying,     \* ~TcpServer has not begun, found running_ set, found it cleared
    threw,     \* history: start() threw
    missed     \* history: a stop() found no pool while start() was building it

conf == <<n, m>>
hist == <<threw, missed>>
vars == <<conf, running, pool, ring, socket, wheels, worker, posted, stopping, pc, dying, hist>>

I == 0 .. n - 1
None == -1
Alive == {i \in I : worker[i] \in {"new", "runs"}}

\* Types; what is posted is posted to a worker.
TypeOK ==
    /\ n \in 1 .. MaxWorkers /\ m \in 0 .. MaxPollers
    /\ running \in BOOLEAN /\ pool \in {"null", "built", "started", "gone"}
    /\ ring \in [I -> [poller : I \cup {None}, cpu : (0 .. Cpus - 1) \cup {None}]]
    /\ socket \in [I -> {"none", "open", "closed"}] /\ wheels \in BOOLEAN
    /\ worker \in [I -> {"none", "new", "runs", "ended"}]
    /\ posted \subseteq I /\ stopping \subseteq I
    /\ pc \in [{"owner", "other"} -> {"idle", "build", "listen", "shut", "post", "wait",
                                      "close", "members", "join", "gone"}]
    /\ dying \in {"no", "ran", "stopped"}
    /\ threw \in BOOLEAN /\ missed \in BOOLEAN

Init ==
    /\ n \in 1 .. MaxWorkers /\ m \in 0 .. MaxPollers
    /\ running = FALSE /\ pool = "null" /\ ring = [i \in I |-> [poller |-> None, cpu |-> None]]
    /\ socket = [i \in I |-> "none"] /\ wheels = FALSE
    /\ worker = [i \in I |-> "none"] /\ posted = {} /\ stopping = {}
    /\ pc = [t \in {"owner", "other"} |-> "idle"] /\ dying = "no"
    /\ threw = FALSE /\ missed = FALSE

At(t, from, to) == pc[t] = from /\ pc' = [pc EXCEPT ![t] = to]

-----------------------------------------------------------------------------
(* SchedulerPool's constructor, and IoUring's. *)

GroupSize_Floor == IF m > 0 THEN IF n \div m > 0 THEN n \div m ELSE 1 ELSE 1

GroupSize == IF m > 0 THEN (n + m - 1) \div m ELSE 1

Leader(i) == (i \div GroupSize) * GroupSize

\* Which set-ups the kernel may grant, dropping flags from the full set on: the core
\* first, then (with everything that depends on it) SQPOLL.  A ring that cannot
\* attach to its leader's poller gets none of its own.
Granted(r, i) ==
    LET g == i \div GroupSize
    IN  \/ r[i] = [poller |-> None, cpu |-> None]
        \/ m > 0 /\ i = Leader(i) /\ r[i] = [poller |-> i, cpu |-> None]
        \/ m > 0 /\ i = Leader(i) /\ g < Cpus /\ r[i] = [poller |-> i, cpu |-> g]
        \/ /\ m > 0 /\ i # Leader(i) /\ r[Leader(i)].poller = Leader(i)
           /\ r[i] = [poller |-> Leader(i), cpu |-> None]

Rings == {r \in [I -> [poller : I \cup {None}, cpu : (0 .. Cpus - 1) \cup {None}]] :
              \A i \in I : Granted(r, i)}

-----------------------------------------------------------------------------
(* TcpServer::start. *)

StartBegin ==
    /\ ~running /\ pool = "null" /\ ~threw /\ At("owner", "idle", "build")
    /\ running' = TRUE
    /\ UNCHANGED <<conf, pool, ring, socket, wheels, worker, posted, stopping, dying, hist>>

\* An exception leaves start() as it is: running_ stays set.
StartThrows ==
    /\ pc["owner"] \in {"build", "listen"} /\ pc' = [pc EXCEPT !["owner"] = "idle"]
    /\ threw' = TRUE
    /\ UNCHANGED <<conf, running, pool, ring, socket, wheels, worker, posted, stopping, dying,
                   missed>>

\* The pool exists, and listen_fds_ is resized: its elements are 0.
BuildPool ==
    /\ At("owner", "build", "listen")
    /\ pool' = "built" /\ ring' \in Rings
    /\ UNCHANGED <<conf, running, socket, wheels, worker, posted, stopping, dying, hist>>

\* make_listen_socket; one that fails is closed there and then.
Listen(i) ==
    /\ pc["owner"] = "listen"
    /\ socket[i] = "none" /\ \A j \in 0 .. i - 1 : socket[j] # "none"
    /\ socket' = [socket EXCEPT ![i] = "open"]
    /\ UNCHANGED <<conf, running, pool, ring, wheels, worker, posted, stopping, pc, dying, hist>>

\* Wheels and boot tasks, then SchedulerPool::start.
Launch ==
    /\ At("owner", "listen", "idle") /\ \A i \in I : socket[i] # "none"
    /\ wheels' = TRUE /\ pool' = "started" /\ worker' = [i \in I |-> "new"]
    /\ UNCHANGED <<conf, running, ring, socket, posted, stopping, dying, hist>>

-----------------------------------------------------------------------------
(* TcpServer::stop, by t. *)

StopBegin(t) ==
    /\ running /\ At(t, "idle", "shut")
    /\ t = "other" => dying = "no"
    /\ running' = FALSE
    /\ UNCHANGED <<conf, pool, ring, socket, wheels, worker, posted, stopping, dying, hist>>

\* The listen sockets are shut down: they stay open, the accepts on them fail.
StopShutdown(t) ==
    /\ At(t, "shut", "post")
    /\ UNCHANGED <<conf, running, pool, ring, socket, wheels, worker, posted, stopping, dying, hist>>

AfterStop(t) == IF t = "owner" /\ dying # "no" THEN "wait" ELSE "idle"

StopPost_FromOne(t) ==
    /\ At(t, "post", AfterStop(t))
    /\ posted' = IF pool = "null" THEN posted ELSE I \ {0}
    /\ missed' = (missed \/ (pool = "null" /\ pc["owner"] = "build"))
    /\ UNCHANGED <<conf, running, pool, ring, socket, wheels, worker, stopping, dying, threw>>

StopPost_Directly(t) ==
    /\ At(t, "post", AfterStop(t))
    /\ stopping' = IF pool = "null" THEN stopping ELSE I
    /\ missed' = (missed \/ (pool = "null" /\ pc["owner"] = "build"))
    /\ UNCHANGED <<conf, running, pool, ring, socket, wheels, worker, posted, dying, threw>>

\* Posted to a worker that is not in run() yet, the task waits in its queue.
StopPost(t) ==
    /\ At(t, "post", AfterStop(t))
    /\ posted' = IF pool = "null" THEN posted ELSE I
    /\ missed' = (missed \/ (pool = "null" /\ pc["owner"] = "build"))
    /\ UNCHANGED <<conf, running, pool, ring, socket, wheels, worker, stopping, dying, threw>>

-----------------------------------------------------------------------------
(* wait and the destructors. *)

Wait ==
    /\ pool # "null" /\ At("owner", "idle", "wait")
    /\ UNCHANGED <<conf, running, pool, ring, socket, wheels, worker, posted, stopping, dying, hist>>

\* SchedulerPool::wait: every thread is joined, started_ is cleared.
WaitReturns ==
    /\ At("owner", "wait", IF dying # "no" THEN "close" ELSE "idle") /\ Alive = {}
    /\ worker' = [i \in I |-> "none"] /\ pool' = IF pool = "null" THEN "null" ELSE "built"
    /\ UNCHANGED <<conf, running, ring, socket, wheels, posted, stopping, dying, hist>>

DestroyServer_NoWait ==
    /\ At("owner", "idle", "close") /\ pc["other"] = "idle"
    /\ dying' = (IF running THEN "ran" ELSE "stopped") /\ running' = FALSE
    /\ UNCHANGED <<conf, pool, ring, socket, wheels, worker, posted, stopping, hist>>

\* ~TcpServer: stop() and wait() first if running_.
DestroyServer ==
    /\ pc["owner"] = "idle" /\ pc["other"] = "idle"
    /\ pc' = [pc EXCEPT !["owner"] = IF running THEN "shut" ELSE "close"]
    /\ dying' = (IF running THEN "ran" ELSE "stopped") /\ running' = FALSE
    /\ UNCHANGED <<conf, pool, ring, socket, wheels, worker, posted, stopping, hist>>

CloseFds_SkipLast ==
    /\ At("owner", "close", "members")
    /\ socket' = [i \in I |-> IF socket[i] = "open" /\ i < n - 1 THEN "closed" ELSE socket[i]]
    /\ UNCHANGED <<conf, running, pool, ring, wheels, worker, posted, stopping, dying, hist>>

CloseFds ==
    /\ At("owner", "close", "members")
    /\ socket' = [i \in I |-> IF socket[i] = "open" THEN "closed" ELSE socket[i]]
    /\ UNCHANGED <<conf, running, pool, ring, wheels, worker, posted, stopping, dying, hist>>

\* The members in reverse order: the wheels and the handler before the pool, whose
\* destructor calls stop_all() and wait() if it is started.
DestroyMembers ==
    /\ At("owner", "members", "join")
    /\ wheels' = FALSE /\ stopping' = IF pool = "started" THEN I ELSE stopping
    /\ UNCHANGED <<conf, running, pool, ring, socket, worker, posted, dying, hist>>

PoolGone ==
    /\ At("owner", "join", "gone") /\ Alive = {}
    /\ pool' = "gone" /\ worker' = [i \in I |-> "none"]
    /\ UNCHANGED <<conf, running, ring, socket, wheels, posted, stopping, dying, hist>>

-----------------------------------------------------------------------------
(* A worker's thread: Scheduler::run. *)

WorkerRuns(i) ==
    /\ worker[i] = "new" /\ worker' = [worker EXCEPT ![i] = "runs"]
    /\ stopping' = stopping \ {i}
    /\ UNCHANGED <<conf, running, pool, ring, socket, wheels, posted, pc, dying, hist>>

WorkerEnds(i) ==
    /\ worker[i] = "runs" /\ i \in posted \cup stopping
    /\ worker' = [worker EXCEPT ![i] = "ended"]
    /\ UNCHANGED <<conf, running, pool, ring, socket, wheels, posted, stopping, pc, dying, hist>>

Worker(i) == WorkerRuns(i) \/ WorkerEnds(i)

-----------------------------------------------------------------------------
Building == StartThrows \/ BuildPool \/ (\E i \in I : Listen(i)) \/ Launch
Stopping(t) == StopShutdown(t) \/ StopPost(t)
Ending   == WaitReturns \/ CloseFds \/ DestroyMembers \/ PoolGone

Next ==
    \/ StartBegin \/ Building \/ Wait \/ DestroyServer \/ Ending
    \/ \E t \in {"owner", "other"} : StopBegin(t) \/ Stopping(t)
    \/ \E i \in I : Worker(i)

\* Threads that can move do; nobody has to call stop() or destroy the server.
Fairness ==
    /\ WF_vars(Building) /\ WF_vars(Ending)
    /\ \A t \in {"owner", "other"} : WF_vars(Stopping(t))
    /\ \A i \in 0 .. MaxWorkers - 1 : WF_vars(i \in I /\ Worker(i))

Spec == Init /\ [][Next]_vars /\ Fairness

-----------------------------------------------------------------------------
(* Properties. *)

Pollers == {ring[i].poller : i \in I} \ {None}

\* However the rings divide into groups and whatever the kernel refuses, at most
\* sqpoll_threads_ pollers run, each the leader's of a group it serves, and no two
\* share a core.
PollersShared ==
    /\ Cardinality(Pollers) <= m
    /\ \A i \in I : ring[i].poller # None => ring[ring[i].poller].poller = ring[i].poller
    /\ \A i, j \in I : i # j /\ ring[i].cpu # None => ring[i].cpu # ring[j].cpu

\* No listen socket outlives the server, wherever start() threw or stop() came.
SocketsClosed == pc["owner"] = "gone" => \A i \in I : socket[i] # "open"

\* Once a stop() is through, every worker of a pool with threads has been told in a
\* way it cannot forget, wherever it is and whenever the stop() came: by a task in its
\* queue, or by the flag if it is past the line of run() that clears it.  The only
\* stop() that is lost is one that found no pool because start() had not made it yet.
EveryWorkerTold ==
    /\ ~running /\ ~missed /\ pool = "started"
    /\ \A t \in {"owner", "other"} : pc[t] \notin {"shut", "post"}
    => \A i \in Alive : i \in posted \/ (worker[i] = "runs" /\ i \in stopping)

\* No worker outlives what it uses: a Scheduler is never destroyed under its thread,
\* and the wheels and the handler only by a destructor that came after a stop() and
\* before a wait() had joined the workers.
OutlivesWorkers ==
    /\ TypeOK
    /\ Alive # {} => pool = "started" /\ (wheels \/ dying = "stopped")

\* A stop() that finds the pool, also one that is still being started, ends every
\* worker; and the destructor returns unless an earlier stop() found no pool.
StopEnds ==
    /\ (posted # {} /\ pool = "started") ~> (Alive = {})
    /\ (dying # "no") ~> (pc["owner"] = "gone" \/ missed)
=============================================================================
