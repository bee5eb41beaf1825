------------------------------ MODULE TcpWorker -------------------------------
(***************************************************************************)
(* One worker of a coro_net::TcpServer: its accept loop, its connections    *)
(* with their handlers, the wheel that evicts idle connections and the pool *)
(* of registered buffers.  Workers share nothing but running_, so one of    *)
(* them with the thread that stops the server is the whole interaction.     *)
(*                                                                          *)
(* The worker is one thread: what a coroutine does between two suspensions  *)
(* is one step.  The kernel completes operations and hands out file         *)
(* descriptors at any time, and the wheel's timeout may be over between any *)
(* two steps: its seconds are counted in ticks.  An IdleEntry is named by   *)
(* its connection, and a name is used again only when no bucket holds the   *)
(* entry of its last use.  The handler is user code: after any await it     *)
(* goes on in any way the handlers in the headers, tests and examples do.   *)
(* Bytes are left out: a result is data (n > 0) or the end                  *)
(* (n <= 0), and is known when the completion is dispatched; until then the *)
(* operation counts as being with the kernel.                               *)
(***************************************************************************)
EXTENDS Integers, Sequences, FiniteSets

CONSTANTS
    Conns,        \* names of TcpConnection objects
    Fds,          \* descriptors the process may still open
    BufSlots,     \* capacity of the RegisteredBufferPool, 0 when it is disabled
    IdleSeconds,  \* idle_
    None          \* no descriptor, no slot

ASSUME WorkerAssumption ==
    /\ BufSlots \in Nat
    /\ IdleSeconds \in Nat \ {0}
    /\ None \notin Fds /\ None \notin Nat

Slots   == 0 .. BufSlots - 1
Buckets == 0 .. IdleSeconds - 1

VARIABLES
    running,   \* TcpServer::running_
    owner,     \* how far the thread in stop(), wait() and ~TcpServer is
    listening, \* the listen socket was not shut down
    stopTask,  \* the posted task that calls Scheduler::stop
    loop,      \* the worker's thread: before, in and after Scheduler::run
    accept,    \* the accept coroutine
    acceptFd,  \* the descriptor its completion carries
    openFds,   \* the process's connection descriptors
    live,      \* TcpConnection objects that exist
    fdOf,      \* fd_
    slotOf,    \* buf_index_
    freeList,  \* RegisteredBufferPool::free_list_
    handler,   \* what the handler coroutine awaits, "none" without a frame
    evictor,   \* the same for the coroutine that ~IdleEntry spawns
    ops,       \* awaited and not yet dispatched; done: has shut down
    shut,      \* connections whose socket was shut down
    buckets,   \* CircularBuffer::buffer_: per bucket the connections of its entries
    tail,      \* CircularBuffer::tail_
    silent     \* history, per connection: ticks since it was accepted or gave data,
               \* IdleSeconds standing for any more

server == <<running, owner, listening, stopTask>>
accLoop == <<accept, acceptFd>>
objects == <<openFds, live, fdOf, slotOf, freeList, shut>>
coros  == <<handler, evictor, ops>>
wheel  == <<buckets, tail>>
vars   == <<server, loop, accLoop, objects, coros, wheel, silent>>

\* What a handler awaits: its socket, or something else that ends whenever it likes, a
\* job of the CoroThreadPool or a timer, while its frame keeps the connection.
Awaits  == {"recv", "send", "shutdown", "submit"}

Op == [conn : Conns, who : {"handler", "evictor"}, kind : Awaits, fd : Fds,
       slot : Slots \cup {None}, done : BOOLEAN]

\* Types; the wheel's tail stays inside the ring.
TypeOK ==
    /\ running \in BOOLEAN /\ listening \in BOOLEAN /\ stopTask \in BOOLEAN
    /\ owner \in {"idle", "stopping", "posting", "waiting", "joined", "gone"}
    /\ loop \in {"boot", "running", "ended"}
    /\ accept \in {"none", "kernel", "cqe", "failed", "done"}
    /\ acceptFd \in Fds \cup {None}
    /\ openFds \subseteq Fds
    /\ live \subseteq Conns
    /\ fdOf \in [Conns -> Fds \cup {None}]
    /\ slotOf \in [Conns -> Slots \cup {None}]
    /\ freeList \in Seq(Slots)
    /\ handler \in [Conns -> Awaits \cup {"none"}]
    /\ evictor \in [Conns -> {"none", "shutdown"}]
    /\ ops \subseteq Op
    /\ shut \subseteq Conns
    /\ buckets \in [Buckets -> SUBSET Conns]
    /\ tail \in Buckets
    /\ silent \in [Conns -> 0 .. IdleSeconds]

\* TcpServer::start has returned; the worker's thread has not entered run() yet.
Init ==
    /\ running = TRUE /\ owner = "idle" /\ listening = TRUE /\ stopTask = FALSE
    /\ loop = "boot"
    /\ accept = "none" /\ acceptFd = None
    /\ openFds = {} /\ live = {}
    /\ fdOf = [c \in Conns |-> None] /\ slotOf = [c \in Conns |-> None]
    /\ freeList = [i \in 1 .. BufSlots |-> BufSlots - i]
    /\ handler = [c \in Conns |-> "none"] /\ evictor = [c \in Conns |-> "none"]
    /\ ops = {} /\ shut = {}
    /\ buckets = [b \in Buckets |-> {}] /\ tail = 0
    /\ silent = [c \in Conns |-> 0]

-----------------------------------------------------------------------------
(* The wheel: CircularBuffer, always full, of buckets of entries. *)

NextIndex(i) == (i + 1) % IdleSeconds

Back == (tail - 1 + IdleSeconds) % IdleSeconds

\* An entry lives as long as some bucket holds it.
EntryAlive(c) == \E b \in Buckets : c \in buckets[b]

Insert_Oldest(c) == [buckets EXCEPT ![tail] = @ \cup {c}]

\* register_conn, and refresh of an entry that still lives.
Insert(c) == [buckets EXCEPT ![Back] = @ \cup {c}]

\* push_back of an empty bucket over the oldest.
PushBack ==
    /\ buckets' = [buckets EXCEPT ![tail] = {}]
    /\ tail' = NextIndex(tail)

\* The entries that die of it: no other bucket holds them.
Dying == {c \in buckets[tail] : \A b \in Buckets \ {tail} : c \notin buckets[b]}

-----------------------------------------------------------------------------
(* Operations and the objects they use. *)

\* Recv and send use the registered buffer when the connection has one.
Submitted(c, who, kind) ==
    [conn |-> c, who |-> who, kind |-> kind, fd |-> fdOf'[c],
     slot |-> IF kind \in {"recv", "send"} THEN slotOf'[c] ELSE None, done |-> FALSE]

Acquire_NoPop(c) ==
    /\ slotOf' = [slotOf EXCEPT ![c] = IF freeList = <<>> THEN None
                                       ELSE freeList[Len(freeList)]]
    /\ freeList' = freeList

\* RegisteredBufferPool::acquire: the top of the free list, or none.
Acquire(c) ==
    \/ /\ freeList = <<>>
       /\ slotOf' = [slotOf EXCEPT ![c] = None] /\ freeList' = freeList
    \/ /\ freeList # <<>>
       /\ slotOf' = [slotOf EXCEPT ![c] = freeList[Len(freeList)]]
       /\ freeList' = SubSeq(freeList, 1, Len(freeList) - 1)

Referenced_HandlerOnly(c) == handler'[c] \in Awaits

\* The frames that hold a shared_ptr to the connection after the step: its
\* handler's, and that of the coroutine which shuts it down.
Referenced(c) == handler'[c] \in Awaits \/ evictor'[c] = "shutdown"

\* The last reference gone, ~TcpConnection returns the slot and closes fd_ (and
\* the socket is no more).
DropReference(c) ==
    IF Referenced(c)
    THEN UNCHANGED objects
    ELSE /\ live' = live \ {c}
         /\ openFds' = openFds \ {fdOf[c]}
         /\ freeList' = IF slotOf[c] = None THEN freeList ELSE Append(freeList, slotOf[c])
         /\ fdOf' = [fdOf EXCEPT ![c] = None]
         /\ slotOf' = [slotOf EXCEPT ![c] = None]
         /\ shut' = shut \ {c}

OpOf(c, who) == {o \in ops : o.conn = c /\ o.who = who}

-----------------------------------------------------------------------------
(* The kernel, whose completions nobody sees after the loop has ended. *)

KernelAccept ==
    /\ loop = "running" /\ accept = "kernel" /\ listening
    /\ \E f \in Fds \ openFds : acceptFd' = f /\ openFds' = openFds \cup {f}
    /\ accept' = "cqe"
    /\ UNCHANGED <<server, loop, live, fdOf, slotOf, freeList, shut, coros, wheel, silent>>

\* Accepting fails when the listen socket is shut down, and for want of a
\* descriptor (EMFILE).
KernelAcceptFails ==
    /\ loop = "running" /\ accept = "kernel" /\ (~listening \/ openFds = Fds)
    /\ accept' = "failed"
    /\ UNCHANGED <<server, loop, acceptFd, objects, coros, wheel, silent>>

\* The kernel shuts down the socket that the descriptor names when it runs.
KernelShutdown(c) ==
    /\ loop = "running"
    /\ \E who \in {"handler", "evictor"} : \E o \in OpOf(c, who) :
        /\ o.kind = "shutdown" /\ ~o.done
        /\ ops' = (ops \ {o}) \cup {[o EXCEPT !.done = TRUE]}
        /\ shut' = shut \cup {d \in live : fdOf[d] = o.fd}
    /\ UNCHANGED <<server, loop, accLoop, openFds, live, fdOf, slotOf, freeList, handler,
                   evictor, wheel, silent>>

-----------------------------------------------------------------------------
(* The worker's thread. *)

\* The accept coroutine tests running_ and awaits the next connection.
AwaitAccept == IF running THEN "kernel" ELSE "done"

\* run() drains the boot tasks: the wheel's tick_coro and the accept coroutine
\* begin to wait.
Boot ==
    /\ loop = "boot" /\ loop' = "running"
    /\ accept' = AwaitAccept
    /\ UNCHANGED <<server, acceptFd, objects, coros, buckets, tail, silent>>

\* A new connection: a TcpConnection with its slot, its entry in the newest
\* bucket, and its handler, which runs up to its first suspension or its end.
NewConnection(c, next) ==
    /\ c \notin live /\ ~EntryAlive(c)
    /\ fdOf' = [fdOf EXCEPT ![c] = IF next = "none" THEN None ELSE acceptFd]
    /\ IF next = "none"
       THEN /\ UNCHANGED <<slotOf, freeList, live, ops>>
            /\ openFds' = openFds \ {acceptFd}
       ELSE /\ Acquire(c)
            /\ live' = live \cup {c}
            /\ openFds' = openFds
            /\ ops' = ops \cup {Submitted(c, "handler", next)}
    /\ buckets' = Insert(c)
    /\ silent' = [silent EXCEPT ![c] = 0]
    /\ handler' = [handler EXCEPT ![c] = next]
    /\ UNCHANGED <<evictor, shut>>

AcceptResumes ==
    /\ loop = "running" /\ accept = "cqe"
    /\ \E c \in Conns, next \in Awaits \cup {"none"} : NewConnection(c, next)
    /\ accept' = AwaitAccept
    /\ acceptFd' = None
    /\ UNCHANGED <<server, loop, tail>>

\* Any error ends the accept loop.
AcceptEnds ==
    /\ loop = "running" /\ accept = "failed"
    /\ accept' = "done"
    /\ UNCHANGED <<server, loop, acceptFd, objects, coros, wheel, silent>>

\* The handler is resumed with the completion of its operation o and goes on to
\* its next suspension or its end.
HandlerGoesOn(c, o, next) ==
    /\ handler' = [handler EXCEPT ![c] = next]
    /\ evictor' = evictor
    /\ DropReference(c)
    /\ ops' = (ops \ {o}) \cup
              (IF next = "none" THEN {} ELSE {Submitted(c, "handler", next)})
    /\ UNCHANGED <<server, loop, accLoop, tail>>

\* recv or recv_fixed returns data: the entry is refreshed if it still lives.
RecvData(c) ==
    /\ loop = "running"
    /\ \E o \in OpOf(c, "handler"), next \in Awaits \cup {"none"} :
        o.kind = "recv" /\ HandlerGoesOn(c, o, next)
    /\ silent' = [silent EXCEPT ![c] = 0]
    /\ buckets' = IF EntryAlive(c) THEN Insert(c) ELSE buckets

\* recv gives n <= 0: the peer closed, an error, or the socket was shut down.  The
\* handler leaves its loop.
RecvEnds(c) ==
    /\ loop = "running"
    /\ \E o \in OpOf(c, "handler"), next \in {"submit", "shutdown", "none"} :
        o.kind = "recv" /\ HandlerGoesOn(c, o, next)
    /\ UNCHANGED <<silent, buckets>>

\* send makes progress and sends the rest, or it returns with all sent or (always
\* on a socket that was shut down) with an error.
SendReturns(c) ==
    /\ loop = "running"
    /\ \E o \in OpOf(c, "handler"), next \in Awaits \cup {"none"} :
        /\ o.kind = "send"
        /\ next = "send" => c \notin shut
        /\ HandlerGoesOn(c, o, next)
    /\ UNCHANGED <<silent, buckets>>

\* What the handler awaited beside its socket is there.
SubmitReturns(c) ==
    /\ loop = "running"
    /\ \E o \in OpOf(c, "handler"), next \in Awaits \cup {"none"} :
        o.kind = "submit" /\ HandlerGoesOn(c, o, next)
    /\ UNCHANGED <<silent, buckets>>

\* The handler's own shutdown is done; handlers return after it.
ShutdownDone(c) ==
    /\ loop = "running"
    /\ \E o \in OpOf(c, "handler") : o.done /\ HandlerGoesOn(c, o, "none")
    /\ UNCHANGED <<silent, buckets>>

EvictorResumes(c) ==
    /\ loop = "running"
    /\ \E o \in OpOf(c, "evictor") :
        /\ o.done
        /\ ops' = ops \ {o}
    /\ evictor' = [evictor EXCEPT ![c] = "none"]
    /\ handler' = handler
    /\ DropReference(c)
    /\ UNCHANGED <<server, loop, accLoop, wheel, silent>>

Evict_NoShutdown(E) ==
    /\ evictor' = evictor
    /\ ops' = ops

\* ~IdleEntry of each entry in E: a connection that still exists gets a coroutine
\* that holds it and awaits its shutdown.
Evict(E) ==
    /\ evictor' = [c \in Conns |-> IF c \in E \cap live THEN "shutdown" ELSE evictor[c]]
    /\ ops' = ops \cup {Submitted(c, "evictor", "shutdown") : c \in E \cap live}

\* tick_coro: its timeout is over, the oldest bucket goes, the next wait begins.
TickCoro ==
    /\ loop = "running"
    /\ UNCHANGED <<server, loop, accLoop, objects, handler>>
    /\ Evict(Dying)
    /\ PushBack
    /\ silent' = [c \in Conns |-> IF c \notin live THEN 0
                                 ELSE IF silent[c] < IdleSeconds THEN silent[c] + 1
                                 ELSE IdleSeconds]

\* The posted task: Scheduler::stop, after which run() returns.
LoopStops ==
    /\ loop = "running" /\ stopTask
    /\ stopTask' = FALSE /\ loop' = "ended"
    /\ UNCHANGED <<running, owner, listening, accLoop, objects, coros, wheel, silent>>

-----------------------------------------------------------------------------
(* The thread that owns the server. *)

\* stop(): running_ = false, then the listen socket, then the posted task.
Stop ==
    /\ owner = "idle" /\ running
    /\ owner' = "stopping" /\ running' = FALSE
    /\ UNCHANGED <<listening, stopTask, loop, accLoop, objects, coros, wheel, silent>>

StopListening ==
    /\ owner = "stopping"
    /\ owner' = "posting" /\ listening' = FALSE
    /\ UNCHANGED <<running, stopTask, loop, accLoop, objects, coros, wheel, silent>>

StopPost ==
    /\ owner = "posting"
    /\ owner' = "waiting" /\ stopTask' = TRUE
    /\ UNCHANGED <<running, listening, loop, accLoop, objects, coros, wheel, silent>>

\* wait(): joins the worker's thread.
Wait ==
    /\ owner = "waiting" /\ loop = "ended"
    /\ owner' = "joined"
    /\ UNCHANGED <<running, listening, stopTask, loop, accLoop, objects, coros, wheel, silent>>

\* ~TcpServer after wait(): wheels_ are destroyed before pool_, and with them every
\* entry that is left.
DestroyServer ==
    /\ owner = "joined"
    /\ owner' = "gone"
    /\ UNCHANGED <<running, listening, stopTask, loop, accLoop, objects, handler,
                   tail, silent>>
    /\ Evict({c \in Conns : EntryAlive(c)})
    /\ buckets' = [b \in Buckets |-> {}]

-----------------------------------------------------------------------------
Worker == Boot \/ AcceptResumes \/ AcceptEnds \/ TickCoro \/ LoopStops
Kernel == KernelAccept \/ KernelAcceptFails
Owner  == Stop \/ StopListening \/ StopPost \/ Wait \/ DestroyServer

Next ==
    \/ Kernel \/ Worker \/ Owner
    \/ \E c \in Conns :
        KernelShutdown(c) \/ RecvData(c) \/ RecvEnds(c) \/ SendReturns(c)
            \/ SubmitReturns(c) \/ ShutdownDone(c) \/ EvictorResumes(c)

Spec == Init /\ [][Next]_vars

-----------------------------------------------------------------------------
(* Properties. *)

\* Descriptors and registered slots are neither leaked nor shared: every open
\* descriptor belongs to one connection or is on its way to the accept coroutine,
\* and every slot is free once or belongs to one connection.
ResourcesOwnedOnce ==
    /\ TypeOK
    /\ openFds = {fdOf[c] : c \in live} \cup (IF accept = "cqe" THEN {acceptFd} ELSE {})
    /\ \A c \in live : accept = "cqe" => fdOf[c] # acceptFd
    /\ \A c, d \in live : c # d => fdOf[c] # fdOf[d]
    /\ \A s \in Slots :
        Cardinality({i \in DOMAIN freeList : freeList[i] = s})
            + Cardinality({c \in live : slotOf[c] = s}) = 1

\* What the kernel was asked to do it does to the connection that asked: as long
\* as an operation is under way its connection exists, with the descriptor and the
\* slot that were submitted, so none is closed, returned or reused below it.
OpsOnOwnSocket ==
    \A o \in ops :
        /\ o.conn \in live /\ fdOf[o.conn] = o.fd
        /\ o.slot # None => slotOf[o.conn] = o.slot

\* The wheel never evicts early: a connection that the running wheel shuts down
\* has been silent since before the last IdleSeconds - 1 ticks.
NoEarlyEviction ==
    [][\A c \in Conns :
         loop = "running" /\ evictor[c] = "none" /\ evictor'[c] = "shutdown"
             => silent[c] = IdleSeconds - 1]_vars

\* ... nor late or never: after IdleSeconds silent ticks a connection has lost its
\* entry, and its socket is shut down or being shut down.
IdleIsEvicted ==
    \A c \in live :
        /\ silent[c] = IdleSeconds => ~EntryAlive(c)
        /\ ~EntryAlive(c) => c \in shut \/ \E o \in ops : o.conn = c /\ o.kind = "shutdown"
=============================================================================
