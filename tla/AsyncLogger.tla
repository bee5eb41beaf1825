----------------------------- MODULE AsyncLogger ------------------------------
(***************************************************************************)
(* coro_net::AsyncLogger: threads append log lines to current_ under        *)
(* mutex_; the backend thread swaps the filled buffers out and writes them. *)
(* init, shutdown, flush_and_stop (LOG_FATAL) and the destructor start and  *)
(* stop the backend.                                                        *)
(*                                                                          *)
(* A critical section of mutex_ is one step.  cond_.wait_for has no         *)
(* predicate and a timeout, so the backend may leave it at any time: a      *)
(* notify adds no behaviour.  A buffer is the sequence of lines it holds;   *)
(* an empty one that waits to be used is just there or not.  The file is    *)
(* LogSink's on a healthy file system: what a faulty one loses is LogFile's *)
(* matter.                                                                  *)
(***************************************************************************)
EXTENDS Integers, Sequences, SequencesExt

CONSTANTS
    Threads,     \* threads that log, start and stop the logger
    Lines,       \* log lines, each logged at most once
    BufferLines, \* lines that fit into a LargeBuffer
    Backlog,     \* 25: buffers written in one round before some are dropped
    MaxStarts,   \* bound: how often init() starts the backend
    Racy,        \* whether threads may log or stop while a stop is going on
    Null         \* a unique_ptr that was moved from

ASSUME LoggerAssumption ==
    /\ BufferLines \in Nat \ {0}
    /\ Backlog \in Nat /\ Backlog >= 2
    /\ MaxStarts \in Nat
    /\ Racy \in BOOLEAN

VARIABLES
    current,     \* current_: the lines in it, or Null
    next,        \* next_ is not null
    buffers,     \* buffers_
    started,     \* started_
    running,     \* running_
    terminating, \* terminating_
    tpc,         \* per thread: where in append or a stop it is
    line,        \* per thread: the line it appends
    bpc,         \* the backend thread
    newBuf1,     \* thread_func: new_buf1 is not null
    newBuf2,     \* thread_func: new_buf2 is not null
    toWrite,     \* thread_func: buffers_to_write
    file,        \* the lines given to LogFile::append, in order
    disk,        \* the lines flushed to disk, in order
    errs,        \* lines that went to stderr
    accepted,    \* history: lines appended to a buffer, in order
    dropped,     \* history: lines dropped by the backpressure limit
    owed,        \* history: lines accepted when the running stop was called
    starts       \* how often the backend was started

flags   == <<started, running, terminating>>
backend == <<bpc, newBuf1, newBuf2, toWrite, file, disk, dropped>>
vars    == <<current, next, buffers, started, running, terminating, tpc, line, bpc,
             newBuf1, newBuf2, toWrite, file, disk, errs, accepted, dropped, owed, starts>>

Buffers == UNION {[1 .. n -> Lines] : n \in 0 .. BufferLines}

\* A null pointer is no buffer, and no line.
ASSUME NullAssumption == Null \notin Lines \cup Buffers

BackendPcs == {"off", "top", "lock", "wait", "write", "recycle", "final", "drain"}

\* A thread that waits in thread_.join(), by who called it.
Stops == {"join", "fatalJoin", "exitJoin"}

\* Types, with the bound every buffer respects.
TypeOK ==
    /\ current \in Buffers \cup {Null} /\ next \in BOOLEAN
    /\ buffers \in Seq(Buffers) /\ toWrite \in Seq(Buffers)
    /\ started \in BOOLEAN /\ running \in BOOLEAN /\ terminating \in BOOLEAN
    /\ tpc \in [Threads -> {"idle", "append", "crashed", "aborted"} \cup Stops]
    /\ line \in [Threads -> Lines \cup {Null}]
    /\ bpc \in BackendPcs \cup {"ended"}
    /\ newBuf1 \in BOOLEAN /\ newBuf2 \in BOOLEAN
    /\ file \in Seq(Lines) /\ disk \in Seq(Lines) /\ accepted \in Seq(Lines)
    /\ errs \subseteq Lines /\ dropped \subseteq Lines /\ owed \subseteq Lines
    /\ starts \in 0 .. MaxStarts

Init ==
    /\ current = Null /\ next = FALSE /\ buffers = <<>>
    /\ started = FALSE /\ running = FALSE /\ terminating = FALSE
    /\ tpc = [t \in Threads |-> "idle"] /\ line = [t \in Threads |-> Null]
    /\ bpc = "off" /\ newBuf1 = FALSE /\ newBuf2 = FALSE /\ toWrite = <<>>
    /\ file = <<>> /\ disk = <<>> /\ errs = {}
    /\ accepted = <<>> /\ dropped = {} /\ owed = {} /\ starts = 0

-----------------------------------------------------------------------------
(* The program around the logger. *)

Stopping == \E t \in Threads : tpc[t] \in Stops

\* The process has ended: by abort(), or by a null pointer dereference.
Halted == \E t \in Threads : tpc[t] \in {"crashed", "aborted"}

\* Without races, a program logs and stops at different times.
MayLog(t)  == tpc[t] = "idle" /\ ~Halted /\ (Racy \/ ~Stopping)
MayStop(t) == tpc[t] = "idle" /\ ~Halted /\ (Racy \/ \A u \in Threads : tpc[u] = "idle")

Logged == errs \cup ToSet(accepted) \cup {line[t] : t \in Threads}

\* init(), with start_locked; nobody calls it after the destructor.
InitLogger(t) ==
    /\ MayStop(t) /\ ~started /\ ~terminating /\ starts < MaxStarts
    /\ current' = <<>> /\ next' = TRUE
    /\ running' = TRUE /\ started' = TRUE
    /\ bpc' = "top" /\ newBuf1' = TRUE /\ newBuf2' = TRUE
    /\ starts' = starts + 1
    /\ UNCHANGED <<buffers, terminating, tpc, line, toWrite, file, disk, errs, accepted,
                   dropped, owed>>

\* append(), up to the lock: without a backend the line goes to stderr.
AppendBegin(t, l) ==
    /\ MayLog(t) /\ l \notin Logged
    /\ IF terminating \/ ~started
       THEN errs' = errs \cup {l} /\ UNCHANGED <<tpc, line>>
       ELSE /\ tpc' = [tpc EXCEPT ![t] = "append"]
            /\ line' = [line EXCEPT ![t] = l]
            /\ UNCHANGED errs
    /\ UNCHANGED <<current, next, buffers, flags, backend, accepted, owed, starts>>

AppendLocked_LoseFull(t) ==
    /\ tpc[t] = "append" /\ ~Halted
    /\ accepted' = Append(accepted, line[t])
    /\ tpc' = [tpc EXCEPT ![t] = "idle"]
    /\ IF Len(current) < BufferLines
       THEN current' = Append(current, line[t]) /\ UNCHANGED <<buffers, next>>
       ELSE current' = <<line[t]>> /\ next' = FALSE /\ UNCHANGED buffers
    /\ line' = [line EXCEPT ![t] = Null]
    /\ UNCHANGED <<flags, backend, errs, owed, starts>>

\* append(), under the lock: a full buffer is queued and next_, or a new one,
\* takes its place.  current_ is dereferenced without a test.
AppendLocked(t) ==
    /\ tpc[t] = "append" /\ ~Halted
    /\ line' = [line EXCEPT ![t] = Null]
    /\ IF current = Null
       THEN /\ tpc' = [tpc EXCEPT ![t] = "crashed"]
            /\ UNCHANGED <<current, next, buffers, accepted>>
       ELSE /\ tpc' = [tpc EXCEPT ![t] = "idle"]
            /\ accepted' = Append(accepted, line[t])
            /\ IF Len(current) < BufferLines
               THEN current' = Append(current, line[t]) /\ UNCHANGED <<buffers, next>>
               ELSE /\ buffers' = Append(buffers, current)
                    /\ current' = <<line[t]>> /\ next' = FALSE
    /\ UNCHANGED <<flags, backend, errs, owed, starts>>

\* What the three ways to stop share: running_ is cleared, then the caller joins.
StopAs(t, pc) ==
    /\ running' = FALSE
    /\ tpc' = [tpc EXCEPT ![t] = pc]
    /\ owed' = IF Stopping THEN owed ELSE ToSet(accepted)
    /\ UNCHANGED <<current, next, buffers, started, line, backend, errs, accepted, starts>>

\* shutdown(): only the caller that clears running_ joins.
Shutdown(t) ==
    /\ MayStop(t) /\ running
    /\ StopAs(t, "join") /\ UNCHANGED terminating

\* flush_and_stop(), called by ~Logger of a LOG_FATAL line before abort().
FlushAndStop(t) ==
    /\ MayStop(t) /\ started
    /\ StopAs(t, "fatalJoin") /\ UNCHANGED terminating

\* ~AsyncLogger, at process exit.
Destroy(t) ==
    /\ MayStop(t) /\ ~terminating
    /\ terminating' = TRUE
    /\ IF started
       THEN StopAs(t, "exitJoin")
       ELSE UNCHANGED <<current, next, buffers, started, running, tpc, line, backend, errs,
                        accepted, owed, starts>>

\* thread_.join() returns; after flush_and_stop the process aborts, and the
\* destructor leaves started_ as it is.
Joined(t) ==
    /\ tpc[t] \in Stops /\ bpc \in {"ended", "off"} /\ ~Halted
    /\ tpc' = [tpc EXCEPT ![t] = IF @ = "fatalJoin" THEN "aborted" ELSE "idle"]
    /\ bpc' = "off"
    /\ started' = IF tpc[t] = "exitJoin" THEN started ELSE FALSE
    /\ UNCHANGED <<current, next, buffers, running, terminating, line, newBuf1, newBuf2,
                   toWrite, file, disk, errs, accepted, dropped, owed, starts>>

-----------------------------------------------------------------------------
(* The backend: thread_func. *)

LoopTop ==
    /\ bpc = "top"
    /\ bpc' = IF running THEN "lock" ELSE "final"
    /\ UNCHANGED <<current, next, buffers, flags, tpc, line, newBuf1, newBuf2, toWrite,
                   file, disk, errs, accepted, dropped, owed, starts>>

\* Both critical sections of a round end like this: current_ is queued as well,
\* the spare buffers replace what was taken.
SwapOut ==
    /\ toWrite' = Append(buffers, current) /\ buffers' = <<>>
    /\ current' = IF newBuf1 THEN <<>> ELSE Null
    /\ newBuf1' = FALSE
    /\ next' = (next \/ newBuf2) /\ newBuf2' = (next /\ newBuf2)
    /\ bpc' = "write"
    /\ UNCHANGED <<flags, tpc, line, file, disk, errs, accepted, dropped, owed, starts>>

\* "if (buffers_.empty()) cond_.wait_for(lk, flush_interval_)"
LockAndTest ==
    /\ bpc = "lock"
    /\ \/ buffers # <<>> /\ SwapOut
       \/ /\ buffers = <<>> /\ bpc' = "wait"
          /\ UNCHANGED <<current, next, buffers, flags, tpc, line, newBuf1, newBuf2,
                         toWrite, file, disk, errs, accepted, dropped, owed, starts>>

WaitEnds_OnlyFull ==
    /\ bpc = "wait"
    /\ \/ buffers # <<>> /\ SwapOut
       \/ /\ buffers = <<>> /\ bpc' = "top"
          /\ UNCHANGED <<current, next, buffers, flags, tpc, line, newBuf1, newBuf2,
                         toWrite, file, disk, errs, accepted, dropped, owed, starts>>

\* Notified, timed out or woken spuriously.
WaitEnds == bpc = "wait" /\ SwapOut

\* Over the limit all but the first two buffers are dropped; the rest is
\* written.  The line that reports the drop is left out.
WriteOut ==
    /\ bpc = "write"
    /\ LET over == Len(toWrite) > Backlog
           kept == IF over THEN SubSeq(toWrite, 1, 2) ELSE toWrite
       IN  /\ toWrite' = kept
           /\ file' = file \o FlattenSeq(kept)
           /\ dropped' = dropped \cup (ToSet(FlattenSeq(toWrite)) \ ToSet(FlattenSeq(kept)))
    /\ bpc' = "recycle"
    /\ UNCHANGED <<current, next, buffers, flags, tpc, line, newBuf1, newBuf2, disk, errs,
                   accepted, owed, starts>>

Recycle_First ==
    /\ bpc = "recycle"
    /\ newBuf1' = TRUE
    /\ toWrite' = <<>>
    /\ disk' = file
    /\ bpc' = "top"
    /\ UNCHANGED <<current, next, buffers, flags, tpc, line, newBuf2, file, errs, accepted,
                   dropped, owed, starts>>

\* The written buffers become the new spares, the file is flushed.
Recycle ==
    /\ bpc = "recycle"
    /\ LET spare == Len(toWrite) - (IF newBuf1 THEN 0 ELSE 1)
       IN  newBuf2' = (newBuf2 \/ spare > 0)
    /\ newBuf1' = TRUE
    /\ toWrite' = <<>>
    /\ disk' = file
    /\ bpc' = "top"
    /\ UNCHANGED <<current, next, buffers, flags, tpc, line, file, errs, accepted, dropped,
                   owed, starts>>

FinalLock_Skip ==
    /\ bpc = "final"
    /\ bpc' = "drain"
    /\ UNCHANGED <<current, next, buffers, flags, tpc, line, newBuf1, newBuf2, toWrite, file,
                   disk, errs, accepted, dropped, owed, starts>>

\* After the loop, under the lock: a current_ with lines in it is moved away.
FinalLock ==
    /\ bpc = "final"
    /\ IF current \notin {Null, <<>>}
       THEN buffers' = Append(buffers, current) /\ current' = Null
       ELSE UNCHANGED <<buffers, current>>
    /\ bpc' = "drain"
    /\ UNCHANGED <<next, flags, tpc, line, newBuf1, newBuf2, toWrite, file, disk, errs,
                   accepted, dropped, owed, starts>>

\* Without the lock: the rest is written and flushed, the thread ends.
FinalDrain ==
    /\ bpc = "drain"
    /\ file' = file \o FlattenSeq(buffers)
    /\ disk' = file'
    /\ buffers' = <<>>
    /\ bpc' = "ended"
    /\ UNCHANGED <<current, next, flags, tpc, line, newBuf1, newBuf2, toWrite, errs,
                   accepted, dropped, owed, starts>>

-----------------------------------------------------------------------------
Backend == LoopTop \/ LockAndTest \/ WaitEnds \/ WriteOut \/ Recycle \/ FinalLock \/ FinalDrain

Next ==
    \/ ~Halted /\ Backend
    \/ \E t \in Threads :
         \/ InitLogger(t) \/ AppendLocked(t)
         \/ Shutdown(t) \/ FlushAndStop(t) \/ Destroy(t) \/ Joined(t)
    \/ \E t \in Threads, l \in Lines : AppendBegin(t, l)

Spec == Init /\ [][Next]_vars

\* The backend is scheduled, and wait_for times out after flush_interval_.
FairSpec == Spec /\ WF_vars(~Halted /\ Backend)

-----------------------------------------------------------------------------
(* Properties. *)

\* The lines given to the file, those the backend is about to write, those queued
\* and those in current_, in this order.
Pipeline ==
    LET Pending == IF bpc = "write" THEN FlattenSeq(toWrite) ELSE <<>>
        InFront == IF current = Null THEN <<>> ELSE current
    IN  file \o Pending \o FlattenSeq(buffers) \o InFront

\* No line is lost, duplicated or reordered on its way through the buffers: in the
\* file, with the backend, in the queue and in current_ are together exactly the
\* accepted lines that the backpressure limit did not drop, each once and in the
\* order in which they were accepted.
NoLineLost ==
    /\ ToSet(Pipeline) = ToSet(accepted) \ dropped
    /\ \A i, j \in 1 .. Len(Pipeline) :
          i < j => \E m, n \in 1 .. Len(accepted) :
                      m < n /\ accepted[m] = Pipeline[i] /\ accepted[n] = Pipeline[j]

\* The double buffering never runs out: when the backend starts a round it has
\* both spares, and while it is in the loop current_ is never null, so no round
\* queues a null buffer or takes back() of an empty vector.
SparesAtTop ==
    /\ TypeOK
    /\ bpc \in {"top", "lock", "wait"} => newBuf1 /\ newBuf2
    /\ bpc \in BackendPcs \ {"off", "drain"} => current # Null
    /\ bpc = "recycle" => toWrite # <<>>

\* Stopping flushes: when shutdown(), flush_and_stop() or the destructor returns,
\* every line accepted before it was called is on disk, or was dropped by the
\* backpressure limit.
StopFlushes ==
    [][\A t \in Threads : tpc[t] \in Stops /\ tpc'[t] \notin Stops =>
          owed \subseteq ToSet(disk) \cup dropped]_vars

\* A line given to a running backend reaches the disk without further lines or a
\* stop, or is dropped by the limit.
LineReachesDisk ==
    \A l \in Lines :
        (bpc \in BackendPcs \ {"off"} /\ Contains(accepted, l))
            ~> (Contains(disk, l) \/ l \in dropped)

\* append() may be called by any thread at any time: it never dereferences the
\* null current_ that a stopping backend leaves behind.
AppendIsSafe == \A t \in Threads : tpc[t] # "crashed"
=============================================================================
