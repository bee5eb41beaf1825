--------------------------------- MODULE Task ---------------------------------
(***************************************************************************)
(* The coroutine frames of one thread: Task<T>, its promise and awaiters,   *)
(* FireAndForget, and the shim with which Scheduler::spawn starts a Task.   *)
(*                                                                          *)
(* Control is the point: who destroys which frame, who is resumed next, and *)
(* what is left on the thread's stack.  The stack holds the coroutine       *)
(* bodies that execute, the innermost last; a symmetric transfer replaces   *)
(* the last one, an ordinary call (spawn) adds one.  Bodies are arbitrary,  *)
(* within what every coroutine of the library does: a body awaits and       *)
(* destroys only Tasks it holds.  Values and the kinds of I/O are left out. *)
(***************************************************************************)
EXTENDS Integers, Sequences, SequencesExt

CONSTANTS
    Frames,  \* room for coroutine frames; a freed one is used again
    Loop,    \* the code outside every coroutine: the event loop, or main()
    Noop     \* std::noop_coroutine()

ASSUME TaskAssumption == Loop \notin Frames /\ Noop \notin Frames

VARIABLES
    frame,   \* the frames, with their promises
    stack,   \* the coroutine bodies on the thread's stack
    pending, \* handles the kernel or a queue holds, to be resumed by the loop
    aborted  \* log_fire_and_forget_uncaught() was called

vars == <<frame, stack, pending, aborted>>

Results == {"none", "value", "exception"}

\* st: created and not started, running, waiting for a Task, waiting for the loop,
\* suspended at the end; owner: whose Task object holds the handle; throws: the
\* exception await_resume rethrew is on its way through the body.
Free == [st |-> "free", shim |-> FALSE, cont |-> Noop, owner |-> Loop,
         result |-> "none", throws |-> FALSE]

New(a) == [Free EXCEPT !.st = "start", !.owner = a]

\* Types; a frame has a result exactly when its body has ended.
TypeOK ==
    /\ frame \in [Frames ->
           [st : {"free", "start", "run", "wait", "io", "final"}, shim : BOOLEAN,
            cont : Frames \cup {Noop}, owner : Frames \cup {Loop}, result : Results,
            throws : BOOLEAN]]
    /\ stack \in Seq(Frames) /\ pending \subseteq Frames /\ aborted \in BOOLEAN
    /\ \A f \in Frames : (frame[f].result # "none") <=> (frame[f].st = "final")

Init ==
    /\ frame = [f \in Frames |-> Free]
    /\ stack = <<>> /\ pending = {} /\ aborted = FALSE

\* What the code outside coroutines, or the body of f, executes now.
OnTop(f)  == ~aborted /\ stack # <<>> /\ Last(stack) = f
Acts(a)   == ~aborted /\ IF a = Loop THEN stack = <<>>
                         ELSE OnTop(a) /\ ~frame[a].shim /\ ~frame[a].throws
Transfer(f) == Append(Front(stack), f)
Held(a)   == {c \in Frames : frame[c].st # "free" /\ frame[c].owner = a}

In(st) == {f \in Frames : frame[f].st = st}
Begun  == In("run") \cup In("wait") \cup In("io")

\* The Tasks a may destroy or give away; main() first checks done().
Disposable(a) == IF a = Loop THEN Held(Loop) \ Begun ELSE Held(a)

-----------------------------------------------------------------------------
(* Task<T>. *)

\* Calling a coroutine function: initial_suspend suspends, get_return_object wraps.
Create(a) ==
    /\ Acts(a)
    /\ \E c \in Frames : /\ frame[c].st = "free"
                         /\ frame' = [frame EXCEPT ![c] = New(a)]
    /\ UNCHANGED <<stack, pending, aborted>>

\* ~Task, or a move assignment over it.
DestroyTask(a, c) ==
    /\ Acts(a) /\ c \in Disposable(a)
    /\ frame' = [frame EXCEPT ![c] = Free]
    /\ UNCHANGED <<stack, pending, aborted>>

\* await_resume: takes the value, or throws the exception again.
Rethrows(r) == r = "exception"

\* await_ready: a Task that has ended is not awaited; await_resume gives its result.
AwaitReady(f, c) ==
    /\ f # Loop /\ Acts(f) /\ c \in Held(f) /\ frame[c].st = "final"
    /\ frame' = [frame EXCEPT ![f].throws = Rethrows(frame[c].result)]
    /\ UNCHANGED <<stack, pending, aborted>>

AwaitSuspend_NoContinuation(f, c) ==
    /\ f # Loop /\ Acts(f) /\ c \in Held(f) /\ frame[c].st # "final"
    /\ frame' = [frame EXCEPT ![f].st = "wait", ![c].st = "run"]
    /\ stack' = Transfer(c)
    /\ UNCHANGED <<pending, aborted>>

AwaitSuspend_Resume(f, c) ==
    /\ f # Loop /\ Acts(f) /\ c \in Held(f) /\ frame[c].st # "final"
    /\ frame' = [frame EXCEPT ![f].st = "wait", ![c].st = "run", ![c].cont = f]
    /\ stack' = Append(stack, c)
    /\ UNCHANGED <<pending, aborted>>

\* await_suspend: the caller is the continuation, and the Task's body goes on.
AwaitSuspend(f, c) ==
    /\ f # Loop /\ Acts(f) /\ c \in Held(f) /\ frame[c].st # "final"
    /\ frame' = [frame EXCEPT ![f].st = "wait", ![c].st = "run", ![c].cont = f]
    /\ stack' = Transfer(c)
    /\ UNCHANGED <<pending, aborted>>

\* The body of f ends with r: its local Tasks are destroyed, the promise keeps r.
Ended(f, r) ==
    [g \in Frames |-> IF g \in Held(f) THEN Free
                      ELSE IF g = f
                      THEN [frame[f] EXCEPT !.st = "final", !.result = r, !.throws = FALSE]
                      ELSE frame[g]]

\* co_return, or an exception that leaves the body; then FinalAwaiter transfers to
\* the continuation, whose await_resume takes the result or rethrows.
Finish(f, r) ==
    /\ OnTop(f) /\ ~frame[f].shim
    /\ frame[f].throws => r = "exception"
    /\ LET k == frame[f].cont
       IN  IF k = Noop
           THEN frame' = Ended(f, r) /\ stack' = Front(stack)
           ELSE /\ frame' = [Ended(f, r) EXCEPT ![k].st = "run",
                                                ![k].throws = Rethrows(r)]
                /\ stack' = Transfer(k)
    /\ UNCHANGED <<pending, aborted>>

\* The body handles the exception.
Catch(f) ==
    /\ OnTop(f) /\ ~frame[f].shim /\ frame[f].throws
    /\ frame' = [frame EXCEPT ![f].throws = FALSE]
    /\ UNCHANGED <<stack, pending, aborted>>

-----------------------------------------------------------------------------
(* The loop and I/O awaiters. *)

\* main() starts a Task it holds: handle().resume().
ResumeTask(c) ==
    /\ Acts(Loop) /\ c \in Held(Loop) /\ frame[c].st = "start"
    /\ frame' = [frame EXCEPT ![c].st = "run"] /\ stack' = <<c>>
    /\ UNCHANGED <<pending, aborted>>

\* co_await of an I/O operation, a sleep, a submit: return to the last resume() or call.
Suspend(f) ==
    /\ f # Loop /\ Acts(f)
    /\ frame' = [frame EXCEPT ![f].st = "io"]
    /\ pending' = pending \cup {f} /\ stack' = Front(stack)
    /\ UNCHANGED aborted

Resume(f) ==
    /\ Acts(Loop) /\ f \in pending
    /\ frame' = [frame EXCEPT ![f].st = "run"]
    /\ pending' = pending \ {f} /\ stack' = <<f>>
    /\ UNCHANGED aborted

-----------------------------------------------------------------------------
(* Scheduler::spawn. *)

Spawn_ByReference(a, c) ==
    /\ Acts(a) /\ c \in Disposable(a) /\ frame[c].st # "final"
    /\ \E s \in Frames :
        /\ frame[s].st = "free"
        /\ frame' = [frame EXCEPT ![s] = [Free EXCEPT !.shim = TRUE, !.owner = s, !.st = "wait"],
                                  ![c].st = "run", ![c].cont = s]
    /\ stack' = Append(stack, c)
    /\ UNCHANGED <<pending, aborted>>

\* The shim starts at once, inside the caller, and awaits the Task moved into it:
\* one that has ended is not waited for.
Spawn(a, c) ==
    /\ Acts(a) /\ c \in Disposable(a)
    /\ \E s \in Frames :
        LET shim == [Free EXCEPT !.shim = TRUE, !.owner = s]
        IN  /\ frame[s].st = "free"
            /\ \/ /\ frame[c].st # "final"
                  /\ frame' = [frame EXCEPT ![s] = [shim EXCEPT !.st = "wait"],
                                            ![c].owner = s, ![c].st = "run", ![c].cont = s]
                  /\ stack' = Append(stack, c)
               \/ /\ frame[c].st = "final"
                  /\ frame' = [frame EXCEPT ![c].owner = s,
                                            ![s] = [shim EXCEPT !.st = "run",
                                                !.throws = Rethrows(frame[c].result)]]
                  /\ stack' = Append(stack, s)
    /\ UNCHANGED <<pending, aborted>>

ShimEnd_SuspendAlways(s) ==
    /\ OnTop(s) /\ frame[s].shim
    /\ frame' = [frame EXCEPT ![s].st = "final", ![s].result = "value"]
    /\ stack' = Front(stack)
    /\ UNCHANGED <<pending, aborted>>

\* The shim's frame, and with it the Task, is freed: final_suspend never suspends;
\* an exception has nowhere to go.
ShimEnd(s) ==
    /\ OnTop(s) /\ frame[s].shim
    /\ \/ frame[s].throws /\ aborted' = TRUE /\ UNCHANGED <<frame, stack>>
       \/ /\ ~frame[s].throws /\ UNCHANGED aborted
          /\ frame' = [f \in Frames |-> IF f \in Held(s) THEN Free ELSE frame[f]]
          /\ stack' = Front(stack)
    /\ UNCHANGED pending

-----------------------------------------------------------------------------
Next ==
    \/ \E a \in Frames \cup {Loop} :
        \/ Create(a)
        \/ \E c \in Frames : DestroyTask(a, c) \/ Spawn(a, c)
    \/ \E f \in Frames :
        \/ Catch(f) \/ ResumeTask(f) \/ Suspend(f) \/ Resume(f) \/ ShimEnd(f)
        \/ \E r \in {"value", "exception"} : Finish(f, r)
        \/ \E c \in Frames : AwaitReady(f, c) \/ AwaitSuspend(f, c)

Spec == Init /\ [][Next]_vars

-----------------------------------------------------------------------------
(* Properties. *)

\* No handle outlives its frame or its suspension: what the loop will resume is
\* suspended in an I/O await, and what a begun Task will transfer to waits for it
\* and for nothing else.
HandlesLive ==
    /\ TypeOK
    /\ pending = In("io")
    /\ \A c \in Begun : frame[c].cont = Noop \/ frame[c].cont \in In("wait")
    /\ \A c, d \in Begun : c # d /\ frame[c].cont = frame[d].cont => frame[c].cont = Noop

\* No coroutine waits in vain: whatever set of coroutines waits, some begun Task
\* outside the set will transfer to one of them (nobody is forgotten, and no ring
\* of coroutines waits for its own members).
AwaitersServed ==
    \A S \in SUBSET In("wait") :
        S # {} => \E c \in Begun \ S : frame[c].cont \in S

\* No frame leaks, whether bodies return or throw and whether their Tasks were
\* awaited, dropped or spawned: once nothing runs and the loop holds no handle, the
\* only frames left are those of Tasks that the code outside still holds.
FramesFreed ==
    stack = <<>> /\ pending = {} =>
        \A f \in Frames \ In("free") :
            frame[f].owner = Loop /\ frame[f].st \in {"start", "final"}

\* Symmetric transfer keeps the stack flat: a coroutine that waits, or has ended,
\* occupies none of it, however deep Tasks await each other.
StackFlat ==
    /\ IsInjective(stack)
    /\ ToSet(stack) = In("run")
=============================================================================
