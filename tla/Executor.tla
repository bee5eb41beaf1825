------------------------------ MODULE Executor -------------------------------
(***************************************************************************)
(* What a scheduler promises its coroutines, with queues, rings and        *)
(* threads left out: each is started once, runs on one thread at a time,   *)
(* and is resumed once for each time it was made runnable.                 *)
(***************************************************************************)
CONSTANT Coros

VARIABLE status

States == {"new", "queued", "running", "waiting", "runnable", "done"}

ExecInit == status = [c \in Coros |-> "new"]

Idle == \A c \in Coros : status[c] # "running"

Move(c, from, to) == status[c] = from /\ status' = [status EXCEPT ![c] = to]

\* A start is asked for by another thread ...
Enqueue(c) == Move(c, "new", "queued")
\* ... and honoured when the scheduler's thread runs nothing else,
StartQueued(c) == Idle /\ Move(c, "queued", "running")
\* or made by running code, as an ordinary call.
StartNested(c) == Move(c, "new", "running")

Suspend(c) == Move(c, "running", "waiting")
MakeRunnable(c) == Move(c, "waiting", "runnable")
ResumeOne(c) == Idle /\ Move(c, "runnable", "running")
End(c) == Move(c, "running", "done")

ExecNext ==
    \E c \in Coros :
        \/ Enqueue(c) \/ StartQueued(c) \/ StartNested(c)
        \/ Suspend(c) \/ MakeRunnable(c) \/ ResumeOne(c) \/ End(c)

ExecSpec == ExecInit /\ [][ExecNext]_status
=============================================================================
