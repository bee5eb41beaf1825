------------------------------ MODULE CoroSubmit ------------------------------
(***************************************************************************)
(* CoroThreadPool::submit composed with the pool: coroutines on several     *)
(* schedulers hand jobs to the pool and are posted back.  The clients of    *)
(* the pool are the schedulers' threads; job j is the SubmitAwaiter in the  *)
(* frame of coroutine j, which suspends until the job's lambda has written  *)
(* result_ and posted handle_.                                              *)
(*                                                                          *)
(* Of a scheduler only what Scheduler's own runs and proofs show is used: a *)
(* posted handle is resumed once, by the loop of that scheduler, while the  *)
(* loop runs.  The program is taken to destroy its schedulers after the     *)
(* pool's stop() has returned, and not to start the pool afterwards.        *)
(***************************************************************************)
EXTENDS CoroThreadPool

VARIABLES
    co,        \* coroutine j: before its submit, suspended, posted, resumed
    src,       \* the awaiter's src_sched_
    result,    \* the awaiter's result_ is set, to a value or an exception
    loop       \* each scheduler: its loop runs, has ended, the object is destroyed

subVars == <<co, src, result, loop>>
allVars == <<vars, subVars>>

\* Types; an awaiter knows its scheduler from its suspension on.
SubmitTypeOK ==
    /\ co \in [Jobs -> {"new", "waiting", "posted", "done"}]
    /\ src \in [Jobs -> Clients \cup {Nobody}]
    /\ result \in [Jobs -> BOOLEAN]
    /\ loop \in [Clients -> {"runs", "ended", "gone"}]
    /\ \A j \in Jobs : (co[j] = "new") <=> (src[j] = Nobody)

SubmitInit ==
    /\ Init
    /\ co = [j \in Jobs |-> "new"] /\ src = [j \in Jobs |-> Nobody]
    /\ result = [j \in Jobs |-> FALSE] /\ loop = [s \in Clients |-> "runs"]

-----------------------------------------------------------------------------
\* await_suspend, in a coroutine that the loop of s runs.
AwaitSubmit(s, j) ==
    /\ loop[s] = "runs" /\ co[j] = "new"
    /\ Enqueue(s, j)
    /\ co' = [co EXCEPT ![j] = "waiting"] /\ src' = [src EXCEPT ![j] = s]
    /\ UNCHANGED <<result, loop>>

\* The job's lambda: fn_() returns or throws, and result_ is set.
Compute(w) ==
    /\ wpc[w] = "run" /\ ~result[job[w]]
    /\ result' = [result EXCEPT ![job[w]] = TRUE]
    /\ UNCHANGED <<vars, co, src, loop>>

PostBack_KeepJob(w) ==
    /\ wpc[w] = "run" /\ result[job[w]]
    /\ co' = [co EXCEPT ![job[w]] = "posted"]
    /\ UNCHANGED <<vars, src, result, loop>>

PostBack_Drop(w) == WorkerRun(w) /\ result[job[w]] /\ UNCHANGED subVars

\* ... then src_sched_->post(handle_), and the worker is done with the awaiter.
PostBack(w) ==
    /\ WorkerRun(w) /\ result[job[w]]
    /\ co' = [co EXCEPT ![job[w]] = "posted"]
    /\ UNCHANGED <<src, result, loop>>

\* drain_cross_queue and the resume; await_resume returns the value or rethrows.
ResumeSubmitter(s, j) ==
    /\ loop[s] = "runs" /\ cpc[s] = "idle"
    /\ co[j] = "posted" /\ src[j] = s
    /\ co' = [co EXCEPT ![j] = "done"]
    /\ UNCHANGED <<vars, src, result, loop>>

EndLoop(s) ==
    /\ loop[s] = "runs" /\ cpc[s] = "idle"
    /\ loop' = [loop EXCEPT ![s] = "ended"]
    /\ UNCHANGED <<vars, co, src, result>>

DestroyScheduler(s) ==
    /\ loop[s] = "ended" /\ opc = "idle" /\ ~started
    /\ loop' = [loop EXCEPT ![s] = "gone"]
    /\ UNCHANGED <<vars, co, src, result>>

-----------------------------------------------------------------------------
PoolStep(w) ==
    \/ WorkerLock(w) \/ WorkerFindsNothing(w) \/ WorkerBlock(w)
    \/ WorkerExit(w) \/ WorkerTake(w)

SubmitWorker(w) == (PoolStep(w) /\ UNCHANGED subVars) \/ Compute(w) \/ PostBack(w)

SubmitNext ==
    \/ Start /\ (\A s \in Clients : loop[s] # "gone") /\ UNCHANGED subVars
    \/ Stop /\ UNCHANGED subVars
    \/ StopSteps /\ UNCHANGED subVars
    \/ \E w \in Workers : SubmitWorker(w) \/ (SpuriousWake(w) /\ UNCHANGED subVars)
    \/ \E s \in Clients :
        \/ NotifyOne(s) /\ UNCHANGED subVars
        \/ EndLoop(s) \/ DestroyScheduler(s)
        \/ \E j \in Jobs : AwaitSubmit(s, j) \/ ResumeSubmitter(s, j)

\* As in the pool; and a loop that runs resumes what was posted to it.
SubmitFairness ==
    /\ \A w \in Workers : WF_allVars(SubmitWorker(w))
    /\ \A s \in Clients : WF_allVars(NotifyOne(s) /\ UNCHANGED subVars)
    /\ \A s \in Clients, j \in Jobs : WF_allVars(ResumeSubmitter(s, j))
    /\ WF_allVars(StopSteps /\ UNCHANGED subVars)

SubmitSpec == SubmitInit /\ [][SubmitNext]_allVars /\ SubmitFairness

-----------------------------------------------------------------------------
(* Properties. *)

\* What the comment on thread safety needs: as long as a job is queued or with a
\* worker its coroutine is suspended, so the awaiter that both use exists and has
\* one user; after the post no worker returns to it, and before the post the result
\* is there to be taken.
AwaiterAlive ==
    /\ SubmitTypeOK
    /\ \A j \in Jobs :
        /\ Contains(queue, j) \/ j \in Running => co[j] = "waiting"
        /\ co[j] \in {"posted", "done"} => result[j]

\* Once stop() has returned, schedulers may be destroyed: no worker still has a job
\* that will post to one of them, also when stop() raced with submits.
PostsToLive ==
    \A w \in Workers : job[w] # Nobody => loop[src[job[w]]] # "gone"

\* A submit is answered, on its own scheduler, also when the job throws or stop()
\* comes in between: unless no worker was left to see it, or its loop ended.
Answered ==
    \A j \in Jobs, s \in Clients :
        (co[j] = "waiting" /\ src[j] = s /\ \E w \in Workers : Alive(w)) ~>
            (co[j] = "done" \/ loop[s] # "runs")
=============================================================================
