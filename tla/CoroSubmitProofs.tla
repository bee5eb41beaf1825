--------------------------- MODULE CoroSubmitProofs ---------------------------
(***************************************************************************)
(* Proofs about CoroThreadPool and CoroSubmit, for any number of workers,   *)
(* schedulers, jobs and restarts of the pool.  What holds of the pool with  *)
(* arbitrary clients holds of the pool that submit() uses: SubmitSpec       *)
(* implements Spec.                                                         *)
(***************************************************************************)
EXTENDS CoroSubmit, FiniteSetTheorems, SequenceTheorems, TLAPS

\* The life of the threads: they are there between start() and the end of stop(),
\* and leave only after stopping_ was set.
LifeInv ==
    /\ ~started => opc = "idle" /\ \A w \in Workers : wpc[w] = "none"
    /\ started => \A w \in Workers : wpc[w] # "none"
    /\ started /\ stopping => opc # "idle"
    /\ \A w \in Workers : wpc[w] = "exit" => opc # "idle"

\* Queued, with a worker, or done.
Known(j) == Contains(queue, j) \/ j \in Running \/ j \in done

\* Nothing that was enqueued is dropped, and nothing else is there.
KeptInv == \A j \in Jobs : j \in enqueued <=> Known(j)

\* At most one place for each job, index by index.
HeldInv ==
    /\ \A i, k \in 1 .. Len(queue) : queue[i] = queue[k] => i = k
    /\ \A v, w \in Workers : job[v] = job[w] /\ job[v] # Nobody => v = w
    /\ \A i \in 1 .. Len(queue), w \in Workers : job[w] # queue[i]
    /\ \A i \in 1 .. Len(queue) : queue[i] \notin done
    /\ \A w \in Workers : job[w] \notin done

\* Who is about to sleep saw an empty queue, and holds mu_ since.
SleepInv ==
    /\ \A w \in Workers : wpc[w] = "block" => queue = <<>>
    /\ NoForgottenJob

\* During stop() no job it owes is forgotten, and once a worker has left none of them
\* is queued any more.
OwedInv ==
    opc # "idle" =>
        /\ \A j \in owed : Known(j)
        /\ (\E w \in Workers : wpc[w] = "exit") => owed \subseteq Running \cup done

PoolInv == TypeOK /\ LifeInv /\ KeptInv /\ HeldInv /\ SleepInv /\ OwedInv

\* A scheduler goes only when the pool has stopped for good.
SubmitInv ==
    /\ AwaiterAlive
    /\ PostsToLive
    /\ (\E s \in Clients : loop[s] = "gone") => ~started

-----------------------------------------------------------------------------
(* The pool. *)

\* A fresh pool satisfies the invariant.
LEMMA PoolInit == Init => PoolInv
<1> SUFFICES ASSUME Init PROVE PoolInv
  OBVIOUS
<1> USE DEF Init
<1>1. TypeOK
  <2>1. wpc \in [Workers -> WorkerPcs] /\ job \in [Workers -> Jobs \cup {Nobody}]
    BY DEF WorkerPcs
  <2>2. \A w \in Workers : ~(wpc[w] \in {"test", "block"}) /\ mu # w
    BY PoolAssumption
  <2>3. \A w \in Workers : job[w] = Nobody /\ wpc[w] # "run"
    OBVIOUS
  <2>4. queue \in Seq(Jobs) OBVIOUS
  <2> QED BY <2>1, <2>2, <2>3, <2>4 DEF TypeOK
<1>2. LifeInv /\ HeldInv /\ SleepInv /\ OwedInv
  BY <1>1, PoolAssumption DEF LifeInv, HeldInv, SleepInv, OwedInv, NoForgottenJob, Alive
<1>3. KeptInv
  BY <1>1, PoolAssumption DEF KeptInv, Known, Contains, Running
<1> QED BY <1>1, <1>2, <1>3 DEF PoolInv

\* Every step keeps the types, with the scope of mu_.
LEMMA StepType == PoolInv /\ [Next]_vars => TypeOK'
<1> SUFFICES ASSUME PoolInv, [Next]_vars PROVE TypeOK'
  OBVIOUS
<1> USE PoolAssumption
<1> USE DEF PoolInv, TypeOK, WorkerPcs
<1>1. CASE Start
  <2>1. wpc' = [w \in Workers |-> "lock"] /\ UNCHANGED <<queue, mu, job, cpc, opc, done, enqueued, owed>>
    BY <1>1 DEF Start
  <2>2. \A w \in Workers : mu # w /\ job[w] = Nobody
    BY <1>1 DEF Start, LifeInv
  <2>3. wpc' \in [Workers -> WorkerPcs]
    BY <2>1
  <2>4. \A w \in Workers : wpc'[w] = "lock"
    BY <2>1
  <2>5. started' = TRUE /\ stopping' = FALSE /\ starts' = starts + 1
    BY <1>1 DEF Start
  <2>6. started' \in BOOLEAN /\ stopping' \in BOOLEAN
    BY ONLY <2>5
  <2>7. starts' \in Nat
    BY <2>5
  <2> QED BY <2>1, <2>2, <2>3, <2>4, <2>6, <2>7
<1>2. CASE Stop
  BY <1>2 DEF Stop, ToSet, Running
<1>3. CASE StopNotifyAll
  BY <1>3 DEF StopNotifyAll
<1>4. CASE StopReturn
  BY <1>4 DEF StopReturn
<1>5. ASSUME NEW w \in Workers, WorkerLock(w) PROVE TypeOK'
  BY <1>5 DEF WorkerLock
<1>6. ASSUME NEW w \in Workers, WorkerFindsNothing(w) PROVE TypeOK'
  BY <1>6 DEF WorkerFindsNothing
<1>7. ASSUME NEW w \in Workers, WorkerBlock(w) PROVE TypeOK'
  BY <1>7 DEF WorkerBlock
<1>8. ASSUME NEW w \in Workers, WorkerExit(w) PROVE TypeOK'
  BY <1>8 DEF WorkerExit
<1>9. ASSUME NEW w \in Workers, WorkerTake(w) PROVE TypeOK'
  BY <1>9 DEF WorkerTake
<1>10. ASSUME NEW w \in Workers, WorkerRun(w) PROVE TypeOK'
  BY <1>10 DEF WorkerRun
<1>11. ASSUME NEW w \in Workers, SpuriousWake(w) PROVE TypeOK'
  BY <1>11 DEF SpuriousWake
<1>12. ASSUME NEW c \in Clients, NotifyOne(c) PROVE TypeOK'
  BY <1>12 DEF NotifyOne, Sleeping
<1>13. ASSUME NEW c \in Clients, NEW j \in Jobs, Enqueue(c, j) PROVE TypeOK'
  BY <1>13 DEF Enqueue
<1>14. CASE UNCHANGED vars
  BY <1>14 DEF vars
<1> HIDE DEF PoolInv, TypeOK, WorkerPcs
<1> QED
  BY <1>1, <1>2, <1>3, <1>4, <1>5, <1>6, <1>7, <1>8, <1>9, <1>10, <1>11, <1>12, <1>13, <1>14
  DEF Next, StopSteps, Worker

\* Every step keeps the life of the threads.
LEMMA StepLife == PoolInv /\ [Next]_vars => LifeInv'
<1> SUFFICES ASSUME PoolInv, [Next]_vars PROVE LifeInv'
  OBVIOUS
<1> USE PoolAssumption
<1> USE DEF PoolInv, TypeOK, LifeInv, WorkerPcs
<1>1. CASE Start
  BY <1>1 DEF Start
<1>2. CASE Stop
  BY <1>2 DEF Stop
<1>3. CASE StopNotifyAll
  BY <1>3 DEF StopNotifyAll
<1>4. CASE StopReturn
  BY <1>4 DEF StopReturn
<1>5. ASSUME NEW w \in Workers, WorkerLock(w) PROVE LifeInv'
  BY <1>5 DEF WorkerLock
<1>6. ASSUME NEW w \in Workers, WorkerFindsNothing(w) PROVE LifeInv'
  BY <1>6 DEF WorkerFindsNothing
<1>7. ASSUME NEW w \in Workers, WorkerBlock(w) PROVE LifeInv'
  BY <1>7 DEF WorkerBlock
<1>8. ASSUME NEW w \in Workers, WorkerExit(w) PROVE LifeInv'
  BY <1>8 DEF WorkerExit
<1>9. ASSUME NEW w \in Workers, WorkerTake(w) PROVE LifeInv'
  BY <1>9 DEF WorkerTake
<1>10. ASSUME NEW w \in Workers, WorkerRun(w) PROVE LifeInv'
  BY <1>10 DEF WorkerRun
<1>11. ASSUME NEW w \in Workers, SpuriousWake(w) PROVE LifeInv'
  BY <1>11 DEF SpuriousWake
<1>12. ASSUME NEW c \in Clients, NotifyOne(c) PROVE LifeInv'
  BY <1>12 DEF NotifyOne, Sleeping
<1>13. ASSUME NEW c \in Clients, NEW j \in Jobs, Enqueue(c, j) PROVE LifeInv'
  BY <1>13 DEF Enqueue
<1>14. CASE UNCHANGED vars
  BY <1>14 DEF vars
<1> HIDE DEF PoolInv, TypeOK, LifeInv, WorkerPcs
<1> QED
  BY <1>1, <1>2, <1>3, <1>4, <1>5, <1>6, <1>7, <1>8, <1>9, <1>10, <1>11, <1>12, <1>13, <1>14
  DEF Next, StopSteps, Worker

\* A job has one place at a time, whatever step is taken.
LEMMA StepHeld == PoolInv /\ [Next]_vars => HeldInv'
<1> SUFFICES ASSUME PoolInv, [Next]_vars PROVE HeldInv'
  OBVIOUS
<1> USE PoolAssumption
<1> USE DEF PoolInv, TypeOK, HeldInv
<1>1. CASE Start
  BY <1>1 DEF Start
<1>2. CASE Stop
  BY <1>2 DEF Stop
<1>3. CASE StopNotifyAll
  BY <1>3 DEF StopNotifyAll
<1>4. CASE StopReturn
  BY <1>4 DEF StopReturn
<1>5. ASSUME NEW w \in Workers, WorkerLock(w) PROVE HeldInv'
  BY <1>5 DEF WorkerLock
<1>6. ASSUME NEW w \in Workers, WorkerFindsNothing(w) PROVE HeldInv'
  BY <1>6 DEF WorkerFindsNothing
<1>7. ASSUME NEW w \in Workers, WorkerBlock(w) PROVE HeldInv'
  BY <1>7 DEF WorkerBlock
<1>8. ASSUME NEW w \in Workers, WorkerExit(w) PROVE HeldInv'
  BY <1>8 DEF WorkerExit
<1>9. ASSUME NEW w \in Workers, WorkerTake(w) PROVE HeldInv'
  BY <1>9, HeadTailProperties DEF WorkerTake
<1>10. ASSUME NEW w \in Workers, WorkerRun(w) PROVE HeldInv'
  BY <1>10 DEF WorkerRun
<1>11. ASSUME NEW w \in Workers, SpuriousWake(w) PROVE HeldInv'
  BY <1>11 DEF SpuriousWake
<1>12. ASSUME NEW c \in Clients, NotifyOne(c) PROVE HeldInv'
  BY <1>12 DEF NotifyOne
<1>13. ASSUME NEW c \in Clients, NEW j \in Jobs, Enqueue(c, j) PROVE HeldInv'
  BY <1>13, AppendProperties DEF Enqueue, KeptInv, Known, Contains, Running
<1>14. CASE UNCHANGED vars
  BY <1>14 DEF vars
<1> HIDE DEF PoolInv, TypeOK, HeldInv
<1> QED
  BY <1>1, <1>2, <1>3, <1>4, <1>5, <1>6, <1>7, <1>8, <1>9, <1>10, <1>11, <1>12, <1>13, <1>14
  DEF Next, StopSteps, Worker

\* No step puts the last worker to sleep on a job.
LEMMA StepSleep == PoolInv /\ [Next]_vars => SleepInv'
<1> SUFFICES ASSUME PoolInv, [Next]_vars PROVE SleepInv'
  OBVIOUS
<1> USE PoolAssumption
<1> USE DEF PoolInv, TypeOK, SleepInv, NoForgottenJob, Alive, WorkerPcs
<1>1. CASE Start
  BY <1>1 DEF Start
<1>2. CASE Stop
  BY <1>2 DEF Stop
<1>3. CASE StopNotifyAll
  BY <1>3 DEF StopNotifyAll
<1>4. CASE StopReturn
  BY <1>4 DEF StopReturn, LifeInv
<1>5. ASSUME NEW w \in Workers, WorkerLock(w) PROVE SleepInv'
  BY <1>5 DEF WorkerLock
<1>6. ASSUME NEW w \in Workers, WorkerFindsNothing(w) PROVE SleepInv'
  BY <1>6 DEF WorkerFindsNothing
<1>7. ASSUME NEW w \in Workers, WorkerBlock(w) PROVE SleepInv'
  BY <1>7 DEF WorkerBlock
<1>8. ASSUME NEW w \in Workers, WorkerExit(w) PROVE SleepInv'
  BY <1>8 DEF WorkerExit
<1>9. ASSUME NEW w \in Workers, WorkerTake(w) PROVE SleepInv'
  BY <1>9 DEF WorkerTake
<1>10. ASSUME NEW w \in Workers, WorkerRun(w) PROVE SleepInv'
  BY <1>10 DEF WorkerRun
<1>11. ASSUME NEW w \in Workers, SpuriousWake(w) PROVE SleepInv'
  BY <1>11 DEF SpuriousWake
<1>12. ASSUME NEW c \in Clients, NotifyOne(c) PROVE SleepInv'
  BY <1>12 DEF NotifyOne, Sleeping
<1>13. ASSUME NEW c \in Clients, NEW j \in Jobs, Enqueue(c, j) PROVE SleepInv'
  BY <1>13 DEF Enqueue
<1>14. CASE UNCHANGED vars
  BY <1>14 DEF vars
<1> HIDE DEF PoolInv, TypeOK, SleepInv, NoForgottenJob, Alive, WorkerPcs
<1> QED
  BY <1>1, <1>2, <1>3, <1>4, <1>5, <1>6, <1>7, <1>8, <1>9, <1>10, <1>11, <1>12, <1>13, <1>14
  DEF Next, StopSteps, Worker

\* No step drops a job or invents one.
LEMMA StepKept == PoolInv /\ [Next]_vars => KeptInv'
<1> SUFFICES ASSUME PoolInv, [Next]_vars PROVE KeptInv'
  OBVIOUS
<1> USE PoolAssumption
<1> USE DEF PoolInv, TypeOK, KeptInv, Known, Contains, Running
<1>1. CASE Start
  BY <1>1 DEF Start
<1>2. CASE Stop
  BY <1>2 DEF Stop
<1>3. CASE StopNotifyAll
  BY <1>3 DEF StopNotifyAll
<1>4. CASE StopReturn
  BY <1>4 DEF StopReturn
<1>5. ASSUME NEW w \in Workers, WorkerLock(w) PROVE KeptInv'
  BY <1>5 DEF WorkerLock
<1>6. ASSUME NEW w \in Workers, WorkerFindsNothing(w) PROVE KeptInv'
  BY <1>6 DEF WorkerFindsNothing
<1>7. ASSUME NEW w \in Workers, WorkerBlock(w) PROVE KeptInv'
  BY <1>7 DEF WorkerBlock
<1>8. ASSUME NEW w \in Workers, WorkerExit(w) PROVE KeptInv'
  BY <1>8 DEF WorkerExit
<1>9. ASSUME NEW w \in Workers, WorkerTake(w) PROVE KeptInv'
  <2>1. /\ queue # <<>> /\ wpc[w] = "test" /\ wpc' = [wpc EXCEPT ![w] = "run"]
        /\ job' = [job EXCEPT ![w] = Head(queue)] /\ queue' = Tail(queue)
        /\ UNCHANGED <<enqueued, done>>
    BY <1>9 DEF WorkerTake
  <2>2. /\ Head(queue) = queue[1] /\ Len(Tail(queue)) = Len(queue) - 1 /\ Len(queue) \in Nat
        /\ \A i \in 1 .. Len(queue) - 1 : Tail(queue)[i] = queue[i + 1]
    BY <2>1, HeadTailProperties
  <2>3. job[w] = Nobody /\ job'[w] = queue[1] /\ \A v \in Workers \ {w} : job'[v] = job[v]
    BY <2>1, <2>2
  <2>4. queue[1] # Nobody
    BY <2>1
  <2>5. Running' = Running \cup {queue[1]}
    BY <2>3, <2>4
  <2>6. \A i \in 1 .. Len(queue) : i = 1 \/ (i - 1 \in 1 .. Len(queue') /\ queue'[i - 1] = queue[i])
    BY <2>1, <2>2
  <2> HIDE DEF Running
  <2>7. \A k \in Jobs : Known(k)' <=> Known(k)
    <3> SUFFICES ASSUME NEW k \in Jobs PROVE Known(k)' <=> Known(k)
      OBVIOUS
    <3>1. Contains(queue, k) => Known(k)'
      BY <2>2, <2>5, <2>6
    <3>2. Contains(queue', k) \/ k = queue[1] => Contains(queue, k)
      <4>1. \A i \in 1 .. Len(queue') : i + 1 \in 1 .. Len(queue) /\ queue'[i] = queue[i + 1]
        BY <2>1, <2>2
      <4>2. 1 \in 1 .. Len(queue)
        BY <2>1, <2>2
      <4> QED BY <4>1, <4>2
    <3> HIDE DEF Contains
    <3> QED BY <2>1, <2>5, <3>1, <3>2
  <2> HIDE DEF Known
  <2> QED BY <2>1, <2>7
<1>10. ASSUME NEW w \in Workers, WorkerRun(w) PROVE KeptInv'
  BY <1>10 DEF WorkerRun
<1>11. ASSUME NEW w \in Workers, SpuriousWake(w) PROVE KeptInv'
  BY <1>11 DEF SpuriousWake
<1>12. ASSUME NEW c \in Clients, NotifyOne(c) PROVE KeptInv'
  BY <1>12 DEF NotifyOne, Sleeping
<1>13. ASSUME NEW c \in Clients, NEW j \in Jobs, Enqueue(c, j) PROVE KeptInv'
  BY <1>13, AppendProperties DEF Enqueue
<1>14. CASE UNCHANGED vars
  BY <1>14 DEF vars
<1> HIDE DEF PoolInv, TypeOK, KeptInv, Known, Contains, Running
<1> QED
  BY <1>1, <1>2, <1>3, <1>4, <1>5, <1>6, <1>7, <1>8, <1>9, <1>10, <1>11, <1>12, <1>13, <1>14
  DEF Next, StopSteps, Worker

\* No step loses a job that stop() owes.
LEMMA StepOwed == PoolInv /\ [Next]_vars => OwedInv'
<1> SUFFICES ASSUME PoolInv, [Next]_vars PROVE OwedInv'
  OBVIOUS
<1> USE PoolAssumption
<1> USE DEF PoolInv, TypeOK, OwedInv, Known, Contains, Running
<1>1. CASE Start
  BY <1>1 DEF Start, LifeInv
<1>2. CASE Stop
  BY <1>2 DEF Stop, LifeInv, ToSet
<1>3. CASE StopNotifyAll
  BY <1>3 DEF StopNotifyAll
<1>4. CASE StopReturn
  BY <1>4 DEF StopReturn
<1>5. ASSUME NEW w \in Workers, WorkerLock(w) PROVE OwedInv'
  BY <1>5 DEF WorkerLock
<1>6. ASSUME NEW w \in Workers, WorkerFindsNothing(w) PROVE OwedInv'
  BY <1>6 DEF WorkerFindsNothing
<1>7. ASSUME NEW w \in Workers, WorkerBlock(w) PROVE OwedInv'
  BY <1>7 DEF WorkerBlock
<1>8. ASSUME NEW w \in Workers, WorkerExit(w) PROVE OwedInv'
  BY <1>8 DEF WorkerExit
<1>9. ASSUME NEW w \in Workers, WorkerTake(w) PROVE OwedInv'
  <2>1. /\ queue # <<>> /\ wpc[w] = "test" /\ wpc' = [wpc EXCEPT ![w] = "run"]
        /\ job' = [job EXCEPT ![w] = Head(queue)] /\ queue' = Tail(queue)
        /\ UNCHANGED <<opc, owed, done>>
    BY <1>9 DEF WorkerTake
  <2>2. /\ Head(queue) = queue[1] /\ Len(Tail(queue)) = Len(queue) - 1 /\ Len(queue) \in Nat
        /\ \A i \in 1 .. Len(queue) - 1 : Tail(queue)[i] = queue[i + 1]
    BY <2>1, HeadTailProperties
  <2>3. job[w] = Nobody /\ job'[w] = queue[1] /\ \A v \in Workers \ {w} : job'[v] = job[v]
    BY <2>1, <2>2
  <2>4. queue[1] # Nobody
    BY <2>1
  <2>5. Running' = Running \cup {queue[1]}
    BY <2>3, <2>4
  <2>6. \A i \in 1 .. Len(queue) : i = 1 \/ (i - 1 \in 1 .. Len(queue') /\ queue'[i - 1] = queue[i])
    BY <2>1, <2>2
  <2> HIDE DEF Running
  <2>7. \A k \in Jobs : Known(k) => Known(k)'
    <3> SUFFICES ASSUME NEW k \in Jobs, Known(k) PROVE Known(k)'
      OBVIOUS
    <3>1. CASE Contains(queue, k)
      BY <2>2, <2>5, <2>6, <3>1
    <3>2. CASE k \in Running \/ k \in done
      BY <2>1, <2>5, <3>2
    <3> QED BY <3>1, <3>2
  <2> HIDE DEF Known
  <2>8. \A v \in Workers : wpc'[v] = "exit" => wpc[v] = "exit"
    BY <2>1
  <2> QED BY <2>1, <2>5, <2>7, <2>8
<1>10. ASSUME NEW w \in Workers, WorkerRun(w) PROVE OwedInv'
  BY <1>10 DEF WorkerRun
<1>11. ASSUME NEW w \in Workers, SpuriousWake(w) PROVE OwedInv'
  BY <1>11 DEF SpuriousWake
<1>12. ASSUME NEW c \in Clients, NotifyOne(c) PROVE OwedInv'
  BY <1>12 DEF NotifyOne, Sleeping
<1>13. ASSUME NEW c \in Clients, NEW j \in Jobs, Enqueue(c, j) PROVE OwedInv'
  BY <1>13, AppendProperties DEF Enqueue
<1>14. CASE UNCHANGED vars
  BY <1>14 DEF vars
<1> HIDE DEF PoolInv, TypeOK, OwedInv, Known, Contains, Running
<1> QED
  BY <1>1, <1>2, <1>3, <1>4, <1>5, <1>6, <1>7, <1>8, <1>9, <1>10, <1>11, <1>12, <1>13, <1>14
  DEF Next, StopSteps, Worker

\* The pool keeps its invariant, whoever its clients are.
LEMMA PoolInvariance == Spec => []PoolInv
<1>1. PoolInv /\ [Next]_vars => PoolInv'
  BY StepType, StepLife, StepKept, StepHeld, StepSleep, StepOwed DEF PoolInv
<1> QED BY PoolInit, <1>1, PTL DEF Spec

\* The places of a job, counted.
LEMMA HeldOnce == PoolInv => JobHeldOnce
<1> SUFFICES ASSUME PoolInv, NEW j \in Jobs
             PROVE  LET InQueue == {i \in DOMAIN queue : queue[i] = j}
                        With    == {w \in Workers : job[w] = j}
                    IN  Cardinality(InQueue) + Cardinality(With) + (IF j \in done THEN 1 ELSE 0)
                          = IF j \in enqueued THEN 1 ELSE 0
  BY DEF PoolInv, JobHeldOnce
<1> DEFINE InQueue == {i \in DOMAIN queue : queue[i] = j}
           With    == {w \in Workers : job[w] = j}
<1>1. HeldInv /\ KeptInv /\ DOMAIN queue = 1 .. Len(queue) /\ j # Nobody
  BY PoolAssumption DEF PoolInv, TypeOK
<1>2. \A i, k \in InQueue : i = k
  BY <1>1 DEF HeldInv
<1>3. \A v, w \in With : v = w
  BY <1>1 DEF HeldInv
<1>4. InQueue = {} \/ With = {}
  BY <1>1 DEF HeldInv
<1>5. j \in done => InQueue = {} /\ With = {}
  BY <1>1 DEF HeldInv
<1>6. j \in enqueued <=> InQueue # {} \/ With # {} \/ j \in done
  <2>1. Contains(queue, j) <=> InQueue # {}
    BY <1>1 DEF Contains
  <2>2. j \in Running <=> With # {}
    BY <1>1 DEF Running
  <2> QED BY <1>1, <2>1, <2>2 DEF KeptInv, Known
<1> HIDE DEF InQueue, With
<1>7. ASSUME NEW S, \A x, y \in S : x = y
      PROVE  Cardinality(S) = IF S = {} THEN 0 ELSE 1
  <2>1. CASE S = {} BY <2>1, FS_EmptySet
  <2>2. ASSUME NEW x \in S PROVE Cardinality(S) = 1
    <3>1. S = {x} BY <1>7
    <3> QED BY <3>1, FS_Singleton
  <2> QED BY <2>1, <2>2
<1>8. Cardinality(InQueue) = IF InQueue = {} THEN 0 ELSE 1
  BY <1>2, <1>7
<1>9. Cardinality(With) = IF With = {} THEN 0 ELSE 1
  BY <1>3, <1>7
<1>10. Cardinality(InQueue) + Cardinality(With) + (IF j \in done THEN 1 ELSE 0)
         = IF j \in enqueued THEN 1 ELSE 0
  BY ONLY <1>4, <1>5, <1>6, <1>8, <1>9
<1> QED BY <1>10 DEF InQueue, With

\* Every job that was enqueued is in one place: queued, with one worker, or done.  None
\* is dropped or run twice; and the types.
THEOREM JobsHeldOnce == Spec => []JobHeldOnce
BY PoolInvariance, HeldOnce, PTL

\* enqueue() loses no wakeup: with jobs queued, a live pool is not wholly asleep.
THEOREM JobsNotForgotten == Spec => []NoForgottenJob
<1>1. PoolInv => NoForgottenJob BY DEF PoolInv, SleepInv
<1> QED BY PoolInvariance, <1>1, PTL

\* stop() returns only after every job that was queued or running when it was called.
THEOREM StopHasDrained == Spec => StopDrains
<1>1. PoolInv /\ [Next]_vars => [opc = "join" /\ opc' = "idle" => owed \subseteq done]_vars
  <2> SUFFICES ASSUME PoolInv, Next, opc = "join", opc' = "idle" PROVE owed \subseteq done
    OBVIOUS
  <2>1. StopReturn
    BY DEF Next, Start, Stop, StopSteps, StopNotifyAll, Worker, WorkerLock, WorkerFindsNothing,
       WorkerBlock, WorkerExit, WorkerTake, WorkerRun, SpuriousWake, NotifyOne, Enqueue
  <2>2. \E w \in Workers : wpc[w] = "exit"
    BY <2>1, PoolAssumption DEF StopReturn
  <2>3. owed \subseteq Running \cup done
    BY <2>2 DEF PoolInv, OwedInv
  <2>4. Running = {}
    BY <2>1 DEF Running, StopReturn, PoolInv, TypeOK
  <2> QED BY <2>3, <2>4
<1> QED BY PoolInvariance, <1>1, PTL DEF Spec, StopDrains

-----------------------------------------------------------------------------
(* submit(). *)

\* A step of the composition is a step of the pool, or leaves the pool alone.
LEMMA SubmitStep == [SubmitNext]_allVars => [Next]_vars
<1> SUFFICES ASSUME [SubmitNext]_allVars PROVE [Next]_vars
  OBVIOUS
<1>1. CASE \E w \in Workers : SubmitWorker(w)
  BY <1>1 DEF SubmitWorker, PoolStep, Compute, PostBack, Next, Worker
<1>2. CASE \E s \in Clients, j \in Jobs : AwaitSubmit(s, j) \/ ResumeSubmitter(s, j)
  BY <1>2 DEF AwaitSubmit, ResumeSubmitter, Next
<1>3. CASE \E s \in Clients : EndLoop(s) \/ DestroyScheduler(s)
  BY <1>3 DEF EndLoop, DestroyScheduler
<1>4. CASE UNCHANGED allVars
  BY <1>4 DEF allVars
<1> QED BY <1>1, <1>2, <1>3, <1>4 DEF SubmitNext, Next

\* The pool under submit() is the pool: all that is proved of it with arbitrary
\* clients holds of it with coroutines for clients.
THEOREM SubmitImplementsPool == SubmitSpec => Spec
BY SubmitStep, PTL DEF SubmitSpec, SubmitInit, Spec

\* So under submit() too every job is in one place, no wakeup is lost, stop() drains.
COROLLARY SubmitKeepsPool == SubmitSpec => []JobHeldOnce /\ []NoForgottenJob /\ StopDrains
BY SubmitImplementsPool, JobsHeldOnce, JobsNotForgotten, StopHasDrained, PTL

\* Before any submit, the awaiters are fine.
LEMMA SubmitInitInv == SubmitInit => SubmitInv
<1> SUFFICES ASSUME SubmitInit PROVE SubmitInv
  OBVIOUS
<1> USE PoolAssumption DEF SubmitInit, Init
<1>1. SubmitTypeOK BY DEF SubmitTypeOK
<1>2. AwaiterAlive BY <1>1 DEF AwaiterAlive, Contains, Running
<1>3. PostsToLive BY DEF PostsToLive
<1> QED BY <1>2, <1>3 DEF SubmitInv

\* Queued, or with a worker: the job still uses its awaiter.
Held(j) == Contains(queue, j) \/ j \in Running

\* A step of the pool takes no job up that was not in it, and starts none on a
\* stopped pool.
LEMMA PoolTakesNoNewJob ==
    ASSUME PoolInv,
           \/ Start \/ Stop \/ StopSteps
           \/ \E w \in Workers : PoolStep(w) \/ SpuriousWake(w)
           \/ \E c \in Clients : NotifyOne(c)
    PROVE  /\ \A j \in Jobs : Held(j)' => Held(j)
           /\ \A w \in Workers : job'[w] # job[w] => started /\ Held(job'[w]) /\ job'[w] \in Jobs
<1> USE PoolAssumption DEF PoolInv, TypeOK
<1>1. CASE UNCHANGED <<queue, job>>
  BY <1>1 DEF Held, Contains, Running
<1>2. ASSUME NEW w \in Workers, WorkerTake(w)
      PROVE  /\ \A j \in Jobs : Held(j)' => Held(j)
             /\ \A v \in Workers : job'[v] # job[v] =>
                    started /\ Held(job'[v]) /\ job'[v] \in Jobs
  <2>1. /\ queue # <<>> /\ wpc[w] = "test"
        /\ job' = [job EXCEPT ![w] = Head(queue)] /\ queue' = Tail(queue)
    BY <1>2 DEF WorkerTake
  <2>2. /\ Head(queue) = queue[1] /\ Len(Tail(queue)) = Len(queue) - 1 /\ Len(queue) \in Nat
        /\ Len(queue) >= 1
        /\ \A i \in 1 .. Len(queue) - 1 : Tail(queue)[i] = queue[i + 1]
    BY <2>1, HeadTailProperties
  <2>3. Contains(queue, queue[1]) /\ queue[1] \in Jobs
    BY <2>2 DEF Contains
  <2>4. \A j \in Jobs : Contains(queue', j) => Contains(queue, j)
    BY <2>1, <2>2 DEF Contains
  <2>5. \A v \in Workers : job'[v] = job[v] \/ job'[v] = queue[1]
    BY <2>1, <2>2
  <2>6. started
    BY <2>1 DEF LifeInv
  <2> QED BY <2>3, <2>4, <2>5, <2>6 DEF Held, Running
<1>3. UNCHANGED <<queue, job>> \/ \E w \in Workers : WorkerTake(w)
  BY DEF Start, Stop, StopSteps, StopNotifyAll, StopReturn, PoolStep, WorkerLock, WorkerFindsNothing,
     WorkerBlock, WorkerExit, SpuriousWake, NotifyOne
<1> QED BY <1>1, <1>2, <1>3

\* started_ is set by start() alone.
LEMMA StartedByStart == ASSUME Next, ~Start, ~started PROVE ~started'
BY DEF Next, Stop, StopSteps, StopNotifyAll, StopReturn, Worker, WorkerLock, WorkerFindsNothing,
   WorkerBlock, WorkerExit, WorkerTake, WorkerRun, SpuriousWake, NotifyOne, Enqueue

\* Every step keeps the awaiters alive and posts to live schedulers.
LEMMA SubmitStepInv == PoolInv /\ SubmitInv /\ [SubmitNext]_allVars => SubmitInv'
<1> SUFFICES ASSUME PoolInv, SubmitInv, [SubmitNext]_allVars PROVE SubmitInv'
  OBVIOUS
<1> USE PoolAssumption
<1>1. ASSUME UNCHANGED subVars,
             \/ Start /\ \A s \in Clients : loop[s] # "gone"
             \/ Stop \/ StopSteps
             \/ \E w \in Workers : PoolStep(w) \/ SpuriousWake(w)
             \/ \E c \in Clients : NotifyOne(c)
      PROVE  SubmitInv'
  <2>1. /\ \A j \in Jobs : Held(j)' => Held(j)
        /\ \A w \in Workers : job'[w] # job[w] => started /\ Held(job'[w]) /\ job'[w] \in Jobs
    BY <1>1, PoolTakesNoNewJob
  <2>2. AwaiterAlive'
    BY <1>1, <2>1 DEF SubmitInv, AwaiterAlive, SubmitTypeOK, Held, subVars
  <2>3. PostsToLive'
    BY <1>1, <2>1 DEF SubmitInv, PostsToLive, subVars, AwaiterAlive, SubmitTypeOK, Held
  <2>4. Next /\ (~Start \/ \A s \in Clients : loop[s] # "gone")
    BY <1>1 DEF Next, PoolStep, Worker, Start, Stop, StopSteps, StopNotifyAll, StopReturn, WorkerLock,
       WorkerFindsNothing, WorkerBlock, WorkerExit, WorkerTake, SpuriousWake, NotifyOne
  <2>5. (\E s \in Clients : loop[s] = "gone")' => ~started'
    BY <1>1, <2>4, StartedByStart DEF SubmitInv, subVars
  <2> QED BY <2>2, <2>3, <2>5 DEF SubmitInv
<1> USE DEF SubmitInv, AwaiterAlive, SubmitTypeOK, PostsToLive
<1>2. ASSUME NEW w \in Workers, Compute(w) PROVE SubmitInv'
  <2>1. /\ result' = [result EXCEPT ![job[w]] = TRUE]
        /\ UNCHANGED <<queue, started, job, co, src, loop>>
    BY <1>2 DEF Compute, vars
  <2>2. result' \in [Jobs -> BOOLEAN] /\ \A j \in Jobs : result[j] => result'[j]
    BY <2>1
  <2> QED BY <2>1, <2>2 DEF Contains, Running
<1>3. ASSUME NEW w \in Workers, PostBack(w) PROVE SubmitInv'
  <2> DEFINE j == job[w]
  <2>1. /\ result[j] /\ co' = [co EXCEPT ![j] = "posted"] /\ wpc[w] = "run"
        /\ job' = [job EXCEPT ![w] = Nobody]
        /\ UNCHANGED <<queue, started, src, result, loop>>
    BY <1>3 DEF PostBack, WorkerRun
  <2>2. j \in Jobs /\ job \in [Workers -> Jobs \cup {Nobody}]
    BY <2>1 DEF PoolInv, TypeOK
  <2>3. ~Contains(queue, j) /\ \A v \in Workers : job[v] = j => v = w
    BY <2>2 DEF PoolInv, HeldInv, Contains
  <2>4. Running' = Running \ {j}
    BY <2>1, <2>2, <2>3 DEF Running
  <2>5. co[j] = "waiting"
    BY <2>2 DEF Running
  <2> HIDE DEF j
  <2>6. SubmitTypeOK'
    BY <2>1, <2>2, <2>5
  <2>7. AwaiterAlive'
    BY <2>1, <2>2, <2>3, <2>4, <2>6
  <2>8. PostsToLive'
    BY <2>1, <2>2
  <2> QED BY <2>1, <2>7, <2>8
<1>4. ASSUME NEW s \in Clients, NEW j \in Jobs, AwaitSubmit(s, j) PROVE SubmitInv'
  BY <1>4, AppendProperties DEF AwaitSubmit, Enqueue, Contains, Running, PoolInv, TypeOK
<1>5. ASSUME NEW s \in Clients, NEW j \in Jobs, ResumeSubmitter(s, j) PROVE SubmitInv'
  BY <1>5 DEF ResumeSubmitter, vars, Contains, Running
<1>6. ASSUME NEW s \in Clients, EndLoop(s) PROVE SubmitInv'
  BY <1>6 DEF EndLoop, vars, Contains, Running
<1>7. ASSUME NEW s \in Clients, DestroyScheduler(s) PROVE SubmitInv'
  BY <1>7 DEF DestroyScheduler, vars, Contains, Running, PoolInv, TypeOK, LifeInv
<1>8. CASE UNCHANGED allVars
  BY <1>8 DEF allVars, vars, subVars, Contains, Running
<1> HIDE DEF SubmitInv, AwaiterAlive, SubmitTypeOK, PostsToLive
<1> QED
  BY <1>1, <1>2, <1>3, <1>4, <1>5, <1>6, <1>7, <1>8 DEF SubmitNext, SubmitWorker

\* SubmitSpec keeps both invariants.
LEMMA SubmitInvariance == SubmitSpec => []SubmitInv
<1>1. SubmitSpec => []PoolInv
  BY SubmitImplementsPool, PoolInvariance, PTL
<1> QED BY SubmitInitInv, SubmitStepInv, <1>1, PTL DEF SubmitSpec

\* A job uses its awaiter only while the coroutine is suspended in it, and the result
\* is there before the coroutine is posted.
THEOREM AwaitersAlive == SubmitSpec => []AwaiterAlive
<1>1. SubmitInv => AwaiterAlive BY DEF SubmitInv
<1> QED BY SubmitInvariance, <1>1, PTL

\* No worker holds a job that would post to a destroyed scheduler.
THEOREM PostsReachTheLiving == SubmitSpec => []PostsToLive
<1>1. SubmitInv => PostsToLive BY DEF SubmitInv
<1> QED BY SubmitInvariance, <1>1, PTL
=============================================================================
