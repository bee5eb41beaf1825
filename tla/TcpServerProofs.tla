--------------------------- MODULE TcpServerProofs ----------------------------
(***************************************************************************)
(* Proofs about TcpServer, for any number of workers, pollers and cores.    *)
(***************************************************************************)
EXTENDS TcpServer, FiniteSetTheorems, TLAPS

T == {"owner", "other"}

\* Where a server under construction, or without a pool, can be.
BuildInv ==
    /\ pc["owner"] = "build" => pool = "null" /\ ~threw
    /\ pc["owner"] = "listen" => pool = "built"
    /\ pool = "null" => \A i \in I : socket[i] = "none"
    /\ running => threw \/ pool # "null" \/ pc["owner"] = "build"
    /\ pool = "gone" => pc["owner"] = "gone"

\* Workers exist only in a started pool; a destructor that found the server running
\* has joined them before it closes anything, and no other thread is in stop() by then.
LifeInv ==
    /\ Alive # {} => pool = "started" /\ (wheels \/ dying = "stopped")
    /\ pc["owner"] \in {"close", "members", "join", "gone"} => dying # "no"
    /\ dying # "no" => pc["owner"] \in {"shut", "post", "wait", "close", "members", "join", "gone"}
    /\ dying # "no" => pc["other"] = "idle"
    /\ dying = "ran" /\ pc["owner"] \in {"close", "members", "join", "gone"} => Alive = {}

\* Past the close() loop of the destructor nothing is open.
CloseInv ==
    pc["owner"] \in {"members", "join", "gone"} => \A i \in I : socket[i] # "open"

\* A stop() that is through has posted to every worker there is or will be, unless it
\* came before there was a pool.
TellInv ==
    /\ ~running /\ ~missed /\ \A t \in T : pc[t] \notin {"shut", "post"}
    /\ pool \in {"built", "started"} \/ pc["owner"] = "build"
    => posted = I

\* The rings are as the constructor of the pool made them.
RingInv ==
    \/ ring = [i \in I |-> [poller |-> None, cpu |-> None]]
    \/ \A i \in I : Granted(ring, i)

Inv == TypeOK /\ BuildInv /\ LifeInv /\ CloseInv /\ TellInv /\ RingInv

-----------------------------------------------------------------------------
\* The invariant holds before start().
LEMMA InitInv == Init => Inv
<1> SUFFICES ASSUME Init PROVE Inv
  OBVIOUS
<1> USE DEF Init, I, None
<1>1. TypeOK BY ServerAssumption DEF TypeOK
<1>2. Alive = {} BY DEF Alive
<1>3. BuildInv BY DEF BuildInv
<1>4. LifeInv /\ CloseInv BY <1>2 DEF LifeInv, CloseInv
<1>5. TellInv BY DEF TellInv
<1>6. RingInv BY DEF RingInv
<1> QED BY <1>1, <1>3, <1>4, <1>5, <1>6 DEF Inv

\* Every step keeps the types.
LEMMA StepType == TypeOK /\ [Next]_vars => TypeOK'
<1> SUFFICES ASSUME TypeOK, [Next]_vars PROVE TypeOK'
  OBVIOUS
<1> USE DEF TypeOK, I, conf, hist
<1>1. CASE StartBegin BY <1>1 DEF StartBegin, At
<1>2. CASE StartThrows BY <1>2 DEF StartThrows
<1>3. CASE BuildPool BY <1>3 DEF BuildPool, At, Rings
<1>4. ASSUME NEW i \in I, Listen(i) PROVE TypeOK' BY <1>4 DEF Listen
<1>5. CASE Launch BY <1>5 DEF Launch, At
<1>6. ASSUME NEW t \in T, StopBegin(t) PROVE TypeOK' BY <1>6 DEF StopBegin, At, T
<1>7. ASSUME NEW t \in T, StopShutdown(t) PROVE TypeOK' BY <1>7 DEF StopShutdown, At, T
<1>8. ASSUME NEW t \in T, StopPost(t) PROVE TypeOK' BY <1>8 DEF StopPost, At, AfterStop, T
<1>9. CASE Wait BY <1>9 DEF Wait, At
<1>10. CASE WaitReturns BY <1>10 DEF WaitReturns, At
<1>11. CASE DestroyServer BY <1>11 DEF DestroyServer
<1>12. CASE CloseFds BY <1>12 DEF CloseFds, At
<1>13. CASE DestroyMembers BY <1>13 DEF DestroyMembers, At
<1>14. CASE PoolGone BY <1>14 DEF PoolGone, At
<1>15. ASSUME NEW i \in I, Worker(i) PROVE TypeOK' BY <1>15 DEF Worker, WorkerRuns, WorkerEnds
<1>16. CASE UNCHANGED vars BY <1>16 DEF vars
<1> QED
  BY <1>1, <1>2, <1>3, <1>4, <1>5, <1>6, <1>7, <1>8, <1>9, <1>10, <1>11, <1>12, <1>13, <1>14,
     <1>15, <1>16 DEF Next, Building, Stopping, Ending, T

\* Every step keeps the rest of the invariant, given the types.
LEMMA StepRest ==
    Inv /\ [Next]_vars => (BuildInv /\ LifeInv /\ CloseInv /\ TellInv)'
<1> SUFFICES ASSUME Inv, [Next]_vars PROVE (BuildInv /\ LifeInv /\ CloseInv /\ TellInv)'
  OBVIOUS
<1>0. TypeOK' BY StepType DEF Inv
<1> USE DEF Inv, TypeOK, BuildInv, LifeInv, CloseInv, TellInv, I, T, Alive, conf, hist
<1>1. CASE StartBegin BY <1>1 DEF StartBegin, At
<1>2. CASE StartThrows BY <1>2 DEF StartThrows
<1>3. CASE BuildPool BY <1>3 DEF BuildPool, At
<1>4. ASSUME NEW i \in I, Listen(i) PROVE (BuildInv /\ LifeInv /\ CloseInv /\ TellInv)'
  BY <1>4 DEF Listen
<1>5. CASE Launch BY <1>5 DEF Launch, At
<1>6. ASSUME NEW t \in T, StopBegin(t) PROVE (BuildInv /\ LifeInv /\ CloseInv /\ TellInv)'
  BY <1>6 DEF StopBegin, At
<1>7. ASSUME NEW t \in T, StopShutdown(t) PROVE (BuildInv /\ LifeInv /\ CloseInv /\ TellInv)'
  BY <1>7 DEF StopShutdown, At
<1>8. ASSUME NEW t \in T, StopPost(t) PROVE (BuildInv /\ LifeInv /\ CloseInv /\ TellInv)'
  BY <1>8 DEF StopPost, At, AfterStop
<1>9. CASE Wait BY <1>9 DEF Wait, At
<1>10. CASE WaitReturns BY <1>10 DEF WaitReturns, At
<1>11. CASE DestroyServer BY <1>11 DEF DestroyServer
<1>12. CASE CloseFds BY <1>12 DEF CloseFds, At
<1>13. CASE DestroyMembers BY <1>13 DEF DestroyMembers, At
<1>14. CASE PoolGone BY <1>14 DEF PoolGone, At
<1>15. ASSUME NEW i \in I, Worker(i) PROVE (BuildInv /\ LifeInv /\ CloseInv /\ TellInv)'
  BY <1>15 DEF Worker, WorkerRuns, WorkerEnds
<1>16. CASE UNCHANGED vars BY <1>16 DEF vars
<1> HIDE DEF Inv, TypeOK, BuildInv, LifeInv, CloseInv, TellInv
<1> QED
  BY <1>1, <1>2, <1>3, <1>4, <1>5, <1>6, <1>7, <1>8, <1>9, <1>10, <1>11, <1>12, <1>13, <1>14,
     <1>15, <1>16 DEF Next, Building, Stopping, Ending

\* The rings are made once.
LEMMA StepRing == Inv /\ [Next]_vars => RingInv'
<1> SUFFICES ASSUME Inv, [Next]_vars PROVE RingInv'
  OBVIOUS
<1>1. CASE BuildPool
  <2>1. n' = n /\ m' = m /\ ring' \in Rings
    BY <1>1 DEF BuildPool, conf
  <2>2. \A i \in I : Granted(ring', i)
    BY <2>1 DEF Rings
  <2>3. \A i \in I' : Granted(ring, i)'
    BY <2>1, <2>2 DEF I, Granted, Leader, GroupSize
  <2> QED BY <2>3 DEF RingInv
<1>2. CASE ring' = ring /\ n' = n /\ m' = m
  BY <1>2 DEF Inv, RingInv, Granted, I, Leader, GroupSize
<1>3. BuildPool \/ (ring' = ring /\ n' = n /\ m' = m)
  BY DEF Next, Building, Stopping, Ending, StartBegin, StartThrows, Listen, Launch, StopBegin,
     StopShutdown, StopPost, Wait, WaitReturns, DestroyServer, CloseFds, DestroyMembers,
     PoolGone, Worker, WorkerRuns, WorkerEnds, vars, conf
<1> QED BY <1>1, <1>2, <1>3

\* Spec keeps the invariant.
LEMMA Invariance == Spec => []Inv
<1>1. Inv /\ [Next]_vars => Inv'
  BY StepType, StepRest, StepRing DEF Inv
<1> QED BY InitInv, <1>1, PTL DEF Spec

-----------------------------------------------------------------------------
(* How many pollers there are. *)

\* Groups have at least one member, and m of them hold all workers.
LEMMA GroupsSuffice ==
    ASSUME TypeOK, m > 0
    PROVE  /\ GroupSize \in Nat /\ GroupSize >= 1
           /\ n <= GroupSize * m
<1>1. n \in Nat /\ m \in Nat /\ n >= 1
  BY ServerAssumption DEF TypeOK
<1>2. GroupSize = (n + m - 1) \div m
  BY DEF GroupSize
<1>3. PICK q \in Int, r \in 0 .. m - 1 : n + m - 1 = q * m + r /\ GroupSize = q
  BY <1>1, <1>2
<1>4. q >= 1
  BY <1>1, <1>3
<1>5. n <= q * m
  BY <1>1, <1>3
<1> QED BY <1>3, <1>4, <1>5

\* A poller is the leader of a group, and the groups are numbered below m.
LEMMA PollerIsLeader ==
    ASSUME TypeOK, NEW i \in I, Granted(ring, i), ring[i].poller # None
    PROVE  /\ m > 0
           /\ ring[i].poller = Leader(i)
           /\ ring[ring[i].poller].poller = ring[i].poller
<1>1. m \in Nat BY ServerAssumption DEF TypeOK
<1>2. m > 0 /\ ring[i].poller = Leader(i) /\ ring[Leader(i)].poller = Leader(i)
  BY <1>1 DEF Granted, None
<1> QED BY <1>2

\* A worker and its leader are in the same group.
LEMMA LeadersDivide ==
    ASSUME TypeOK, m > 0, NEW i \in I
    PROVE  /\ i \div GroupSize \in 0 .. m - 1
           /\ Leader(i) \in I
           /\ Leader(i) \div GroupSize = i \div GroupSize
<1> DEFINE k == GroupSize
<1>1. i \in Nat /\ i < n /\ n \in Nat /\ m \in Nat
  BY ServerAssumption DEF TypeOK, I
<1>2. k \in Nat /\ k >= 1 /\ n <= k * m
  BY GroupsSuffice
<1> HIDE DEF k
<1>3. PICK g \in Int, r \in 0 .. k - 1 : i = g * k + r /\ i \div k = g
  BY <1>1, <1>2
<1>4. g >= 0
  BY <1>1, <1>2, <1>3
<1>5. g < m
  <2>1. SUFFICES ASSUME g >= m PROVE FALSE
    BY <1>1, <1>3
  <2>2. g * k >= m * k
    BY <1>1, <1>2, <1>3, <2>1
  <2> QED BY <1>1, <1>2, <1>3, <2>2
<1>6. g * k <= i /\ g * k >= 0 /\ g * k \in Int
  BY <1>2, <1>3, <1>4
<1>7. (g * k) \div k = g
  BY <1>2, <1>3
<1>8. Leader(i) = g * k
  BY <1>3 DEF Leader, k
<1> QED
  BY <1>1, <1>3, <1>4, <1>5, <1>6, <1>7, <1>8 DEF I, k

\* A poller is its own leader.
LEMMA PollersLead ==
    ASSUME TypeOK, \A i \in I : Granted(ring, i), NEW p \in Pollers
    PROVE  m > 0 /\ p \in I /\ p = (p \div GroupSize) * GroupSize
<1>1. PICK i \in I : p = ring[i].poller /\ p # None
  BY DEF Pollers
<1>2. m > 0 /\ p = Leader(i)
  BY <1>1, PollerIsLeader
<1>3. p \in I /\ p \div GroupSize = i \div GroupSize
  BY <1>2, LeadersDivide
<1> QED BY <1>2, <1>3 DEF Leader

\* No more pollers than sqpoll_threads_: a poller is known by its group's number.
LEMMA FewPollers ==
    ASSUME TypeOK, \A i \in I : Granted(ring, i)
    PROVE  Cardinality(Pollers) <= m
<1>1. m \in Nat
  BY ServerAssumption DEF TypeOK
<1>2. CASE m = 0
  <2>1. Pollers = {} BY <1>2, PollersLead
  <2> QED BY <1>1, <2>1, FS_EmptySet
<1>3. CASE m > 0
  <2> DEFINE f == [p \in Pollers |-> p \div GroupSize]
  <2>1. \A p \in Pollers : f[p] \in 0 .. m - 1
    BY <1>3, PollersLead, LeadersDivide
  <2>2. \A p, q \in Pollers : f[p] = f[q] => p = q
    <3> SUFFICES ASSUME NEW p \in Pollers, NEW q \in Pollers, p \div GroupSize = q \div GroupSize
                 PROVE  p = q
      OBVIOUS
    <3>1. p = (p \div GroupSize) * GroupSize BY PollersLead
    <3>2. q = (q \div GroupSize) * GroupSize BY PollersLead
    <3> QED BY ONLY <3>1, <3>2, p \div GroupSize = q \div GroupSize
  <2>3. f \in Injection(Pollers, 0 .. m - 1)
    BY <2>1, <2>2, Zenon DEF Injection, IsInjective
  <2>4. IsFiniteSet(0 .. m - 1) /\ Cardinality(0 .. m - 1) = m
    BY <1>1, <1>3, FS_Interval
  <2> HIDE DEF f
  <2>5. Cardinality(Pollers) <= Cardinality(0 .. m - 1)
    BY <2>3, <2>4, FS_Injection, Zenon
  <2> QED BY <2>4, <2>5
<1> QED BY <1>1, <1>2, <1>3

\* A core is given to the leader of the group of its number.
LEMMA CpuOfLeader ==
    ASSUME TypeOK, NEW i \in I, Granted(ring, i), ring[i].cpu # None
    PROVE  i = ring[i].cpu * GroupSize
BY DEF Granted, None, Leader

-----------------------------------------------------------------------------
(* The theorems. *)

\* For every number of workers and pollers, and whatever set-ups the kernel refuses:
\* at most sqpoll_threads_ pollers, each serving its leader, no core given twice.
THEOREM FewPollersOwnCores == Spec => []PollersShared
<1>1. Inv => PollersShared
  <2> SUFFICES ASSUME TypeOK, RingInv PROVE PollersShared
    BY DEF Inv
  <2>1. CASE ring = [i \in I |-> [poller |-> None, cpu |-> None]]
    <3>1. Pollers = {} BY <2>1 DEF Pollers
    <3>2. Cardinality(Pollers) <= m BY <3>1, FS_EmptySet DEF TypeOK
    <3> QED BY <2>1, <3>2 DEF PollersShared
  <2>2. CASE \A i \in I : Granted(ring, i)
    <3>1. Cardinality(Pollers) <= m BY <2>2, FewPollers
    <3>2. \A i \in I : ring[i].poller # None => ring[ring[i].poller].poller = ring[i].poller
      BY <2>2, PollerIsLeader
    <3>3. \A i, j \in I : i # j /\ ring[i].cpu # None => ring[i].cpu # ring[j].cpu
      BY <2>2, CpuOfLeader
    <3> QED BY <3>1, <3>2, <3>3 DEF PollersShared
  <2> QED BY <2>1, <2>2 DEF RingInv
<1> QED BY <1>1, Invariance, PTL

\* The destructor leaves no listen socket open, wherever start() threw or stop() came.
THEOREM NoSocketLeft == Spec => []SocketsClosed
<1>1. Inv => SocketsClosed BY DEF Inv, CloseInv, SocketsClosed
<1> QED BY <1>1, Invariance, PTL

\* A stop() that is through has told every worker in a way it cannot forget, unless it
\* found no pool because start() had not made it yet.
THEOREM WorkersTold == Spec => []EveryWorkerTold
<1>1. Inv => EveryWorkerTold BY DEF Inv, TellInv, EveryWorkerTold, Alive, T
<1> QED BY <1>1, Invariance, PTL

\* The types, and no Scheduler, wheel or handler destroyed under a worker that uses it
\* (but for the destructor that came after a stop() nobody waited for).
THEOREM WorkersOutlived == Spec => []OutlivesWorkers
<1>1. Inv => OutlivesWorkers BY DEF Inv, LifeInv, OutlivesWorkers
<1> QED BY <1>1, Invariance, PTL
=============================================================================
