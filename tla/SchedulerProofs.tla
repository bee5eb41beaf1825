--------------------------- MODULE SchedulerProofs ---------------------------
(***************************************************************************)
(* Proofs about Scheduler, for any number of coroutines and threads, any   *)
(* ring size, batch size and number of runs.                               *)
(***************************************************************************)
EXTENDS Scheduler, SequenceTheorems, FiniteSetTheorems, WellFoundedInduction, TLAPS

\* Something will make the loop look at its queues again: a thread about to write
\* the eventfd, a readable eventfd, or its completion in the CQ.
Coming ==
    \/ \E t \in Threads : wakePc[t] = "write"
    \/ signalled
    \/ Holds(cq, Wake)

\* Code runs only in the body phase; a timer callback runs while its own CQE is
\* the one being handled.
BodyInv ==
    pc = "body" =>
        /\ stack # <<>>
        /\ Holds(stack, TimerRd) =>
              caller = "cqe" /\ cqDone < cqBatch /\ cq[cqDone + 1] = TimerRd

\* The completion of the eventfd read is still to be handled.
WakeInCq == \E k \in (cqDone + 1) .. Len(cq) : cq[k] = Wake

\* The read of the eventfd is somewhere, unless its rearm found the SQ full.
WakeArmed ==
    pc \in LoopPcs =>
        \/ Wake \in dropped
        \/ sq[Wake] > 0
        \/ inflight[Wake] > 0
        \/ WakeInCq

\* A blocked loop has submitted everything.
SubmittedInv == pc = "wait" => sq[Wake] = 0

\* Local work is finished before the loop goes on to block.
LocalInv ==
    /\ tTmp # <<>> => pc \in {"tasks", "crashed"} \/ (pc = "body" /\ caller = "tasks")
    /\ ready # <<>> => pc \notin {"check", "submit", "wait"}

\* Work that arrives after the drain, or a stop after the check, is announced.
SignalInv ==
    /\ CrossWork /\ pc \in LoopPcs \ {"top", "drain"} => Coming
    /\ stopping /\ pc \in {"submit", "wait"} => Coming

Inv == TypeOK /\ BodyInv /\ WakeArmed /\ SubmittedInv /\ LocalInv /\ SignalInv

-----------------------------------------------------------------------------
(* The operators the actions are built from. *)

\* The watchers' reads, the NOP of stop() and coroutine I/O are what the ring carries.
LEMMA OpsMember == Wake \in Ops /\ TimerRd \in Ops /\ Nop \in Ops /\ Coros \subseteq Ops
BY DEF Ops

\* No coroutine is mistaken for a watcher, the NOP of stop() or a stop task.
LEMMA Distinct ==
    /\ Wake # TimerRd /\ Wake # Nop /\ TimerRd # Nop
    /\ Wake \notin Coros /\ TimerRd \notin Coros /\ Nop \notin Coros
    /\ StopTask \notin Coros
BY ConstantsAssumption DEF Wake, TimerRd, Nop, StopTask

\* What posting a watcher's read does to the SQ.
LEMMA RearmProperties ==
    ASSUME NEW s \in [Ops -> Nat], NEW o \in Ops
    PROVE  /\ Rearm(s, o) \in [Ops -> Nat]
           /\ DroppedBy(s, o) \in SUBSET {o}
           /\ \A x \in Ops : Rearm(s, o)[x] >= s[x]
           /\ o \in DroppedBy(s, o) \/ Rearm(s, o)[o] > 0
BY DEF Rearm, DroppedBy

\* Submitting loses no operation.
LEMMA SubmittedProperties ==
    ASSUME TypeOK
    PROVE  /\ Submitted \in [Ops -> Nat]
           /\ EmptySq \in [Ops -> Nat]
           /\ \A o \in Ops : Submitted[o] = inflight[o] + sq[o]
           /\ \A o \in Ops : EmptySq[o] = 0
BY DEF TypeOK, RingTypeOK, Submitted, EmptySq

\* stop() on the loop thread keeps the watcher's read where it was, or hands it
\* to the kernel.
LEMMA StopHereProperties ==
    ASSUME TypeOK, StopHere
    PROVE  /\ sq' \in [Ops -> Nat] /\ inflight' \in [Ops -> Nat]
           /\ stopping' \in BOOLEAN
           /\ dropped' \in SUBSET {Wake, TimerRd, Nop} /\ dropped \subseteq dropped'
           /\ sq[Wake] > 0 \/ inflight[Wake] > 0 => sq'[Wake] > 0 \/ inflight'[Wake] > 0
<1>1. CASE stopping
  BY <1>1, OpsMember DEF TypeOK, RingTypeOK, ThreadTypeOK, StopHere
<1>2. CASE ~stopping
  <2>0. dropped' \in SUBSET {Wake, TimerRd, Nop} /\ dropped \subseteq dropped'
    BY <1>2 DEF TypeOK, RingTypeOK, StopHere, DroppedBy
  <2>1. CASE HasSqe(sq)
    <3>1. /\ inflight' = [Submitted EXCEPT ![Nop] = @ + 1]
          /\ sq' = EmptySq
          /\ stopping' = TRUE
      BY <1>2, <2>1 DEF StopHere
    <3>2. /\ Submitted \in [Ops -> Nat] /\ EmptySq \in [Ops -> Nat]
          /\ Submitted[Wake] = inflight[Wake] + sq[Wake]
      BY SubmittedProperties, OpsMember
    <3>3. inflight' \in [Ops -> Nat] /\ inflight'[Wake] = Submitted[Wake]
      BY <3>1, <3>2, OpsMember, Distinct
    <3>4. sq[Wake] \in Nat /\ inflight[Wake] \in Nat
      BY OpsMember DEF TypeOK, RingTypeOK
    <3>5. QED
      BY <2>0, <3>1, <3>2, <3>3, <3>4
  <2>2. CASE ~HasSqe(sq)
    BY <1>2, <2>0, <2>2, OpsMember DEF TypeOK, RingTypeOK, ThreadTypeOK, StopHere
  <2>3. QED BY <2>1, <2>2
<1>3. QED BY <1>1, <1>2

-----------------------------------------------------------------------------
(* Sequences. *)

\* Popping a queue or returning from a call adds nothing to it.
LEMMA TailProperties ==
    ASSUME NEW S, NEW s \in Seq(S), s # <<>>
    PROVE  /\ Head(s) \in S /\ Tail(s) \in Seq(S)
           /\ \A x : Holds(Tail(s), x) => Holds(s, x)
<1>1. Head(s) \in S /\ Tail(s) \in Seq(S)
  BY HeadTailProperties
<1>2. Len(Tail(s)) = Len(s) - 1 /\ \A i \in 1 .. Len(Tail(s)) : Tail(s)[i] = s[i + 1]
  BY HeadTailProperties
<1>3. DOMAIN s = 1 .. Len(s) /\ DOMAIN Tail(s) = 1 .. Len(Tail(s)) /\ Len(s) \in Nat
  BY <1>1, LenProperties
<1>4. ASSUME NEW x, Holds(Tail(s), x) PROVE Holds(s, x)
  <2>1. PICK i \in 1 .. Len(Tail(s)) : Tail(s)[i] = x
    BY <1>3, <1>4 DEF Holds
  <2>2. i + 1 \in 1 .. Len(s) /\ s[i + 1] = x
    BY <1>2, <1>3, <2>1
  <2>3. QED BY <1>3, <2>2 DEF Holds
<1>5. QED BY <1>1, <1>4

\* Queueing keeps what was queued: a CQE stays in the CQ when another arrives.
LEMMA AppendHolds ==
    ASSUME NEW S, NEW s \in Seq(S), NEW e \in S
    PROVE  /\ Append(s, e) \in Seq(S)
           /\ Len(Append(s, e)) = Len(s) + 1
           /\ \A i \in 1 .. Len(s) : Append(s, e)[i] = s[i]
           /\ Append(s, e)[Len(s) + 1] = e
           /\ Holds(Append(s, e), e)
           /\ \A x : Holds(s, x) => Holds(Append(s, e), x)
<1>1. /\ Append(s, e) \in Seq(S)
      /\ Len(Append(s, e)) = Len(s) + 1
      /\ \A i \in 1 .. Len(s) : Append(s, e)[i] = s[i]
      /\ Append(s, e)[Len(s) + 1] = e
  BY AppendProperties
<1>2. /\ DOMAIN s = 1 .. Len(s) /\ Len(s) \in Nat
      /\ DOMAIN Append(s, e) = 1 .. Len(s) + 1
  BY <1>1, LenProperties
<1>3. QED BY <1>1, <1>2 DEF Holds

\* A call pushes its callee: nothing else changes on the stack.
LEMMA ConsHolds ==
    ASSUME NEW S, NEW s \in Seq(S), NEW e \in S
    PROVE  /\ <<e>> \o s \in Seq(S) /\ <<e>> \o s # <<>>
           /\ \A x : x # e /\ Holds(<<e>> \o s, x) => Holds(s, x)
<1>1. /\ <<e>> \o s \in Seq(S) /\ Len(<<e>> \o s) = Len(s) + 1 /\ Len(s) \in Nat
      /\ \A i \in 1 .. Len(s) + 1 : (<<e>> \o s)[i] = IF i = 1 THEN e ELSE s[i - 1]
  OBVIOUS
<1>2. DOMAIN s = 1 .. Len(s) /\ DOMAIN (<<e>> \o s) = 1 .. Len(s) + 1
  BY <1>1, LenProperties
<1>3. ASSUME NEW x, x # e, Holds(<<e>> \o s, x) PROVE Holds(s, x)
  <2>1. PICK i \in 1 .. Len(s) + 1 : (<<e>> \o s)[i] = x
    BY <1>2, <1>3 DEF Holds
  <2>2. i - 1 \in 1 .. Len(s) /\ s[i - 1] = x
    BY <1>1, <1>3, <2>1
  <2>3. QED BY <1>2, <2>2 DEF Holds
<1>4. <<e>> \o s # <<>>
  BY <1>1
<1>5. QED BY <1>1, <1>3, <1>4

\* cq_advance(n) drops the first n CQEs and keeps the others in order.
LEMMA AdvanceProperties ==
    ASSUME NEW S, NEW s \in Seq(S), NEW n \in 0 .. Len(s)
    PROVE  /\ SubSeq(s, n + 1, Len(s)) \in Seq(S)
           /\ Len(SubSeq(s, n + 1, Len(s))) = Len(s) - n
           /\ \A i \in 1 .. Len(s) - n : SubSeq(s, n + 1, Len(s))[i] = s[n + i]
OBVIOUS

\* Coroutine c alone on the stack.
LEMMA SingletonStack ==
    ASSUME NEW c \in Coros
    PROVE  /\ <<c>> \in Seq(Coros \cup {TimerRd}) /\ <<c>> # <<>>
           /\ ~Holds(<<c>>, TimerRd)
BY Distinct DEF Holds

-----------------------------------------------------------------------------
(* The invariant is inductive. *)

\* A scheduler that has not run satisfies the invariant.
LEMMA InitInv == ASSUME Init PROVE Inv
<1>1. ThreadTypeOK
  <2>1. stopping \in BOOLEAN /\ pc \in {"idle"} /\ caller \in Phases
    BY Zenon DEF Init, Phases
  <2>2. QED BY <2>1 DEF Init, ThreadTypeOK
<1>2. RingTypeOK
  <2>1. sq \in [Ops -> Nat] /\ inflight \in [Ops -> Nat] /\ signalled \in BOOLEAN
    BY DEF Init
  <2>2. cq \in Seq(Ops) /\ cqBatch \in 0 .. Len(cq) /\ cqDone \in 0 .. cqBatch
    BY DEF Init
  <2>3. QED BY <2>1, <2>2 DEF RingTypeOK, Init
<1>3. BodyInv /\ WakeArmed /\ SubmittedInv /\ LocalInv /\ SignalInv
  BY DEF Init, BodyInv, WakeArmed, SubmittedInv, LocalInv, SignalInv, CrossWork, LoopPcs,
         Phases
<1>4. QED BY <1>1, <1>2, <1>3 DEF Inv, TypeOK

\* Every step of the loop, of another thread or of the kernel preserves it.
LEMMA NextInv == ASSUME Inv, Next PROVE Inv'
<1> USE OpsMember, Distinct DEF Inv, TypeOK, ring, cross
<1>1. ASSUME Run PROVE Inv'
  <2> DEFINE armed == Rearm(sq, Wake)
  <2>1. /\ armed \in [Ops -> Nat] /\ DroppedBy(sq, Wake) \subseteq {Wake}
        /\ Wake \in DroppedBy(sq, Wake) \/ armed[Wake] > 0
    BY RearmProperties DEF RingTypeOK
  <2>2. /\ Rearm(armed, TimerRd) \in [Ops -> Nat]
        /\ DroppedBy(armed, TimerRd) \subseteq {TimerRd}
        /\ Rearm(armed, TimerRd)[Wake] >= armed[Wake]
    BY <2>1, RearmProperties
  <2>3. /\ sq' = Rearm(armed, TimerRd)
        /\ dropped' = dropped \cup DroppedBy(sq, Wake) \cup DroppedBy(armed, TimerRd)
    BY <1>1 DEF Run
  <2>4. Wake \in dropped' \/ sq'[Wake] > 0
    BY <2>1, <2>2, <2>3
  <2>5. /\ /\ pc \in {"idle", "exited"}
        /\ pc' = "top"
        /\ stopping' = FALSE
        /\ runs' = runs + 1
        /\ UNCHANGED <<crossHandles, crossTasks, tTmp, ready, stack, caller, co, ext, wakePc>>
    BY <1>1 DEF Run
  <2>6. UNCHANGED <<inflight, cq, cqBatch, cqDone, signalled>>
    BY <1>1 DEF Run
  <2> HIDE DEF armed
  <2>7. ThreadTypeOK'
    <3>1. stopping' \in BOOLEAN /\ pc' \in LoopPcs
      BY <2>5, Zenon DEF LoopPcs
    <3>2. runs' \in Nat
      BY <2>5, SMT DEF ThreadTypeOK
    <3>3. QED BY <2>5, <3>1, <3>2 DEF ThreadTypeOK
  <2>8. RingTypeOK'
    BY <2>1, <2>2, <2>3, <2>6 DEF RingTypeOK
  <2>9. BodyInv' /\ WakeArmed' /\ SubmittedInv' /\ LocalInv' /\ SignalInv'
    BY <2>4, <2>5 DEF BodyInv, WakeArmed, SubmittedInv, LocalInv, SignalInv
  <2> QED BY <2>7, <2>8, <2>9
<1>2. ASSUME LoopTop PROVE Inv'
  BY <1>2
    DEF LoopTop, ThreadTypeOK, LoopPcs, Phases, Dead, Tasks, RingTypeOK, BodyInv, Holds,
        WakeArmed, WakeInCq, SubmittedInv, LocalInv, SignalInv, Coming, CrossWork
<1>3. ASSUME DrainCrossQueue PROVE Inv'
  <2>1. ThreadTypeOK' /\ RingTypeOK'
    BY <1>3 DEF DrainCrossQueue, ThreadTypeOK, LoopPcs, Phases, Dead, Tasks, RingTypeOK
  <2>2. BodyInv' /\ WakeArmed' /\ SubmittedInv' /\ LocalInv' /\ SignalInv'
    BY <1>3
      DEF DrainCrossQueue, ThreadTypeOK, RingTypeOK, BodyInv, Holds, LoopPcs, Phases,
          Dead, WakeArmed, WakeInCq, SubmittedInv, LocalInv, Tasks, SignalInv, Coming,
          CrossWork
  <2> QED BY <2>1, <2>2
<1>4. ASSUME RunTask PROVE Inv'
  <2>1. Head(tTmp) \in Tasks /\ Tail(tTmp) \in Seq(Tasks)
    BY <1>4, TailProperties DEF ThreadTypeOK, RunTask
  <2>2. /\ sq' \in [Ops -> Nat] /\ inflight' \in [Ops -> Nat] /\ stopping' \in BOOLEAN
        /\ dropped' \in SUBSET {Wake, TimerRd, Nop} /\ dropped \subseteq dropped'
        /\ sq[Wake] > 0 \/ inflight[Wake] > 0 => sq'[Wake] > 0 \/ inflight'[Wake] > 0
    <3>1. CASE Head(tTmp) = StopTask
      BY <1>4, <3>1, StopHereProperties DEF RunTask
    <3>2. CASE Head(tTmp) # StopTask
      BY <1>4, <3>2 DEF RunTask, RingTypeOK, ThreadTypeOK
    <3>3. QED BY <3>1, <3>2
  <2>3. \/ stack' = stack /\ pc' = "tasks" /\ caller' = caller /\ co' = co
        \/ /\ Head(tTmp) \in Coros
           /\ stack' = <<Head(tTmp)>> /\ pc' = "body" /\ caller' = "tasks"
           /\ co' = [co EXCEPT ![Head(tTmp)] = "live"]
    BY <1>4, <2>1 DEF RunTask, Enter, Tasks
  <2>4. /\ pc = "tasks" /\ tTmp' = Tail(tTmp)
        /\ UNCHANGED <<cross, ready, cq, cqBatch, cqDone, ext, signalled, runs>>
    BY <1>4 DEF RunTask
  <2>5. ThreadTypeOK' /\ RingTypeOK'
    BY <2>1, <2>2, <2>3, <2>4, SingletonStack
      DEF ThreadTypeOK, RingTypeOK, LoopPcs, Phases
  <2>6. BodyInv' /\ LocalInv'
    BY <2>3, <2>4, SingletonStack DEF BodyInv, LocalInv
  <2>7. WakeArmed' /\ SubmittedInv'
    BY <2>2, <2>3, <2>4 DEF WakeArmed, WakeInCq, SubmittedInv, LoopPcs, Phases
  <2>8. SignalInv'
    BY <2>3, <2>4 DEF SignalInv, Coming, CrossWork, LoopPcs, Phases
  <2> QED BY <2>5, <2>6, <2>7, <2>8
<1>5. ASSUME TasksDone PROVE Inv'
  BY <1>5
    DEF TasksDone, ThreadTypeOK, LoopPcs, Phases, Dead, Tasks, RingTypeOK, BodyInv,
        Holds, WakeArmed, WakeInCq, SubmittedInv, LocalInv, SignalInv, Coming, CrossWork
<1>6. ASSUME Resume PROVE Inv'
  <2>1. Head(ready) \in Coros /\ Tail(ready) \in Seq(Coros)
    BY <1>6, TailProperties DEF ThreadTypeOK, Resume
  <2>2. \/ stack' = stack /\ caller' = caller /\ pc' = pc
        \/ stack' = <<Head(ready)>> /\ pc' = "body" /\ caller' = "ready"
    BY <1>6 DEF Resume, Enter
  <2>3. /\ pc = "ready" /\ ready' = Tail(ready)
        /\ UNCHANGED <<stopping, cross, tTmp, ring, co, ext, signalled, dropped, runs>>
    BY <1>6 DEF Resume
  <2>4. ThreadTypeOK' /\ RingTypeOK'
    BY <2>1, <2>2, <2>3, SingletonStack DEF ThreadTypeOK, RingTypeOK, LoopPcs, Phases
  <2>5. BodyInv' /\ LocalInv'
    BY <2>1, <2>2, <2>3, SingletonStack DEF BodyInv, LocalInv
  <2>6. WakeArmed' /\ SubmittedInv'
    BY <2>2, <2>3 DEF WakeArmed, WakeInCq, SubmittedInv, LoopPcs, Phases
  <2>7. SignalInv'
    BY <2>2, <2>3 DEF SignalInv, Coming, CrossWork, LoopPcs, Phases
  <2> QED BY <2>4, <2>5, <2>6, <2>7
<1>7. ASSUME ReadyDone PROVE Inv'
  BY <1>7
    DEF ReadyDone, ThreadTypeOK, LoopPcs, Phases, Dead, Tasks, RingTypeOK, BodyInv,
        Holds, WakeArmed, WakeInCq, SubmittedInv, LocalInv, SignalInv, Coming, CrossWork
<1>8. ASSUME CheckStopping PROVE Inv'
  BY <1>8
    DEF CheckStopping, ThreadTypeOK, LoopPcs, Phases, Dead, Tasks, RingTypeOK, BodyInv,
        Holds, WakeArmed, WakeInCq, SubmittedInv, LocalInv, SignalInv, Coming, CrossWork
<1>9. ASSUME SubmitAndWait PROVE Inv'
  <2>1. sq[Wake] \in Nat /\ inflight[Wake] \in Nat
    BY DEF RingTypeOK
  <2>2. /\ Submitted \in [Ops -> Nat]
        /\ EmptySq \in [Ops -> Nat]
        /\ Submitted[Wake] = inflight[Wake] + sq[Wake]
        /\ EmptySq[Wake] = 0
    BY SubmittedProperties
  <2>3. ThreadTypeOK' /\ RingTypeOK'
    BY <1>9, <2>1, <2>2
      DEF SubmitAndWait, ThreadTypeOK, LoopPcs, Phases, Dead, Tasks, RingTypeOK
  <2>4. /\ pc = "submit" /\ pc' = "wait" /\ sq' = EmptySq /\ inflight' = Submitted
        /\ UNCHANGED <<stopping, crossHandles, crossTasks, wakePc, tTmp, ready, stack, caller,
                       cq, cqBatch, cqDone, signalled, dropped>>
    BY <1>9 DEF SubmitAndWait, cross
  <2>5. BodyInv' /\ SubmittedInv' /\ LocalInv'
    BY <2>2, <2>4 DEF BodyInv, SubmittedInv, LocalInv
  <2>6. WakeArmed'
    BY <2>1, <2>2, <2>4 DEF WakeArmed, WakeInCq, LoopPcs
  <2>7. SignalInv'
    BY <2>4 DEF SignalInv, Coming, CrossWork, Holds, LoopPcs
  <2> QED BY <2>3, <2>5, <2>6, <2>7
<1>10. ASSUME WaitReturns PROVE Inv'
  <2>1. cqBatch' \in Nat /\ cqBatch' <= Len(cq) /\ cqDone' = 0 /\ cq' = cq
    BY <1>10, ConstantsAssumption, LenProperties DEF RingTypeOK, WaitReturns, PeekBatch
  <2>2. WakeInCq => WakeInCq'
    BY <2>1 DEF WakeInCq, RingTypeOK
  <2>3. ThreadTypeOK'
    BY <1>10, <2>1, <2>2
      DEF WaitReturns, PeekBatch, ThreadTypeOK, LoopPcs, Phases, Dead, Tasks
  <2>4. RingTypeOK'
    BY <1>10, <2>1, <2>2 DEF WaitReturns, PeekBatch, RingTypeOK
  <2>5. BodyInv' /\ WakeArmed' /\ SubmittedInv' /\ LocalInv' /\ SignalInv'
    BY <1>10, <2>1, <2>2
      DEF WaitReturns, PeekBatch, ThreadTypeOK, RingTypeOK, BodyInv, Holds, LoopPcs,
          Phases, Dead, WakeArmed, WakeInCq, SubmittedInv, LocalInv, Tasks, SignalInv,
          Coming, CrossWork
  <2> QED BY <2>3, <2>4, <2>5
<1>11. ASSUME WaitInterrupted PROVE Inv'
  <2>1. cqBatch' \in Nat /\ cqBatch' <= Len(cq) /\ cqDone' = 0 /\ cq' = cq
    BY <1>11, ConstantsAssumption, LenProperties
      DEF RingTypeOK, WaitInterrupted, PeekBatch
  <2>2. WakeInCq => WakeInCq'
    BY <2>1 DEF WakeInCq, RingTypeOK
  <2>3. ThreadTypeOK'
    BY <1>11, <2>1, <2>2
      DEF WaitInterrupted, PeekBatch, ThreadTypeOK, LoopPcs, Phases, Dead, Tasks
  <2>4. RingTypeOK'
    BY <1>11, <2>1, <2>2 DEF WaitInterrupted, PeekBatch, RingTypeOK
  <2>5. BodyInv' /\ WakeArmed' /\ SubmittedInv' /\ LocalInv' /\ SignalInv'
    BY <1>11, <2>1, <2>2
      DEF WaitInterrupted, PeekBatch, ThreadTypeOK, RingTypeOK, BodyInv, Holds, LoopPcs,
          Phases, Dead, WakeArmed, WakeInCq, SubmittedInv, LocalInv, Tasks, SignalInv,
          Coming, CrossWork
  <2> QED BY <2>3, <2>4, <2>5
<1>12. ASSUME WaitFails PROVE Inv'
  BY <1>12
    DEF WaitFails, ThreadTypeOK, LoopPcs, Phases, Dead, Tasks, RingTypeOK, BodyInv,
        Holds, WakeArmed, WakeInCq, SubmittedInv, LocalInv, SignalInv, Coming, CrossWork
<1>13. ASSUME EventfdOnComplete PROVE Inv'
  <2>1. cqDone' = cqDone + 1 /\ cqDone' \in 0 .. cqBatch
    BY <1>13 DEF RingTypeOK, EventfdOnComplete
  <2>2. /\ Rearm(sq, Wake) \in [Ops -> Nat]
        /\ DroppedBy(sq, Wake) \subseteq {Wake}
        /\ (Wake \in DroppedBy(sq, Wake) \/ Rearm(sq, Wake)[Wake] > 0)
    BY RearmProperties DEF ThreadTypeOK, RingTypeOK
  <2>3. /\ ThreadTypeOK'
        /\ RingTypeOK'
        /\ BodyInv'
        /\ WakeArmed'
        /\ SubmittedInv'
        /\ LocalInv'
        /\ SignalInv'
    BY <1>13, <2>1, <2>2
      DEF EventfdOnComplete, NextCqe, ThreadTypeOK, LoopPcs, Phases, Dead, Tasks,
          RingTypeOK, BodyInv, Holds, WakeArmed, WakeInCq, SubmittedInv, LocalInv,
          SignalInv, Coming, CrossWork
  <2> QED BY <2>3
<1>14. ASSUME IoOnComplete PROVE Inv'
  <2>1. cqDone' = cqDone + 1 /\ cqDone' \in 0 .. cqBatch
    BY <1>14 DEF RingTypeOK, IoOnComplete
  <2>2. cq[cqDone + 1] # Wake
    BY <1>14 DEF IoOnComplete, NextCqe
  <2>3. WakeInCq => WakeInCq'
    BY <1>14, <2>1, <2>2 DEF WakeInCq, IoOnComplete, RingTypeOK
  <2>4. NextCqe \in Coros => Append(ready, NextCqe) \in Seq(Coros)
    BY AppendProperties DEF ThreadTypeOK, RingTypeOK
  <2>5. ready' \in Seq(Coros)
    BY <1>14, <2>4 DEF ThreadTypeOK, IoOnComplete
  <2>6. /\ ThreadTypeOK'
        /\ RingTypeOK'
        /\ BodyInv'
        /\ WakeArmed'
        /\ SubmittedInv'
        /\ LocalInv'
        /\ SignalInv'
    BY <1>14, <2>1, <2>2, <2>3, <2>4, <2>5
      DEF IoOnComplete, NextCqe, ThreadTypeOK, LoopPcs, Phases, Dead, Tasks, RingTypeOK,
          BodyInv, Holds, WakeArmed, WakeInCq, SubmittedInv, LocalInv, SignalInv, Coming,
          CrossWork
  <2> QED BY <2>6
<1>15. ASSUME TimerfdOnComplete PROVE Inv'
  <2>1. <<TimerRd>> \in Seq(Coros \cup {TimerRd})
    OBVIOUS
  <2>2. /\ ThreadTypeOK'
        /\ RingTypeOK'
        /\ BodyInv'
        /\ WakeArmed'
        /\ SubmittedInv'
        /\ LocalInv'
        /\ SignalInv'
    BY <1>15, <2>1
      DEF TimerfdOnComplete, NextCqe, Enter, ThreadTypeOK, LoopPcs, Phases, Dead, Tasks,
          RingTypeOK, BodyInv, Holds, WakeArmed, WakeInCq, SubmittedInv, LocalInv,
          SignalInv, Coming, CrossWork
  <2> QED BY <2>2
<1>16. ASSUME TimerfdReturns PROVE Inv'
  <2>1. /\ Rearm(sq, TimerRd) \in [Ops -> Nat]
        /\ DroppedBy(sq, TimerRd) \subseteq {TimerRd}
        /\ Rearm(sq, TimerRd)[Wake] >= sq[Wake]
    BY RearmProperties DEF ThreadTypeOK, RingTypeOK
  <2>2. Holds(stack, TimerRd)
    BY <1>16 DEF TimerfdReturns, Holds
  <2>3. caller = "cqe" /\ cqDone < cqBatch /\ cq[cqDone + 1] = TimerRd
    BY <1>16, <2>2 DEF BodyInv, TimerfdReturns
  <2>4. cqDone' = cqDone + 1 /\ cqDone' \in 0 .. cqBatch
    BY <1>16, <2>3 DEF RingTypeOK, TimerfdReturns
  <2>5. WakeInCq => WakeInCq'
    BY <1>16, <2>3, <2>4 DEF WakeInCq, TimerfdReturns, RingTypeOK
  <2>6. ThreadTypeOK'
    BY <1>16, <2>1, <2>2, <2>3, <2>4, <2>5
      DEF TimerfdReturns, ThreadTypeOK, LoopPcs, Phases, Dead, Tasks
  <2>7. RingTypeOK'
    BY <1>16, <2>1, <2>2, <2>3, <2>4, <2>5 DEF TimerfdReturns, RingTypeOK
  <2>8. BodyInv' /\ WakeArmed' /\ SubmittedInv' /\ LocalInv' /\ SignalInv'
    BY <1>16, <2>1, <2>2, <2>3, <2>4, <2>5
      DEF TimerfdReturns, ThreadTypeOK, RingTypeOK, BodyInv, Holds, LoopPcs, Phases,
          Dead, WakeArmed, WakeInCq, SubmittedInv, LocalInv, Tasks, SignalInv, Coming,
          CrossWork
  <2> QED BY <2>6, <2>7, <2>8
<1>17. ASSUME CqAdvance PROVE Inv'
  <2>1. Len(cq) \in Nat /\ cqBatch \in 0 .. Len(cq) /\ cqDone = cqBatch
    BY <1>17, LenProperties DEF RingTypeOK, CqAdvance
  <2>2. /\ cq' = SubSeq(cq, cqBatch + 1, Len(cq)) /\ cqBatch' = 0 /\ cqDone' = 0
        /\ pc = "cqe" /\ pc' = "top"
    BY <1>17 DEF CqAdvance
  <2>3. /\ cq' \in Seq(Ops) /\ Len(cq') = Len(cq) - cqBatch
        /\ \A i \in 1 .. Len(cq) - cqBatch : cq'[i] = cq[cqBatch + i]
    BY <2>1, <2>2, AdvanceProperties DEF RingTypeOK
  <2>4. \A k \in (cqDone + 1) .. Len(cq) :
           cq[k] = Wake => /\ k - cqBatch \in (cqDone' + 1) .. Len(cq')
                           /\ cq'[k - cqBatch] = Wake
    BY <2>1, <2>2, <2>3
  <2>5. WakeInCq => WakeInCq'
    BY <2>4 DEF WakeInCq
  <2>6. UNCHANGED <<sq, inflight, signalled, dropped>>
    BY <1>17 DEF CqAdvance
  <2>7. cqBatch' \in 0 .. Len(cq') /\ cqDone' \in 0 .. cqBatch'
    BY <2>1, <2>2, <2>3
  <2>8. RingTypeOK'
    BY <2>3, <2>6, <2>7 DEF RingTypeOK
  <2>9. ThreadTypeOK'
    BY <1>17 DEF CqAdvance, ThreadTypeOK, LoopPcs
  <2>10. BodyInv' /\ SubmittedInv' /\ SignalInv'
    BY <2>2 DEF BodyInv, SubmittedInv, SignalInv
  <2>11. WakeArmed' /\ LocalInv'
    BY <1>17, <2>5 DEF CqAdvance, WakeArmed, LocalInv, LoopPcs, Phases
  <2> QED BY <2>8, <2>9, <2>10, <2>11
<1>18. ASSUME BodyStop PROVE Inv'
  <2>1. /\ sq' \in [Ops -> Nat]
        /\ inflight' \in [Ops -> Nat]
        /\ stopping' \in BOOLEAN
        /\ dropped' \in SUBSET {Wake, TimerRd, Nop} /\ dropped \subseteq dropped'
        /\ (sq[Wake] > 0 \/ inflight[Wake] > 0 => sq'[Wake] > 0 \/ inflight'[Wake] > 0)
    BY <1>18, StopHereProperties DEF BodyStop
  <2>2. /\ ThreadTypeOK'
        /\ RingTypeOK'
        /\ BodyInv'
        /\ WakeArmed'
        /\ SubmittedInv'
        /\ LocalInv'
        /\ SignalInv'
    BY <1>18, <2>1
      DEF BodyStop, ThreadTypeOK, LoopPcs, Phases, Dead, Tasks, RingTypeOK, BodyInv,
          Holds, WakeArmed, WakeInCq, SubmittedInv, LocalInv, SignalInv, Coming,
          CrossWork
  <2> QED BY <2>2
<1>19. ASSUME NEW c \in Coros, AwaitIo(c) PROVE Inv'
  <2>1. [sq EXCEPT ![c] = @ + 1] \in [Ops -> Nat]
    BY DEF RingTypeOK
  <2>2. stack # <<>>
    BY <1>19 DEF BodyInv, AwaitIo, Running
  <2>3. /\ Tail(stack) \in Seq(Coros \cup {TimerRd})
        /\ Holds(Tail(stack), TimerRd) => Holds(stack, TimerRd)
    BY <2>2, TailProperties DEF ThreadTypeOK
  <2>4. /\ ThreadTypeOK'
        /\ RingTypeOK'
        /\ BodyInv'
        /\ WakeArmed'
        /\ SubmittedInv'
        /\ LocalInv'
        /\ SignalInv'
    BY <1>19, <2>1, <2>2, <2>3
      DEF AwaitIo, Running, Leave, ThreadTypeOK, LoopPcs, Phases, Dead, Tasks,
          RingTypeOK, BodyInv, Holds, WakeArmed, WakeInCq, SubmittedInv, LocalInv,
          SignalInv, Coming, CrossWork
  <2> QED BY <2>4
<1>20. ASSUME NEW c \in Coros, AwaitThread(c) PROVE Inv'
  <2>1. stack # <<>>
    BY <1>20 DEF BodyInv, AwaitThread, Running
  <2>2. /\ Tail(stack) \in Seq(Coros \cup {TimerRd})
        /\ Holds(Tail(stack), TimerRd) => Holds(stack, TimerRd)
    BY <2>1, TailProperties DEF ThreadTypeOK
  <2>3. /\ ThreadTypeOK'
        /\ RingTypeOK'
        /\ BodyInv'
        /\ WakeArmed'
        /\ SubmittedInv'
        /\ LocalInv'
        /\ SignalInv'
    BY <1>20, <2>1, <2>2
      DEF AwaitThread, Running, Leave, ThreadTypeOK, LoopPcs, Phases, Dead, Tasks,
          RingTypeOK, BodyInv, Holds, WakeArmed, WakeInCq, SubmittedInv, LocalInv,
          SignalInv, Coming, CrossWork
  <2> QED BY <2>3
<1>21. ASSUME NEW c \in Coros, Finish(c) PROVE Inv'
  <2>1. stack # <<>>
    BY <1>21 DEF BodyInv, Finish, Running
  <2>2. /\ Tail(stack) \in Seq(Coros \cup {TimerRd})
        /\ Holds(Tail(stack), TimerRd) => Holds(stack, TimerRd)
    BY <2>1, TailProperties DEF ThreadTypeOK
  <2>3. /\ ThreadTypeOK'
        /\ RingTypeOK'
        /\ BodyInv'
        /\ WakeArmed'
        /\ SubmittedInv'
        /\ LocalInv'
        /\ SignalInv'
    BY <1>21, <2>1, <2>2
      DEF Finish, Running, Leave, ThreadTypeOK, LoopPcs, Phases, Dead, Tasks, RingTypeOK,
          BodyInv, Holds, WakeArmed, WakeInCq, SubmittedInv, LocalInv, SignalInv, Coming,
          CrossWork
  <2> QED BY <2>3
<1>22. ASSUME NEW c \in Coros, Spawn(c) PROVE Inv'
  <2>1. <<c>> \o stack # <<>> /\ (Holds(<<c>> \o stack, TimerRd) => Holds(stack, TimerRd))
    BY ConsHolds DEF ThreadTypeOK
  <2>2. ThreadTypeOK'
    BY <1>22, <2>1 DEF Spawn, ThreadTypeOK, LoopPcs, Phases, Dead, Tasks
  <2>3. RingTypeOK'
    BY <1>22, <2>1 DEF Spawn, RingTypeOK
  <2>4. BodyInv' /\ WakeArmed' /\ SubmittedInv' /\ LocalInv' /\ SignalInv'
    BY <1>22, <2>1
      DEF Spawn, ThreadTypeOK, RingTypeOK, BodyInv, Holds, LoopPcs, Phases, Dead,
          WakeArmed, WakeInCq, SubmittedInv, LocalInv, Tasks, SignalInv, Coming,
          CrossWork
  <2> QED BY <2>2, <2>3, <2>4
<1>23. ASSUME NEW c \in Coros, PostHere(c) PROVE Inv'
  <2>1. ThreadTypeOK' /\ RingTypeOK'
    BY <1>23 DEF PostHere, ThreadTypeOK, LoopPcs, Phases, Dead, Tasks, RingTypeOK
  <2>2. BodyInv' /\ WakeArmed' /\ SubmittedInv' /\ LocalInv' /\ SignalInv'
    BY <1>23
      DEF PostHere, ThreadTypeOK, RingTypeOK, BodyInv, Holds, LoopPcs, Phases, Dead,
          WakeArmed, WakeInCq, SubmittedInv, LocalInv, Tasks, SignalInv, Coming,
          CrossWork
  <2> QED BY <2>1, <2>2
<1>24. ASSUME NEW t \in Threads, WakeRemote(t) PROVE Inv'
  BY <1>24
    DEF WakeRemote, ThreadTypeOK, LoopPcs, Phases, Dead, Tasks, RingTypeOK, BodyInv,
        Holds, WakeArmed, WakeInCq, SubmittedInv, LocalInv, SignalInv, Coming, CrossWork
<1>25. ASSUME NEW t \in Threads, StopRemote(t) PROVE Inv'
  <2>1. ThreadTypeOK' /\ RingTypeOK'
    BY <1>25 DEF StopRemote, ThreadTypeOK, RingTypeOK
  <2>2. BodyInv' /\ LocalInv'
    BY <1>25 DEF StopRemote, BodyInv, LocalInv, Holds
  <2>3. WakeArmed' /\ SubmittedInv'
    BY <1>25 DEF StopRemote, WakeArmed, WakeInCq, SubmittedInv
  <2>4. SignalInv'
    BY <1>25 DEF StopRemote, SignalInv, Coming, ThreadTypeOK
  <2> QED BY <2>1, <2>2, <2>3, <2>4
<1>26. ASSUME NEW t \in Threads, NEW c \in Coros, Post(t, c) PROVE Inv'
  <2>1. ThreadTypeOK' /\ RingTypeOK'
    BY <1>26 DEF Post, ThreadTypeOK, LoopPcs, Phases, Dead, Tasks, RingTypeOK
  <2>2. BodyInv' /\ WakeArmed' /\ SubmittedInv' /\ LocalInv' /\ SignalInv'
    BY <1>26
      DEF Post, ThreadTypeOK, RingTypeOK, BodyInv, Holds, LoopPcs, Phases, Dead,
          WakeArmed, WakeInCq, SubmittedInv, LocalInv, Tasks, SignalInv, Coming,
          CrossWork
  <2> QED BY <2>1, <2>2
<1>27. ASSUME NEW t \in Threads, NEW k \in Tasks, PostTask(t, k) PROVE Inv'
  <2>1. ThreadTypeOK' /\ RingTypeOK'
    BY <1>27
      DEF PostTask, PushTask, Postable, ThreadTypeOK, LoopPcs, Phases, Dead, Tasks,
          RingTypeOK
  <2>2. BodyInv' /\ WakeArmed' /\ SubmittedInv' /\ LocalInv' /\ SignalInv'
    BY <1>27
      DEF PostTask, PushTask, Postable, ThreadTypeOK, RingTypeOK, BodyInv, Holds,
          LoopPcs, Phases, Dead, WakeArmed, WakeInCq, SubmittedInv, LocalInv, Tasks,
          SignalInv, Coming, CrossWork
  <2> QED BY <2>1, <2>2
<1>28. ASSUME NEW k \in Tasks, QueueBootTask(k) PROVE Inv'
  <2>1. ThreadTypeOK' /\ RingTypeOK'
    BY <1>28
      DEF QueueBootTask, PushTask, Postable, ThreadTypeOK, LoopPcs, Phases, Dead, Tasks,
          RingTypeOK
  <2>2. BodyInv' /\ WakeArmed' /\ SubmittedInv' /\ LocalInv' /\ SignalInv'
    BY <1>28
      DEF QueueBootTask, PushTask, ThreadTypeOK, BodyInv, LoopPcs, Phases, WakeArmed,
          SubmittedInv, LocalInv, SignalInv
  <2> QED BY <2>1, <2>2
<1>29. ASSUME NEW o \in Ops \ {Wake}, Complete(o), UNCHANGED signalled PROVE Inv'
  <2>1. /\ cq' = Append(cq, o)
        /\ inflight' = [inflight EXCEPT ![o] = @ - 1]
        /\ inflight[o] > 0
    BY <1>29 DEF Complete
  <2>2. UNCHANGED <<pc, stopping, crossHandles, crossTasks, tTmp, ready, stack, caller, sq,
                    cqBatch, cqDone, co, ext, signalled, wakePc, dropped, runs>>
    BY <1>29 DEF Complete
  <2>3. /\ Len(cq) \in Nat /\ cq' \in Seq(Ops) /\ Len(cq') = Len(cq) + 1
        /\ \A i \in 1 .. Len(cq) : cq'[i] = cq[i]
        /\ Holds(cq, Wake) => Holds(cq', Wake)
    BY <2>1, AppendHolds, LenProperties DEF RingTypeOK
  <2>4. inflight' \in [Ops -> Nat] /\ inflight'[Wake] = inflight[Wake]
    BY <2>1 DEF RingTypeOK
  <2>5. cqBatch \in 0 .. Len(cq') /\ cqDone \in 0 .. cqBatch
    BY <2>3 DEF RingTypeOK
  <2>6. WakeInCq => WakeInCq'
    <3>1. ASSUME NEW k \in (cqDone + 1) .. Len(cq), cq[k] = Wake
          PROVE  k \in (cqDone + 1) .. Len(cq') /\ cq'[k] = Wake
      BY <2>3, <2>5, <3>1
    <3>2. QED BY <2>2, <3>1 DEF WakeInCq
  <2>7. cqDone < cqBatch => cq'[cqDone + 1] = cq[cqDone + 1]
    <3>1. cqDone < cqBatch => cqDone + 1 \in 1 .. Len(cq)
      BY <2>3 DEF RingTypeOK
    <3>2. QED BY <2>3, <3>1
  <2>8. RingTypeOK'
    BY <2>2, <2>3, <2>4, <2>5 DEF RingTypeOK
  <2>9. ThreadTypeOK' /\ LocalInv' /\ SubmittedInv'
    BY <2>2 DEF ThreadTypeOK, LocalInv, SubmittedInv
  <2>10. BodyInv'
    BY <2>2, <2>7 DEF BodyInv, Holds
  <2>11. WakeArmed'
    BY <2>2, <2>4, <2>6 DEF WakeArmed
  <2>12. SignalInv'
    BY <2>2, <2>3 DEF SignalInv, Coming, CrossWork
  <2> QED BY <2>8, <2>9, <2>10, <2>11, <2>12
<1>30. ASSUME KernelWake PROVE Inv'
  <2>1. /\ cq' = Append(cq, Wake) /\ inflight' = [inflight EXCEPT ![Wake] = @ - 1]
        /\ inflight[Wake] > 0 /\ signalled' = FALSE
    BY <1>30 DEF KernelWake, Complete
  <2>2. UNCHANGED <<pc, stopping, crossHandles, crossTasks, tTmp, ready, stack, caller, sq,
                    cqBatch, cqDone, co, ext, wakePc, dropped, runs>>
    BY <1>30 DEF KernelWake, Complete
  <2>3. /\ Len(cq) \in Nat /\ cq' \in Seq(Ops) /\ Len(cq') = Len(cq) + 1
        /\ \A i \in 1 .. Len(cq) : cq'[i] = cq[i]
        /\ cq'[Len(cq) + 1] = Wake /\ Holds(cq', Wake)
    BY <2>1, AppendHolds, LenProperties DEF RingTypeOK
  <2>4. inflight' \in [Ops -> Nat]
    BY <2>1 DEF RingTypeOK
  <2>5. cqBatch \in 0 .. Len(cq') /\ cqDone \in 0 .. cqBatch
    BY <2>3 DEF RingTypeOK
  <2>6. Len(cq') \in (cqDone + 1) .. Len(cq') /\ cq'[Len(cq')] = Wake
    BY <2>3 DEF RingTypeOK
  <2>7. WakeInCq'
    BY <2>2, <2>6 DEF WakeInCq
  <2>8. cqDone < cqBatch => cq'[cqDone + 1] = cq[cqDone + 1]
    <3>1. cqDone < cqBatch => cqDone + 1 \in 1 .. Len(cq)
      BY <2>3 DEF RingTypeOK
    <3>2. QED BY <2>3, <3>1
  <2>9. RingTypeOK'
    BY <2>1, <2>2, <2>3, <2>4, <2>5 DEF RingTypeOK
  <2>10. ThreadTypeOK' /\ LocalInv' /\ SubmittedInv'
    BY <2>2 DEF ThreadTypeOK, LocalInv, SubmittedInv
  <2>11. BodyInv'
    BY <2>2, <2>8 DEF BodyInv, Holds
  <2>12. WakeArmed'
    BY <2>7 DEF WakeArmed
  <2>13. SignalInv'
    BY <2>3 DEF SignalInv, Coming
  <2> QED BY <2>9, <2>10, <2>11, <2>12, <2>13
<1> QED
  BY <1>1, <1>2, <1>3, <1>4, <1>5, <1>6, <1>7, <1>8, <1>9, <1>10, <1>11, <1>12, <1>13, <1>14, <1>15,
     <1>16, <1>17, <1>18, <1>19, <1>20, <1>21, <1>22, <1>23, <1>24,
      <1>25, <1>26, <1>27, <1>28, <1>29, <1>30
  DEF Next, Loop, Body, Others, KernelIo

\* ... and so does a step that leaves the scheduler alone.
LEMMA StepInv == Inv /\ [Next]_vars => Inv'
<1>1. ASSUME Inv, UNCHANGED vars PROVE Inv'
  <2> USE DEF vars, Inv, TypeOK
  <2>1. ThreadTypeOK' BY <1>1 DEF ThreadTypeOK
  <2>2. RingTypeOK' BY <1>1 DEF RingTypeOK
  <2>3. BodyInv' BY <1>1 DEF BodyInv, Holds
  <2>4. WakeArmed' /\ SubmittedInv' BY <1>1 DEF WakeArmed, WakeInCq, SubmittedInv
  <2>5. LocalInv' BY <1>1 DEF LocalInv
  <2>6. SignalInv' BY <1>1 DEF SignalInv, Coming, CrossWork, Holds
  <2>7. QED BY <2>1, <2>2, <2>3, <2>4, <2>5, <2>6
<1>2. QED BY <1>1, NextInv

\* Every reachable state satisfies the invariant.
THEOREM Invariant == Spec => []Inv
BY InitInv, StepInv, PTL DEF Spec

\* Type correctness: in particular the loop never indexes past the CQEs it peeked
\* while the kernel appends to the same queue.
THEOREM TypeCorrect == Spec => []TypeOK
<1>1. Inv => TypeOK
  BY DEF Inv
<1>2. QED BY <1>1, Invariant, PTL

\* No lost wakeup, for any number of posting threads, coroutines and runs and any
\* ring size: work posted by another thread, or its stop(), never finds the loop
\* blocked with nothing on its way to wake it, as long as the SQ had room for the
\* read of the eventfd.
THEOREM WakeupNeverLost == Spec => []NoLostWakeup
<1>1. ASSUME Inv PROVE NoLostWakeup
  <2>1. SUFFICES ASSUME pc = "wait", cq = <<>>
                 PROVE  /\ ready = <<>> /\ tTmp = <<>>
                        /\ (CrossWork \/ stopping) /\ Wake \notin dropped =>
                              \/ \E t \in Threads : wakePc[t] = "write"
                              \/ signalled /\ inflight[Wake] > 0
    BY DEF NoLostWakeup
  <2>2. ready = <<>> /\ tTmp = <<>>
    BY <1>1, <2>1 DEF Inv, LocalInv
  <2>3. ~Holds(cq, Wake) /\ ~WakeInCq
    BY <2>1, <1>1 DEF Holds, WakeInCq, Inv, TypeOK, RingTypeOK
  <2>4. Wake \notin dropped => inflight[Wake] > 0
    BY <1>1, <2>1, <2>3 DEF Inv, WakeArmed, SubmittedInv, LoopPcs
  <2>5. CrossWork \/ stopping => signalled \/ \E t \in Threads : wakePc[t] = "write"
    BY <1>1, <2>1, <2>3 DEF Inv, SignalInv, Coming, LoopPcs
  <2>6. QED BY <2>2, <2>4, <2>5
<1>2. QED BY <1>1, Invariant, PTL

-----------------------------------------------------------------------------
(* Counting: how often a queue holds a handle. *)

Count(s, x) == Cardinality({i \in DOMAIN s : s[i] = x})

\* What the element e adds to the count of x.
One(e, x) == IF e = x THEN 1 ELSE 0

\* Moving the places of a queue moves none of what it holds.
LEMMA Shifted ==
    ASSUME NEW S \in SUBSET Nat, IsFiniteSet(S), NEW k \in Nat
    PROVE  LET T == {i + k : i \in S}
           IN  IsFiniteSet(T) /\ Cardinality(T) = Cardinality(S)
<1> DEFINE T == {i + k : i \in S}
           f == [i \in S |-> i + k]
<1>1. f \in [S -> T] /\ (\A a, b \in S : f[a] = f[b] => a = b) /\ (\A t \in T : \E a \in S : f[a] = t)
  OBVIOUS
<1>2. f \in Bijection(S, T)
  BY <1>1 DEF Bijection, Injection, Surjection, IsInjective
<1>3. ExistsBijection(S, T)
  BY <1>2 DEF ExistsBijection
<1> HIDE DEF T
<1>4. IsFiniteSet(T) /\ Cardinality(T) = Cardinality(S)
  BY <1>3, FS_Bijection
<1>5. QED BY <1>4 DEF T

\* The places of a queue that hold x are finitely many.
LEMMA CountType ==
    ASSUME NEW S, NEW s \in Seq(S), NEW x
    PROVE  /\ IsFiniteSet({i \in DOMAIN s : s[i] = x})
           /\ Count(s, x) \in Nat
           /\ Count(s, x) > 0 <=> Holds(s, x)
<1> DEFINE P == {i \in DOMAIN s : s[i] = x}
<1>1. DOMAIN s = 1 .. Len(s) /\ Len(s) \in Nat
  BY LenProperties
<1>2. IsFiniteSet(1 .. Len(s))
  BY <1>1, FS_Interval
<1>3. P \in SUBSET (1 .. Len(s))
  BY <1>1
<1> HIDE DEF P
<1>4. IsFiniteSet(P)
  BY <1>2, <1>3, FS_Subset
<1>5. Cardinality(P) \in Nat
  BY <1>4, FS_CardinalityType
<1>6. Cardinality(P) = 0 <=> P = {}
  BY <1>4, FS_EmptySet
<1>7. Cardinality(P) > 0 <=> P # {}
  BY <1>5, <1>6
<1>8. P # {} <=> Holds(s, x)
  BY DEF P, Holds
<1>9. QED BY <1>4, <1>5, <1>7, <1>8 DEF P, Count

\* An empty queue holds nothing.
LEMMA CountEmpty == ASSUME NEW x PROVE Count(<<>>, x) = 0
<1>1. {i \in DOMAIN <<>> : <<>>[i] = x} = {}
  OBVIOUS
<1>2. QED BY <1>1, FS_EmptySet DEF Count

\* Two queues in a row hold what each of them held.
LEMMA CountConcat ==
    ASSUME NEW S, NEW s \in Seq(S), NEW t \in Seq(S), NEW x
    PROVE  Count(s \o t, x) = Count(s, x) + Count(t, x)
<1> DEFINE A == {i \in DOMAIN s : s[i] = x}
           B == {i \in DOMAIN t : t[i] = x}
           C == {i + Len(s) : i \in B}
           U == {i \in DOMAIN (s \o t) : (s \o t)[i] = x}
<1>1. IsFiniteSet(A) /\ IsFiniteSet(B) /\ Cardinality(A) \in Nat /\ Cardinality(B) \in Nat
  BY CountType DEF Count
<1>2. /\ DOMAIN s = 1 .. Len(s) /\ Len(s) \in Nat
      /\ DOMAIN t = 1 .. Len(t) /\ Len(t) \in Nat
  BY LenProperties
<1>3. /\ DOMAIN (s \o t) = 1 .. Len(s) + Len(t)
      /\ \A i \in 1 .. Len(s) + Len(t) :
            (s \o t)[i] = IF i <= Len(s) THEN s[i] ELSE t[i - Len(s)]
  BY <1>2
<1>4. A \in SUBSET Nat /\ B \in SUBSET Nat
  BY <1>2
<1>5. U = A \cup C
  <2>1. ASSUME NEW i \in U PROVE i \in A \cup C
    <3>1. CASE i <= Len(s)
      BY <1>2, <1>3, <2>1, <3>1
    <3>2. CASE ~(i <= Len(s))
      <4>1. i - Len(s) \in 1 .. Len(t) /\ t[i - Len(s)] = x /\ i = (i - Len(s)) + Len(s)
        BY <1>2, <1>3, <2>1, <3>2
      <4>2. i - Len(s) \in B
        BY <1>2, <4>1
      <4>3. QED BY <4>1, <4>2
    <3>3. QED BY <3>1, <3>2
  <2>2. ASSUME NEW i \in A PROVE i \in U
    BY <1>2, <1>3, <2>2
  <2>3. ASSUME NEW j \in B PROVE j + Len(s) \in U
    <3>1. j + Len(s) \in 1 .. Len(s) + Len(t) /\ ~(j + Len(s) <= Len(s)) /\ j + Len(s) - Len(s) = j
      BY <1>2, <2>3
    <3>2. QED BY <1>3, <2>3, <3>1
  <2>4. QED BY <2>1, <2>2, <2>3
<1>6. A \cap C = {}
  BY <1>2
<1> HIDE DEF A, B, U
<1>7. IsFiniteSet(C) /\ Cardinality(C) = Cardinality(B)
  BY <1>1, <1>2, <1>4, Shifted
<1> HIDE DEF C
<1>8. Cardinality(A \cup C) = Cardinality(A) + Cardinality(C) - Cardinality(A \cap C)
  BY <1>1, <1>7, FS_Union
<1>9. Cardinality(A \cap C) = 0
  BY <1>6, FS_EmptySet
<1>10. Cardinality(U) = Cardinality(A) + Cardinality(B)
  BY <1>1, <1>5, <1>7, <1>8, <1>9
<1>11. QED BY <1>10 DEF A, B, U, Count

\* A queue of one.
LEMMA CountSingle == ASSUME NEW e, NEW x PROVE Count(<<e>>, x) = One(e, x)
<1>1. DOMAIN <<e>> = {1} /\ <<e>>[1] = e
  OBVIOUS
<1>2. CASE e = x
  <2>1. {i \in DOMAIN <<e>> : <<e>>[i] = x} = {1}
    BY <1>1, <1>2
  <2>2. QED BY <1>2, <2>1, FS_Singleton DEF Count, One
<1>3. CASE e # x
  <2>1. {i \in DOMAIN <<e>> : <<e>>[i] = x} = {}
    BY <1>1, <1>3
  <2>2. QED BY <1>3, <2>1, FS_EmptySet DEF Count, One
<1>4. QED BY <1>2, <1>3

\* Queueing adds one element.
LEMMA CountAppend ==
    ASSUME NEW S, NEW s \in Seq(S), NEW e \in S, NEW x
    PROVE  Count(Append(s, e), x) = Count(s, x) + One(e, x)
<1> DEFINE h == <<e>>
<1>1. Count(s, x) \in Nat /\ One(e, x) \in Nat /\ Count(h, x) = One(e, x)
  BY CountType, CountSingle DEF One
<1>2. h \in Seq(S) /\ Append(s, e) = s \o h
  BY AppendIsConcat
<1> HIDE DEF h
<1>3. Count(s \o h, x) = Count(s, x) + Count(h, x)
  BY <1>2, CountConcat
<1>4. QED BY <1>1, <1>2, <1>3

\* So does pushing.
LEMMA CountPush ==
    ASSUME NEW S, NEW s \in Seq(S), NEW e \in S, NEW x
    PROVE  Count(<<e>> \o s, x) = Count(s, x) + One(e, x)
<1> DEFINE h == <<e>>
<1>1. Count(s, x) \in Nat /\ One(e, x) \in Nat /\ Count(h, x) = One(e, x)
  BY CountType, CountSingle DEF One
<1>2. h \in Seq(S)
  OBVIOUS
<1> HIDE DEF h
<1>3. Count(h \o s, x) = Count(h, x) + Count(s, x)
  BY <1>2, CountConcat
<1>4. Count(h \o s, x) = Count(s, x) + One(e, x)
  BY <1>1, <1>3
<1>5. QED BY <1>4 DEF h

\* Popping removes one.
LEMMA CountPop ==
    ASSUME NEW S, NEW s \in Seq(S), s # <<>>, NEW x
    PROVE  Count(s, x) = Count(Tail(s), x) + One(Head(s), x)
<1> DEFINE f == <<Head(s)>>
           r == Tail(s)
<1>1. Head(s) \in S /\ r \in Seq(S) /\ f \in Seq(S) /\ s = f \o r
  BY HeadTailProperties
<1>2. Count(f, x) = One(Head(s), x)
  BY CountSingle
<1> HIDE DEF f, r
<1>3. Count(f \o r, x) = Count(f, x) + Count(r, x)
  BY <1>1, CountConcat
<1>4. Count(r, x) \in Nat /\ One(Head(s), x) \in Nat
  BY <1>1, CountType DEF One
<1>5. Count(s, x) = Count(f \o r, x)
  BY <1>1
<1>6. Count(s, x) = Count(r, x) + One(Head(s), x)
  BY ONLY <1>2, <1>3, <1>4, <1>5
<1>7. QED BY <1>6 DEF r

-----------------------------------------------------------------------------
(* Where handles are. *)

\* The CQEs that are still to be handled.
Todo == SubSeq(cq, cqDone + 1, Len(cq))

\* Code is on the stack, and CQEs of the batch are handled, only in their phases.
PhaseInv ==
    /\ pc \notin {"body", "crashed"} => stack = <<>>
    /\ pc \notin {"cqe", "body", "crashed"} => cqDone = 0
    /\ pc = "body" /\ caller # "cqe" => cqDone = 0

\* How often the handle of c is queued to be started, to be resumed, waits for the
\* kernel or a thread, and runs.
Asked(c)    == Count(crossTasks, c) + Count(tTmp, c)
Runnable(c) == Count(crossHandles, c) + Count(ready, c) + Count(Todo, c)
Waiting(c)  == sq[c] + inflight[c] + (IF c \in ext THEN 1 ELSE 0)
OnStack(c)  == Count(stack, c)

\* A coroutine whose start was asked for is queued once, one that was started and
\* has not ended is in one place.
HandleInv ==
    \A c \in Coros :
        /\ Asked(c) = One(co[c], "queued")
        /\ Runnable(c) + Waiting(c) + OnStack(c) = One(co[c], "live")

\* One handle moves: the numbers of its places change by a, r, w and k ...
Moves(c, a, r, w, k) ==
    /\ Asked(c)' = Asked(c) + a
    /\ Runnable(c)' = Runnable(c) + r
    /\ Waiting(c)' = Waiting(c) + w
    /\ OnStack(c)' = OnStack(c) + k

\* ... or stays where it is.
Stays(c) == Moves(c, 0, 0, 0, 0) /\ co'[c] = co[c]

\* What a step of the loop, of a thread or of the kernel does to one handle.
MoveOf(c) ==
    \/ co[c] = "new" /\ co'[c] = "queued" /\ Moves(c, 1, 0, 0, 0)
    \/ co[c] = "new" /\ co'[c] = "live" /\ Moves(c, 0, 0, 0, 1)
    \/ stack = <<>> /\ co'[c] = "live" /\ Moves(c, -1, 0, 0, 1)
    \/ stack = <<>> /\ co'[c] = co[c] /\ Moves(c, 0, -1, 0, 1)
    \/ co'[c] = co[c] /\ Moves(c, 0, 0, 1, -1)
    \/ co'[c] = co[c] /\ Moves(c, 0, 1, -1, 0)
    \/ co'[c] = "done" /\ Moves(c, 0, 0, 0, -1)

\* A step moves one handle or none.
HandleStep ==
    \/ \A c \in Coros : Stays(c)
    \/ \E d \in Coros : MoveOf(d) /\ \A c \in Coros \ {d} : Stays(c)

\* The numbers are natural.
LEMMA NumberTypes ==
    ASSUME TypeOK, NEW c \in Coros
    PROVE  /\ Count(crossTasks, c) \in Nat /\ Count(tTmp, c) \in Nat
           /\ Count(crossHandles, c) \in Nat /\ Count(ready, c) \in Nat
           /\ Count(stack, c) \in Nat /\ Count(Todo, c) \in Nat
           /\ sq[c] \in Nat /\ inflight[c] \in Nat
           /\ Todo \in Seq(Ops)
<1>1. cq \in Seq(Ops) /\ cqDone \in 0 .. Len(cq) /\ Len(cq) \in Nat
  BY LenProperties DEF TypeOK, RingTypeOK
<1>2. Todo \in Seq(Ops)
  BY <1>1, AdvanceProperties DEF Todo
<1>3. QED
  BY <1>2, CountType, OpsMember DEF TypeOK, ThreadTypeOK, RingTypeOK

\* ... and so are the sums.
LEMMA SumTypes ==
    ASSUME TypeOK, NEW c \in Coros
    PROVE  Asked(c) \in Nat /\ Runnable(c) \in Nat /\ Waiting(c) \in Nat /\ OnStack(c) \in Nat
<1>1. /\ Count(crossTasks, c) \in Nat /\ Count(tTmp, c) \in Nat
      /\ Count(crossHandles, c) \in Nat /\ Count(ready, c) \in Nat
      /\ Count(stack, c) \in Nat /\ Count(Todo, c) \in Nat
      /\ sq[c] \in Nat /\ inflight[c] \in Nat
  BY NumberTypes
<1>2. QED BY <1>1 DEF Asked, Runnable, Waiting, OnStack

\* The same of the next state.
LEMMA SumTypesPrime ==
    ASSUME TypeOK', NEW c \in Coros
    PROVE  /\ Asked(c)' \in Nat /\ Runnable(c)' \in Nat /\ Waiting(c)' \in Nat
           /\ OnStack(c)' \in Nat
<1>1. cq' \in Seq(Ops) /\ cqDone' \in 0 .. Len(cq') /\ Len(cq') \in Nat
  BY LenProperties DEF TypeOK, RingTypeOK
<1>2. Todo' \in Seq(Ops)
  BY <1>1, AdvanceProperties DEF Todo
<1>3. /\ Count(crossTasks', c) \in Nat /\ Count(tTmp', c) \in Nat
      /\ Count(crossHandles', c) \in Nat /\ Count(ready', c) \in Nat
      /\ Count(stack', c) \in Nat /\ Count(Todo', c) \in Nat
      /\ sq'[c] \in Nat /\ inflight'[c] \in Nat
  BY <1>2, CountType, OpsMember DEF TypeOK, ThreadTypeOK, RingTypeOK
<1>4. QED BY <1>3 DEF Asked, Runnable, Waiting, OnStack

\* A move keeps the books.
LEMMA MovesKeep ==
    ASSUME TypeOK, TypeOK', HandleInv, HandleStep
    PROVE  HandleInv'
<1> SUFFICES ASSUME NEW c \in Coros
             PROVE  /\ Asked(c)' = One(co'[c], "queued")
                    /\ Runnable(c)' + Waiting(c)' + OnStack(c)' = One(co'[c], "live")
  BY DEF HandleInv
<1>1. /\ Asked(c) \in Nat /\ Runnable(c) \in Nat /\ Waiting(c) \in Nat /\ OnStack(c) \in Nat
      /\ Asked(c)' \in Nat /\ Runnable(c)' \in Nat /\ Waiting(c)' \in Nat
      /\ OnStack(c)' \in Nat
  BY SumTypes, SumTypesPrime
<1>2. /\ Asked(c) = One(co[c], "queued")
      /\ Runnable(c) + Waiting(c) + OnStack(c) = One(co[c], "live")
  BY DEF HandleInv
<1>3. CASE Stays(c)
  BY <1>1, <1>2, <1>3 DEF Stays, Moves
<1>4. CASE MoveOf(c)
  <2>1. CASE co[c] = "new" /\ co'[c] = "queued" /\ Moves(c, 1, 0, 0, 0)
    BY <1>1, <1>2, <2>1 DEF Moves, One
  <2>2. CASE co[c] = "new" /\ co'[c] = "live" /\ Moves(c, 0, 0, 0, 1)
    BY <1>1, <1>2, <2>2 DEF Moves, One
  <2>3. CASE co'[c] = "live" /\ Moves(c, -1, 0, 0, 1)
    BY <1>1, <1>2, <2>3 DEF Moves, One
  <2>4. CASE co'[c] = co[c] /\ Moves(c, 0, -1, 0, 1)
    BY <1>1, <1>2, <2>4 DEF Moves
  <2>5. CASE co'[c] = co[c] /\ Moves(c, 0, 0, 1, -1)
    BY <1>1, <1>2, <2>5 DEF Moves
  <2>6. CASE co'[c] = co[c] /\ Moves(c, 0, 1, -1, 0)
    BY <1>1, <1>2, <2>6 DEF Moves
  <2>7. CASE co'[c] = "done" /\ Moves(c, 0, 0, 0, -1)
    <3>1. OnStack(c) = 1 /\ Runnable(c) = 0 /\ Waiting(c) = 0 /\ co[c] = "live"
      BY <1>1, <1>2, <2>7 DEF Moves, One
    <3>2. QED BY <1>1, <1>2, <2>7, <3>1 DEF Moves, One
  <2>8. QED BY <1>4, <2>1, <2>2, <2>3, <2>4, <2>5, <2>6, <2>7 DEF MoveOf
<1>5. QED BY <1>3, <1>4 DEF HandleStep

\* The ring keeps a coroutine's operations when watchers and NOPs come and go.
LEMMA RingKeeps ==
    ASSUME TypeOK, NEW c \in Coros
    PROVE  /\ \A o \in {Wake, TimerRd} : \A s \in [Ops -> Nat] : Rearm(s, o)[c] = s[c]
           /\ Submitted[c] + EmptySq[c] = sq[c] + inflight[c]
           /\ StopHere => sq'[c] + inflight'[c] = sq[c] + inflight[c]
<1>1. c \in Ops /\ c # Wake /\ c # TimerRd /\ c # Nop
  BY OpsMember, Distinct
<1>2. /\ sq[c] \in Nat /\ inflight[c] \in Nat
      /\ Submitted \in [Ops -> Nat] /\ Submitted[c] = inflight[c] + sq[c] /\ EmptySq[c] = 0
  BY <1>1, SubmittedProperties DEF TypeOK, RingTypeOK
<1>3. \A o \in {Wake, TimerRd} : \A s \in [Ops -> Nat] : Rearm(s, o)[c] = s[c]
  BY <1>1 DEF Rearm
<1>4. ASSUME StopHere PROVE sq'[c] + inflight'[c] = sq[c] + inflight[c]
  <2>1. CASE UNCHANGED <<sq, inflight>>
    BY <2>1
  <2>2. CASE inflight' = [Submitted EXCEPT ![Nop] = @ + 1] /\ sq' = EmptySq
    <3>1. inflight'[c] = Submitted[c] /\ sq'[c] = 0
      BY <1>1, <1>2, <2>2
    <3>2. QED BY <1>2, <3>1
  <2>3. QED BY <1>4, <2>1, <2>2 DEF StopHere
<1>5. Submitted[c] + EmptySq[c] = sq[c] + inflight[c]
  BY <1>2
<1>6. QED BY <1>3, <1>4, <1>5

\* A CQE is handled ...
LEMMA TodoNext ==
    ASSUME TypeOK, cqDone < cqBatch, cq' = cq, cqDone' = cqDone + 1, NEW x
    PROVE  Count(Todo, x) = Count(Todo', x) + One(NextCqe, x)
<1>1. /\ cq \in Seq(Ops) /\ Len(cq) \in Nat /\ cqDone \in Nat /\ cqDone < Len(cq)
  BY LenProperties DEF TypeOK, RingTypeOK
<1>2. Todo \in Seq(Ops) /\ Len(Todo) = Len(cq) - cqDone
  BY <1>1, AdvanceProperties DEF Todo
<1>3. /\ Head(Todo) = cq[cqDone + 1] /\ Tail(Todo) = SubSeq(cq, cqDone + 1 + 1, Len(cq))
  <2>1. cqDone + 1 \in 1 .. Len(cq) /\ Len(cq) \in cqDone + 1 .. Len(cq)
    BY <1>1
  <2>2. QED BY <1>1, <2>1, HeadTailOfSubSeq DEF Todo
<1>4. Todo # <<>>
  BY <1>1, <1>2
<1>5. Todo' = Tail(Todo)
  BY <1>3 DEF Todo
<1> HIDE DEF Todo
<1>6. Count(Todo, x) = Count(Tail(Todo), x) + One(Head(Todo), x)
  BY <1>2, <1>4, CountPop
<1>7. QED BY <1>3, <1>5, <1>6 DEF NextCqe

\* ... arrives ...
LEMMA TodoArrives ==
    ASSUME TypeOK, NEW o \in Ops, cq' = Append(cq, o), cqDone' = cqDone, NEW x
    PROVE  Count(Todo', x) = Count(Todo, x) + One(o, x)
<1>1. /\ cq \in Seq(Ops) /\ Len(cq) \in Nat /\ cqDone \in Nat /\ cqDone <= Len(cq)
  BY LenProperties DEF TypeOK, RingTypeOK
<1>2. /\ Todo \in Seq(Ops) /\ Len(Todo) = Len(cq) - cqDone
      /\ \A i \in 1 .. Len(cq) - cqDone : Todo[i] = cq[cqDone + i]
  BY <1>1, AdvanceProperties DEF Todo
<1>3. /\ cq' \in Seq(Ops) /\ Len(cq') = Len(cq) + 1 /\ cq'[Len(cq) + 1] = o
      /\ \A i \in 1 .. Len(cq) : cq'[i] = cq[i]
  BY <1>1, AppendProperties
<1>4. /\ Todo' \in Seq(Ops) /\ Len(Todo') = Len(cq) + 1 - cqDone
      /\ \A i \in 1 .. Len(cq) + 1 - cqDone : Todo'[i] = cq'[cqDone + i]
  <2>1. cqDone \in 0 .. Len(cq')
    BY <1>1, <1>3
  <2>2. /\ SubSeq(cq', cqDone + 1, Len(cq')) \in Seq(Ops)
        /\ Len(SubSeq(cq', cqDone + 1, Len(cq'))) = Len(cq') - cqDone
        /\ \A i \in 1 .. Len(cq') - cqDone : SubSeq(cq', cqDone + 1, Len(cq'))[i] = cq'[cqDone + i]
    BY <1>3, <2>1, AdvanceProperties
  <2>3. Todo' = SubSeq(cq', cqDone + 1, Len(cq'))
    BY DEF Todo
  <2>4. Len(cq') - cqDone = Len(cq) + 1 - cqDone
    BY <1>1, <1>3
  <2>5. QED BY ONLY <2>2, <2>3, <2>4
<1> DEFINE t == Append(Todo, o)
<1>5. /\ t \in Seq(Ops) /\ Len(t) = Len(Todo) + 1 /\ t[Len(Todo) + 1] = o
      /\ \A i \in 1 .. Len(Todo) : t[i] = Todo[i]
  BY <1>2, AppendProperties
<1> HIDE DEF t, Todo
<1>6. Len(Todo') = Len(t) /\ \A i \in 1 .. Len(Todo') : Todo'[i] = t[i]
  <2>1. Len(Todo') = Len(t)
    BY <1>1, <1>2, <1>4, <1>5
  <2>2. ASSUME NEW i \in 1 .. Len(Todo') PROVE Todo'[i] = t[i]
    <3>1. CASE i = Len(Todo) + 1
      <4>1. cqDone + i = Len(cq) + 1 /\ i \in 1 .. Len(cq) + 1 - cqDone
        BY <1>1, <1>2, <1>4, <2>2, <3>1
      <4>2. QED BY <1>3, <1>4, <1>5, <3>1, <4>1
    <3>2. CASE i # Len(Todo) + 1
      <4>1. /\ cqDone + i \in 1 .. Len(cq) /\ i \in 1 .. Len(cq) - cqDone
            /\ i \in 1 .. Len(cq) + 1 - cqDone /\ i \in 1 .. Len(Todo)
        BY <1>1, <1>2, <2>1, <2>2, <3>2, <1>5
      <4>2. QED BY <1>2, <1>3, <1>4, <1>5, <4>1
    <3>3. QED BY <3>1, <3>2
  <2>3. QED BY <2>1, <2>2
<1>7. Todo' = t
  BY <1>4, <1>5, <1>6, SeqEqual
<1>8. Count(t, x) = Count(Todo, x) + One(o, x)
  <2>1. Count(Append(Todo, o), x) = Count(Todo, x) + One(o, x)
    BY <1>2, CountAppend, Zenon
  <2>2. QED BY <2>1 DEF t
<1>9. QED BY <1>7, <1>8

\* ... and is discarded with its batch once that is done.
LEMMA TodoAdvances ==
    ASSUME TypeOK, cqDone = cqBatch, cq' = SubSeq(cq, cqBatch + 1, Len(cq)), cqDone' = 0
    PROVE  Todo' = Todo
<1>1. /\ cq \in Seq(Ops) /\ Len(cq) \in Nat /\ cqDone \in 0 .. Len(cq)
  BY LenProperties DEF TypeOK, RingTypeOK
<1>2. cq' = Todo
  BY DEF Todo
<1>3. Todo \in Seq(Ops)
  BY <1>1, AdvanceProperties DEF Todo
<1>4. Todo' = SubSeq(cq', 1, Len(cq'))
  BY DEF Todo
<1>5. QED BY <1>2, <1>3, <1>4, SubSeqFull

-----------------------------------------------------------------------------
(* Every step moves one handle or none. *)

\* Code enters and leaves the stack, and CQEs are handled, in their phases only.
LEMMA PhaseStep == ASSUME Inv, PhaseInv, [Next]_vars PROVE PhaseInv'
<1> USE DEF Inv, TypeOK, ThreadTypeOK, Phases, PhaseInv, ring
<1>1. CASE \/ Run \/ LoopTop \/ DrainCrossQueue \/ TasksDone \/ ReadyDone \/ CheckStopping
           \/ SubmitAndWait \/ WaitReturns \/ WaitInterrupted \/ WaitFails
  BY <1>1 DEF Run, LoopTop, DrainCrossQueue, TasksDone, ReadyDone, CheckStopping, SubmitAndWait,
              WaitReturns, WaitInterrupted, WaitFails, PeekBatch
<1>2. CASE RunTask \/ Resume
  BY <1>2 DEF RunTask, Resume, Enter
<1>3. CASE EventfdOnComplete \/ IoOnComplete \/ TimerfdOnComplete \/ CqAdvance
  BY <1>3 DEF EventfdOnComplete, IoOnComplete, TimerfdOnComplete, CqAdvance, Enter
<1>4. CASE TimerfdReturns
  <2>1. caller = "cqe"
    BY <1>4 DEF TimerfdReturns, BodyInv, Holds
  <2>2. QED BY <1>4, <2>1 DEF TimerfdReturns
<1>5. ASSUME NEW c \in Coros, AwaitIo(c) \/ AwaitThread(c) \/ Finish(c) \/ Spawn(c) \/ PostHere(c)
      PROVE  PhaseInv'
  BY <1>5 DEF AwaitIo, AwaitThread, Finish, Spawn, PostHere, Leave, Running
<1>6. CASE BodyStop
  BY <1>6 DEF BodyStop
<1>7. CASE Others
  BY <1>7 DEF Others, WakeRemote, StopRemote, Post, PostTask, QueueBootTask, PushTask
<1>8. CASE KernelIo \/ KernelWake
  BY <1>8 DEF KernelIo, KernelWake, Complete
<1>9. CASE UNCHANGED vars
  BY <1>9 DEF vars
<1>10. QED
  BY <1>1, <1>2, <1>3, <1>4, <1>5, <1>6, <1>7, <1>8, <1>9 DEF Next, Loop, Body

\* A step that leaves the queues, the stack and the CQ alone.
LEMMA QuietHandles ==
    ASSUME UNCHANGED <<crossTasks, tTmp, crossHandles, ready, stack, cq, cqDone, ext, co>>,
           \A c \in Coros : sq'[c] + inflight'[c] = sq[c] + inflight[c],
           TypeOK, TypeOK'
    PROVE  HandleStep
<1> SUFFICES ASSUME NEW c \in Coros PROVE Stays(c)
  BY DEF HandleStep
<1>1. /\ Asked(c) \in Nat /\ Runnable(c) \in Nat /\ Waiting(c) \in Nat /\ OnStack(c) \in Nat
  BY SumTypes
<1>2. Asked(c)' = Asked(c) /\ OnStack(c)' = OnStack(c) /\ co'[c] = co[c]
  BY DEF Asked, OnStack
<1>3. Todo' = Todo
  BY DEF Todo
<1>4. Runnable(c)' = Runnable(c)
  BY <1>3 DEF Runnable
<1>5. Waiting(c)' = Waiting(c)
  BY DEF Waiting
<1>6. QED BY <1>1, <1>2, <1>4, <1>5 DEF Stays, Moves

\* The loop's own steps between the phases, submission, stop and wakeups are of
\* that kind.
LEMMA QuietSteps ==
    ASSUME Inv, Inv', PhaseInv,
           \/ Run \/ LoopTop \/ TasksDone \/ ReadyDone \/ CheckStopping \/ SubmitAndWait
           \/ WaitReturns \/ WaitInterrupted \/ WaitFails \/ BodyStop
           \/ (\E t \in Threads : WakeRemote(t) \/ StopRemote(t)) \/ UNCHANGED vars
    PROVE  HandleStep
<1>1. TypeOK /\ TypeOK'
  BY DEF Inv
<1>2. \A c \in Coros : c \in Ops /\ sq[c] \in Nat /\ inflight[c] \in Nat
  BY <1>1, OpsMember DEF TypeOK, RingTypeOK
<1>3. CASE Run
  <2>1. /\ UNCHANGED <<crossTasks, tTmp, crossHandles, ready, stack, cq, cqDone, ext, co>>
        /\ inflight' = inflight /\ sq' = Rearm(Rearm(sq, Wake), TimerRd)
    BY <1>3 DEF Run
  <2>2. sq \in [Ops -> Nat] /\ Rearm(sq, Wake) \in [Ops -> Nat]
    BY <1>1, RearmProperties, OpsMember DEF TypeOK, RingTypeOK
  <2>3. \A c \in Coros : sq'[c] = sq[c]
    BY <1>1, <2>1, <2>2, RingKeeps
  <2>4. QED BY <1>1, <2>1, <2>3, QuietHandles
<1>4. CASE LoopTop \/ TasksDone \/ ReadyDone \/ CheckStopping \/ WaitFails
           \/ (\E t \in Threads : WakeRemote(t) \/ StopRemote(t)) \/ UNCHANGED vars
  <2>1. UNCHANGED <<crossTasks, tTmp, crossHandles, ready, stack, cq, cqDone, ext, co, sq, inflight>>
    BY <1>4 DEF LoopTop, TasksDone, ReadyDone, CheckStopping, WaitFails, WakeRemote, StopRemote,
                vars, ring, cross
  <2>2. QED BY <1>1, <2>1, QuietHandles
<1>5. CASE SubmitAndWait
  <2>1. /\ UNCHANGED <<crossTasks, tTmp, crossHandles, ready, stack, cq, cqDone, ext, co>>
        /\ inflight' = Submitted /\ sq' = EmptySq
    BY <1>5 DEF SubmitAndWait, cross
  <2>2. \A c \in Coros : EmptySq[c] = 0 /\ Submitted[c] = inflight[c] + sq[c]
    BY <1>1, <1>2, SubmittedProperties
  <2>3. \A c \in Coros : sq'[c] + inflight'[c] = sq[c] + inflight[c]
    BY <1>2, <2>1, <2>2
  <2>4. QED BY <1>1, <2>1, <2>3, QuietHandles
<1>6. CASE WaitReturns \/ WaitInterrupted
  <2>1. /\ UNCHANGED <<crossTasks, tTmp, crossHandles, ready, stack, cq, ext, co, sq, inflight>>
        /\ cqDone' = 0 /\ cqDone = 0
    BY <1>6 DEF WaitReturns, WaitInterrupted, PeekBatch, cross, PhaseInv
  <2>2. QED BY <1>1, <2>1, QuietHandles
<1>7. CASE BodyStop
  <2>1. /\ UNCHANGED <<crossTasks, tTmp, crossHandles, ready, stack, cq, cqDone, ext, co>>
        /\ StopHere
    BY <1>7 DEF BodyStop, cross
  <2>2. \A c \in Coros : sq'[c] + inflight'[c] = sq[c] + inflight[c]
    BY <1>1, <2>1, RingKeeps
  <2>3. QED BY <1>1, <2>1, <2>2, QuietHandles
<1>8. QED BY <1>3, <1>4, <1>5, <1>6, <1>7

\* A handle held by a thread, or by the code that runs, is posted.
LEMMA PostSteps ==
    ASSUME Inv, Inv', NEW d \in Coros, PostHere(d) \/ \E t \in Threads : Post(t, d)
    PROVE  HandleStep
<1>1. TypeOK /\ TypeOK' /\ crossHandles \in Seq(Coros) /\ ready \in Seq(Coros)
  BY DEF Inv, TypeOK, ThreadTypeOK
<1>2. /\ UNCHANGED <<crossTasks, tTmp, stack, cq, cqDone, co, sq, inflight>>
      /\ d \in ext /\ ext' = ext \ {d}
      /\ \/ crossHandles' = Append(crossHandles, d) /\ ready' = ready
         \/ ready' = Append(ready, d) /\ crossHandles' = crossHandles
  BY DEF PostHere, Post, ring, cross
<1>3. Todo' = Todo
  BY <1>2 DEF Todo
<1>4. ASSUME NEW c \in Coros
      PROVE  Moves(c, 0, One(d, c), -One(d, c), 0)
  <2>1. /\ Count(crossTasks, c) \in Nat /\ Count(tTmp, c) \in Nat
        /\ Count(crossHandles, c) \in Nat /\ Count(ready, c) \in Nat
        /\ Count(stack, c) \in Nat /\ Count(Todo, c) \in Nat
        /\ sq[c] \in Nat /\ inflight[c] \in Nat
    BY <1>1, NumberTypes
  <2>2. One(d, c) \in Nat
    BY DEF One
  <2>3. Count(crossHandles', c) + Count(ready', c) = Count(crossHandles, c) + Count(ready, c) + One(d, c)
    <3>1. /\ Count(Append(crossHandles, d), c) = Count(crossHandles, c) + One(d, c)
          /\ Count(Append(ready, d), c) = Count(ready, c) + One(d, c)
      BY <1>1, CountAppend
    <3>2. CASE crossHandles' = Append(crossHandles, d) /\ ready' = ready
      <4>1. Count(crossHandles', c) = Count(crossHandles, c) + One(d, c) /\ Count(ready', c) = Count(ready, c)
        BY <3>1, <3>2, Zenon
      <4>2. QED BY ONLY <2>1, <2>2, <4>1
    <3>3. CASE ready' = Append(ready, d) /\ crossHandles' = crossHandles
      <4>1. Count(ready', c) = Count(ready, c) + One(d, c) /\ Count(crossHandles', c) = Count(crossHandles, c)
        BY <3>1, <3>3, Zenon
      <4>2. QED BY ONLY <2>1, <2>2, <4>1
    <3>4. QED BY <1>2, <3>2, <3>3, Zenon
  <2>4. Count(crossHandles', c) \in Nat /\ Count(ready', c) \in Nat
    BY <1>1, CountType DEF TypeOK, ThreadTypeOK
  <2>5. Runnable(c)' = Runnable(c) + One(d, c)
    BY <1>3, <2>1, <2>2, <2>3, <2>4 DEF Runnable
  <2>6. Waiting(c)' = Waiting(c) - One(d, c)
    BY <1>2, <2>1 DEF Waiting, One
  <2>7. Asked(c)' = Asked(c) + 0 /\ OnStack(c)' = OnStack(c) + 0
    BY <1>2, <2>1 DEF Asked, OnStack
  <2>8. Waiting(c) \in Nat
    BY <1>1, SumTypes
  <2>9. Waiting(c)' = Waiting(c) + (-One(d, c))
    BY <2>2, <2>6, <2>8
  <2>10. QED BY <2>5, <2>7, <2>9 DEF Moves
<1>5. One(d, d) = 1 /\ \A c \in Coros \ {d} : One(d, c) = 0
  BY DEF One
<1>6. MoveOf(d)
  <2>1. Moves(d, 0, 1, -1, 0)
    BY <1>4, <1>5
  <2>2. QED BY <1>2, <2>1 DEF MoveOf
<1>7. \A c \in Coros \ {d} : Stays(c)
  <2>1. ASSUME NEW c \in Coros \ {d} PROVE Moves(c, 0, 0, 0, 0)
    <3>1. Moves(c, 0, 0, -0, 0)
      BY <1>4, <1>5
    <3>2. QED BY <3>1
  <2>2. QED BY <1>2, <2>1 DEF Stays
<1>8. QED BY <1>6, <1>7 DEF HandleStep

\* A task is posted: a coroutine to be spawned, or a stop task.
LEMMA PushSteps ==
    ASSUME Inv, Inv', NEW d \in Tasks, PushTask(d)
    PROVE  HandleStep
<1>1. TypeOK /\ TypeOK' /\ crossTasks \in Seq(Tasks)
  BY DEF Inv, TypeOK, ThreadTypeOK
<1>2. /\ UNCHANGED <<crossHandles, ready, tTmp, stack, cq, cqDone, ext, sq, inflight>>
      /\ crossTasks' = Append(crossTasks, d)
      /\ co' = [c \in Coros |-> IF c = d THEN "queued" ELSE co[c]]
      /\ d \in Coros => co[d] = "new"
  BY Distinct DEF PushTask, Postable, ring
<1>3. Todo' = Todo
  BY <1>2 DEF Todo
<1>4. ASSUME NEW c \in Coros
      PROVE  /\ Asked(c)' = Asked(c) + One(d, c) /\ Runnable(c)' = Runnable(c)
             /\ Waiting(c)' = Waiting(c) /\ OnStack(c)' = OnStack(c)
             /\ Runnable(c) \in Nat /\ Waiting(c) \in Nat /\ OnStack(c) \in Nat
             /\ Asked(c) \in Nat
  <2>1. Count(crossTasks, c) \in Nat /\ Count(tTmp, c) \in Nat /\ One(d, c) \in Nat
    BY <1>1, NumberTypes DEF One
  <2>2. Count(crossTasks', c) = Count(crossTasks, c) + One(d, c) /\ Count(tTmp', c) = Count(tTmp, c)
    BY <1>1, <1>2, CountAppend, Zenon
  <2>3. Asked(c)' = Asked(c) + One(d, c)
    BY ONLY <2>1, <2>2 DEF Asked
  <2>4. Runnable(c)' = Runnable(c) /\ Waiting(c)' = Waiting(c) /\ OnStack(c)' = OnStack(c)
    BY <1>2, <1>3 DEF Runnable, Waiting, OnStack
  <2>5. QED BY <1>1, <2>3, <2>4, SumTypes
<1>5. ASSUME NEW c \in Coros, c # d PROVE Stays(c)
  <2>1. One(d, c) = 0 /\ co'[c] = co[c]
    BY <1>2, <1>5 DEF One
  <2>2. QED BY <1>4, <2>1 DEF Stays, Moves
<1>6. CASE d \in Coros
  <2>1. One(d, d) = 1 /\ co'[d] = "queued" /\ co[d] = "new"
    BY <1>2, <1>6 DEF One
  <2>2. MoveOf(d)
    BY <1>4, <1>6, <2>1 DEF MoveOf, Moves
  <2>3. QED BY <1>5, <1>6, <2>2 DEF HandleStep
<1>7. CASE d \notin Coros
  BY <1>5, <1>7 DEF HandleStep
<1>8. QED BY <1>6, <1>7

\* drain_cross_queue takes the handles to ready_ and the tasks to t_tmp.
LEMMA DrainStep ==
    ASSUME Inv, Inv', DrainCrossQueue
    PROVE  HandleStep
<1>1. /\ TypeOK /\ TypeOK' /\ crossHandles \in Seq(Coros) /\ ready \in Seq(Coros)
  BY DEF Inv, TypeOK, ThreadTypeOK
<1>2. /\ UNCHANGED <<stack, cq, cqDone, ext, sq, inflight, co>>
      /\ ready' = ready \o crossHandles /\ tTmp' = crossTasks
      /\ crossHandles' = <<>> /\ crossTasks' = <<>>
      /\ tTmp = <<>>
  BY DEF DrainCrossQueue, ring, Inv, LocalInv
<1>3. Todo' = Todo
  BY <1>2 DEF Todo
<1>4. ASSUME NEW c \in Coros PROVE Stays(c)
  <2>1. /\ Count(crossTasks, c) \in Nat /\ Count(tTmp, c) = 0 /\ Count(<<>>, c) = 0
        /\ Count(crossHandles, c) \in Nat /\ Count(ready, c) \in Nat /\ Count(Todo, c) \in Nat
    BY <1>1, <1>2, NumberTypes, CountEmpty
  <2>2. Count(ready', c) = Count(ready, c) + Count(crossHandles, c)
    BY <1>1, <1>2, CountConcat, Zenon
  <2>3. /\ Count(crossHandles', c) = 0 /\ Count(crossTasks', c) = 0
        /\ Count(tTmp', c) = Count(crossTasks, c) /\ Count(Todo', c) = Count(Todo, c)
    BY <1>2, <1>3, <2>1
  <2>4. Asked(c)' = Asked(c)
    BY ONLY <2>1, <2>3 DEF Asked
  <2>5. Runnable(c)' = Runnable(c)
    BY ONLY <2>1, <2>2, <2>3 DEF Runnable
  <2>6. Waiting(c)' = Waiting(c) /\ OnStack(c)' = OnStack(c)
    BY <1>2 DEF Waiting, OnStack
  <2>7. Asked(c) \in Nat /\ Runnable(c) \in Nat /\ Waiting(c) \in Nat /\ OnStack(c) \in Nat
    BY <1>1, SumTypes
  <2>8. QED BY <1>2, <2>4, <2>5, <2>6, <2>7 DEF Stays, Moves
<1>5. QED BY <1>4 DEF HandleStep

\* A task of t_tmp is run: it starts its coroutine or stops the loop.
LEMMA RunTaskStep ==
    ASSUME Inv, Inv', PhaseInv, RunTask
    PROVE  HandleStep
<1>1. /\ TypeOK /\ TypeOK' /\ tTmp \in Seq(Tasks) /\ tTmp # <<>> /\ tTmp' = Tail(tTmp)
      /\ stack = <<>>
  BY DEF Inv, TypeOK, ThreadTypeOK, RunTask, PhaseInv
<1>2. UNCHANGED <<crossTasks, crossHandles, ready, cq, cqDone, ext>>
  BY DEF RunTask, cross
<1>3. PICK d \in Tasks : d = Head(tTmp)
  BY <1>1, HeadTailProperties
<1>4. Todo' = Todo
  BY <1>2 DEF Todo
<1>5. ASSUME NEW c \in Coros
      PROVE  /\ Asked(c)' = Asked(c) - One(d, c) /\ Runnable(c)' = Runnable(c)
             /\ Runnable(c) \in Nat /\ Waiting(c) \in Nat /\ OnStack(c) \in Nat
             /\ Asked(c) \in Nat
  <2>1. /\ Count(crossTasks, c) \in Nat /\ Count(tTmp, c) \in Nat /\ One(d, c) \in Nat
        /\ Count(tTmp', c) \in Nat
    BY <1>1, NumberTypes, CountType DEF One, TypeOK, ThreadTypeOK
  <2>2. Count(tTmp, c) = Count(tTmp', c) + One(d, c) /\ Count(crossTasks', c) = Count(crossTasks, c)
    BY <1>1, <1>2, <1>3, CountPop, Zenon
  <2>3. Asked(c)' = Asked(c) - One(d, c)
    BY ONLY <2>1, <2>2 DEF Asked
  <2>4. Runnable(c)' = Runnable(c)
    BY <1>2, <1>4 DEF Runnable
  <2>5. QED BY <1>1, <2>3, <2>4, SumTypes
<1>6. CASE d = StopTask
  <2>1. StopHere /\ UNCHANGED <<stack, co>>
    BY <1>3, <1>6 DEF RunTask
  <2>2. ASSUME NEW c \in Coros PROVE Stays(c)
    <3>1. sq'[c] + inflight'[c] = sq[c] + inflight[c]
      BY <1>1, <2>1, RingKeeps
    <3>2. Waiting(c)' = Waiting(c) /\ OnStack(c)' = OnStack(c)
      BY <1>2, <2>1, <3>1 DEF Waiting, OnStack
    <3>3. One(d, c) = 0
      BY <1>6, Distinct DEF One
    <3>4. QED BY <1>5, <2>1, <3>2, <3>3 DEF Stays, Moves
  <2>3. QED BY <2>2 DEF HandleStep
<1>7. CASE d # StopTask
  <2>1. /\ d \in Coros /\ stack' = <<d>> /\ co' = [co EXCEPT ![d] = "live"]
        /\ UNCHANGED <<sq, inflight>>
    BY <1>3, <1>7 DEF RunTask, Enter, Tasks
  <2>2. co \in [Coros -> {"new", "queued", "live", "done"}]
    BY <1>1 DEF TypeOK, ThreadTypeOK
  <2>3. ASSUME NEW c \in Coros
        PROVE  Waiting(c)' = Waiting(c) /\ OnStack(c)' = One(d, c) /\ OnStack(c) = 0
    <3>1. Count(stack', c) = One(d, c) /\ Count(stack, c) = 0
      BY <1>1, <2>1, CountSingle, CountEmpty
    <3>2. QED BY <1>2, <2>1, <3>1 DEF Waiting, OnStack
  <2>4. ASSUME NEW c \in Coros, c # d PROVE Stays(c)
    <3>1. One(d, c) = 0 /\ co'[c] = co[c]
      BY <2>1, <2>2, <2>4 DEF One
    <3>2. QED BY <1>5, <2>3, <3>1 DEF Stays, Moves
  <2>5. MoveOf(d)
    <3>1. One(d, d) = 1 /\ co'[d] = "live"
      BY <2>1, <2>2 DEF One
    <3>2. /\ Asked(d)' = Asked(d) - 1 /\ Runnable(d)' = Runnable(d) /\ Waiting(d)' = Waiting(d)
          /\ OnStack(d)' = 1 /\ OnStack(d) = 0
      BY <1>5, <2>1, <2>3, <3>1
    <3>3. Asked(d) \in Nat /\ Runnable(d) \in Nat /\ Waiting(d) \in Nat
      BY <1>5, <2>1
    <3>4. Moves(d, -1, 0, 0, 1)
      BY ONLY <3>2, <3>3 DEF Moves
    <3>5. QED BY <1>1, <3>1, <3>4 DEF MoveOf
  <2>6. QED BY <2>1, <2>4, <2>5 DEF HandleStep
<1>8. QED BY <1>6, <1>7

\* A handle of ready_ is resumed: the coroutine runs, and is not done.
LEMMA ResumeStep ==
    ASSUME Inv, Inv', PhaseInv, HandleInv, Resume
    PROVE  HandleStep
<1>1. /\ TypeOK /\ TypeOK' /\ ready \in Seq(Coros) /\ ready # <<>> /\ ready' = Tail(ready)
      /\ stack = <<>>
  BY DEF Inv, TypeOK, ThreadTypeOK, Resume, PhaseInv
<1>2. UNCHANGED <<crossTasks, tTmp, crossHandles, sq, inflight, cq, cqDone, ext, co>>
  BY DEF Resume, cross, ring
<1>3. PICK d \in Coros : d = Head(ready)
  BY <1>1, HeadTailProperties
<1>4. Todo' = Todo
  BY <1>2 DEF Todo
<1>5. ASSUME NEW c \in Coros
      PROVE  /\ Runnable(c)' = Runnable(c) - One(d, c) /\ Runnable(c) >= One(d, c)
             /\ Asked(c)' = Asked(c) /\ Waiting(c)' = Waiting(c)
             /\ Runnable(c) \in Nat /\ Waiting(c) \in Nat /\ OnStack(c) \in Nat
             /\ Asked(c) \in Nat
  <2>1. /\ Count(crossHandles, c) \in Nat /\ Count(ready, c) \in Nat /\ Count(Todo, c) \in Nat
        /\ Count(ready', c) \in Nat /\ One(d, c) \in Nat
    BY <1>1, NumberTypes, CountType DEF One, TypeOK, ThreadTypeOK
  <2>2. /\ Count(ready, c) = Count(ready', c) + One(d, c)
        /\ Count(crossHandles', c) = Count(crossHandles, c) /\ Count(Todo', c) = Count(Todo, c)
    BY <1>1, <1>2, <1>3, <1>4, CountPop, Zenon
  <2>3. Runnable(c)' = Runnable(c) - One(d, c) /\ Runnable(c) >= One(d, c)
    BY ONLY <2>1, <2>2 DEF Runnable
  <2>4. Asked(c)' = Asked(c) /\ Waiting(c)' = Waiting(c)
    BY <1>2 DEF Asked, Waiting
  <2>5. QED BY <1>1, <2>3, <2>4, SumTypes
<1>6. One(d, d) = 1
  BY DEF One
<1>7. co[d] # "done"
  <2>1. Runnable(d) + Waiting(d) + OnStack(d) = One(co[d], "live")
    BY <1>3 DEF HandleInv
  <2>2. Runnable(d) >= 1 /\ Runnable(d) \in Nat /\ Waiting(d) \in Nat /\ OnStack(d) \in Nat
    BY <1>3, <1>5, <1>6
  <2>3. One(co[d], "live") # 0
    BY ONLY <2>1, <2>2
  <2>4. QED BY <2>3 DEF One
<1>8. stack' = <<d>>
  BY <1>3, <1>7 DEF Resume, Enter
<1>9. ASSUME NEW c \in Coros PROVE OnStack(c)' = One(d, c) /\ OnStack(c) = 0
  BY <1>1, <1>8, CountSingle, CountEmpty DEF OnStack
<1>10. ASSUME NEW c \in Coros, c # d PROVE Stays(c)
  <2>1. One(d, c) = 0 /\ co'[c] = co[c]
    BY <1>2, <1>10 DEF One
  <2>2. QED BY <1>5, <1>9, <2>1 DEF Stays, Moves
<1>11. MoveOf(d)
  <2>1. /\ Asked(d)' = Asked(d) /\ Runnable(d)' = Runnable(d) - 1 /\ Waiting(d)' = Waiting(d)
        /\ OnStack(d)' = 1 /\ OnStack(d) = 0
    BY <1>3, <1>5, <1>6, <1>9
  <2>2. Asked(d) \in Nat /\ Runnable(d) \in Nat /\ Waiting(d) \in Nat
    BY <1>3, <1>5
  <2>3. Moves(d, 0, -1, 0, 1)
    BY ONLY <2>1, <2>2 DEF Moves
  <2>4. QED BY <1>1, <1>2, <2>3 DEF MoveOf
<1>12. QED BY <1>3, <1>10, <1>11 DEF HandleStep

\* The completion of a watcher or of the NOP of stop() moves no handle, that of an
\* I/O operation takes its handle from the CQ to ready_.
LEMMA CompletionSteps ==
    ASSUME Inv, Inv', PhaseInv, HandleInv,
           EventfdOnComplete \/ IoOnComplete \/ TimerfdReturns
    PROVE  HandleStep
<1>1. /\ TypeOK /\ TypeOK' /\ ready \in Seq(Coros)
  BY DEF Inv, TypeOK, ThreadTypeOK
<1>2. /\ UNCHANGED <<crossTasks, tTmp, crossHandles, inflight, cq, ext, co>>
      /\ cqDone < cqBatch /\ cqDone' = cqDone + 1
  <2>1. CASE TimerfdReturns
    BY <2>1 DEF TimerfdReturns, cross, Inv, BodyInv, Holds
  <2>2. CASE EventfdOnComplete \/ IoOnComplete
    BY <2>2 DEF EventfdOnComplete, IoOnComplete, cross
  <2>3. QED BY <2>1, <2>2
<1>3. ASSUME NEW c \in Coros
      PROVE  /\ Count(Todo, c) = Count(Todo', c) + One(NextCqe, c)
             /\ Count(Todo', c) \in Nat /\ One(NextCqe, c) \in Nat
  <2>1. Count(Todo, c) = Count(Todo', c) + One(NextCqe, c)
    BY <1>1, <1>2, TodoNext
  <2>2. cq' \in Seq(Ops) /\ cqDone' \in 0 .. Len(cq')
    BY <1>1, LenProperties DEF TypeOK, RingTypeOK
  <2>3. Todo' \in Seq(Ops)
    BY <2>2, AdvanceProperties DEF Todo
  <2>4. QED BY <2>1, <2>3, CountType DEF One
<1>4. ASSUME NEW c \in Coros PROVE sq'[c] = sq[c]
  <2>1. sq \in [Ops -> Nat]
    BY <1>1 DEF TypeOK, RingTypeOK
  <2>2. Rearm(sq, Wake)[c] = sq[c] /\ Rearm(sq, TimerRd)[c] = sq[c]
    BY <1>1, <2>1, RingKeeps
  <2>3. QED BY <2>2 DEF EventfdOnComplete, IoOnComplete, TimerfdReturns
<1>5. ASSUME NEW c \in Coros
      PROVE  Count(ready', c) = Count(ready, c) + One(NextCqe, c) /\ OnStack(c)' = OnStack(c)
  <2>1. CASE IoOnComplete /\ NextCqe \in Coros
    <3> DEFINE d == NextCqe
    <3>1. co[d] # "done"
      <4>1. Count(Todo, d) = Count(Todo', d) + One(d, d) /\ Count(Todo', d) \in Nat /\ One(d, d) = 1
        BY <1>3, <2>1 DEF One
      <4>2. Runnable(d) + Waiting(d) + OnStack(d) = One(co[d], "live")
        BY <2>1 DEF HandleInv
      <4>3. /\ Count(crossHandles, d) \in Nat /\ Count(ready, d) \in Nat
            /\ Waiting(d) \in Nat /\ OnStack(d) \in Nat
        BY <1>1, <2>1, NumberTypes, SumTypes
      <4> HIDE DEF d
      <4>4. One(co[d], "live") # 0
        BY ONLY <4>1, <4>2, <4>3 DEF Runnable
      <4>5. QED BY <4>4 DEF One
    <3>2. ready' = Append(ready, d) /\ stack' = stack
      BY <2>1, <3>1 DEF IoOnComplete
    <3>3. d \in Coros
      BY <2>1
    <3>4. Count(Append(ready, d), c) = Count(ready, c) + One(d, c)
      BY <1>1, <3>3, CountAppend, Zenon
    <3>5. QED BY <3>2, <3>4 DEF OnStack
  <2>2. CASE ~(IoOnComplete /\ NextCqe \in Coros)
    <3>1. ready' = ready /\ NextCqe \in {Wake, TimerRd, Nop}
      BY <2>2 DEF EventfdOnComplete, IoOnComplete, TimerfdReturns, NextCqe, Inv, BodyInv, Holds
    <3>2. One(NextCqe, c) = 0
      BY <3>1, Distinct DEF One
    <3>3. Count(ready, c) \in Nat
      BY <1>1, NumberTypes
    <3>4. OnStack(c)' = OnStack(c)
      <4>1. CASE stack' = stack
        BY <4>1 DEF OnStack
      <4>2. CASE stack = <<TimerRd>> /\ stack' = <<>>
        <5>1. Count(<<TimerRd>>, c) = One(TimerRd, c) /\ Count(<<>>, c) = 0
          BY CountSingle, CountEmpty
        <5>2. One(TimerRd, c) = 0
          BY Distinct DEF One
        <5>3. QED BY <4>2, <5>1, <5>2 DEF OnStack
      <4>3. QED BY <4>1, <4>2 DEF EventfdOnComplete, IoOnComplete, TimerfdReturns
    <3>5. QED BY <3>1, <3>2, <3>3, <3>4
  <2>3. QED BY <2>1, <2>2
<1>6. ASSUME NEW c \in Coros PROVE Stays(c)
  <2>1. Count(crossHandles, c) \in Nat /\ Count(ready, c) \in Nat /\ Count(Todo, c) \in Nat
    BY <1>1, NumberTypes
  <2>2. Count(crossHandles', c) = Count(crossHandles, c)
    BY <1>2
  <2>3. Runnable(c)' = Runnable(c)
    <3> DEFINE e == One(NextCqe, c)
    <3>1. /\ Count(Todo, c) = Count(Todo', c) + e /\ Count(ready', c) = Count(ready, c) + e
          /\ Count(Todo', c) \in Nat /\ e \in Nat
      BY <1>3, <1>5
    <3> HIDE DEF e
    <3>2. QED BY ONLY <2>1, <2>2, <3>1 DEF Runnable
  <2>4. Asked(c)' = Asked(c) /\ Waiting(c)' = Waiting(c) /\ OnStack(c)' = OnStack(c)
    BY <1>2, <1>4, <1>5 DEF Asked, Waiting
  <2>5. Asked(c) \in Nat /\ Runnable(c) \in Nat /\ Waiting(c) \in Nat /\ OnStack(c) \in Nat
    BY <1>1, SumTypes
  <2>6. QED BY <1>2, <2>3, <2>4, <2>5 DEF Stays, Moves
<1>7. QED BY <1>6 DEF HandleStep

\* A timer callback is entered, and a handled batch discarded, without touching a handle.
LEMMA BatchSteps ==
    ASSUME Inv, Inv', PhaseInv, TimerfdOnComplete \/ CqAdvance
    PROVE  HandleStep
<1>1. TypeOK /\ TypeOK'
  BY DEF Inv
<1>2. UNCHANGED <<crossTasks, tTmp, crossHandles, ready, ext, co, sq, inflight>>
  BY DEF TimerfdOnComplete, CqAdvance, cross, ring
<1>3. Todo' = Todo
  <2>1. CASE TimerfdOnComplete
    BY <2>1 DEF TimerfdOnComplete, ring, Todo
  <2>2. CASE CqAdvance
    BY <1>1, <2>2, TodoAdvances DEF CqAdvance
  <2>3. QED BY <2>1, <2>2
<1>4. ASSUME NEW c \in Coros PROVE Stays(c)
  <2>1. OnStack(c)' = OnStack(c)
    <3>1. CASE CqAdvance
      BY <3>1 DEF CqAdvance, OnStack
    <3>2. CASE TimerfdOnComplete
      <4>1. stack = <<>> /\ stack' = <<TimerRd>>
        BY <3>2 DEF TimerfdOnComplete, Enter, PhaseInv
      <4>2. Count(<<TimerRd>>, c) = One(TimerRd, c) /\ Count(<<>>, c) = 0
        BY CountSingle, CountEmpty
      <4>3. One(TimerRd, c) = 0
        BY Distinct DEF One
      <4>4. QED BY <4>1, <4>2, <4>3 DEF OnStack
    <3>3. QED BY <3>1, <3>2
  <2>2. Asked(c)' = Asked(c) /\ Waiting(c)' = Waiting(c) /\ Runnable(c)' = Runnable(c)
    BY <1>2, <1>3 DEF Asked, Waiting, Runnable
  <2>3. Asked(c) \in Nat /\ Runnable(c) \in Nat /\ Waiting(c) \in Nat /\ OnStack(c) \in Nat
    BY <1>1, SumTypes
  <2>4. QED BY <1>2, <2>1, <2>2, <2>3 DEF Stays, Moves
<1>5. QED BY <1>4 DEF HandleStep

\* Code that gives control back takes its own handle off the stack.
LEMMA LeavesStack ==
    ASSUME Inv, NEW d \in Coros, Running(d), Leave, NEW c \in Coros
    PROVE  OnStack(c) = OnStack(c)' + One(d, c) /\ OnStack(c)' \in Nat
<1>1. stack \in Seq(Coros \cup {TimerRd}) /\ stack # <<>> /\ Head(stack) = d
  BY DEF Inv, TypeOK, ThreadTypeOK, BodyInv, Running
<1>2. Tail(stack) \in Seq(Coros \cup {TimerRd}) /\ stack' = Tail(stack)
  BY <1>1, HeadTailProperties DEF Leave
<1>3. Count(stack, c) = Count(Tail(stack), c) + One(Head(stack), c)
  BY <1>1, CountPop
<1>4. Count(Tail(stack), c) \in Nat
  BY <1>2, CountType
<1>5. QED BY <1>1, <1>2, <1>3, <1>4 DEF OnStack

\* A coroutine suspends: it leaves its handle to the kernel or to a thread.
LEMMA SuspendSteps ==
    ASSUME Inv, Inv', PhaseInv, HandleInv, NEW d \in Coros, AwaitIo(d) \/ AwaitThread(d)
    PROVE  HandleStep
<1>1. TypeOK /\ TypeOK' /\ sq \in [Ops -> Nat] /\ d \in Ops /\ Coros \subseteq Ops
  BY OpsMember DEF Inv, TypeOK, RingTypeOK
<1>2. UNCHANGED <<crossTasks, tTmp, crossHandles, ready, inflight, cq, cqDone, co>>
  BY DEF AwaitIo, AwaitThread, cross, ring
<1>3. Todo' = Todo
  BY <1>2 DEF Todo
<1>4. CASE AwaitIo(d) /\ ~HasSqe(sq)
  <2>1. UNCHANGED <<sq, stack, ext>>
    BY <1>4 DEF AwaitIo
  <2>2. QED BY <1>1, <1>2, <2>1, QuietHandles
<1>5. CASE AwaitThread(d) \/ HasSqe(sq)
  <2>1. /\ Running(d) /\ Leave
        /\ \/ sq' = [sq EXCEPT ![d] = @ + 1] /\ ext' = ext
           \/ ext' = ext \cup {d} /\ sq' = sq
    BY <1>5 DEF AwaitIo, AwaitThread, ring
  <2>2. d \notin ext
    <3>1. OnStack(d) = OnStack(d)' + 1 /\ OnStack(d)' \in Nat
      BY <2>1, LeavesStack DEF One
    <3>2. Runnable(d) + Waiting(d) + OnStack(d) = One(co[d], "live") /\ One(co[d], "live") <= 1
      BY DEF HandleInv, One
    <3>3. Runnable(d) \in Nat /\ Waiting(d) \in Nat /\ sq[d] \in Nat /\ inflight[d] \in Nat
      BY <1>1, SumTypes, NumberTypes
    <3>4. Waiting(d) = 0
      BY ONLY <3>1, <3>2, <3>3
    <3>5. QED BY <3>3, <3>4 DEF Waiting
  <2>3. ASSUME NEW c \in Coros
        PROVE  /\ Asked(c)' = Asked(c) /\ Runnable(c)' = Runnable(c)
               /\ Waiting(c)' = Waiting(c) + One(d, c)
               /\ OnStack(c)' = OnStack(c) - One(d, c) /\ co'[c] = co[c]
               /\ Asked(c) \in Nat /\ Runnable(c) \in Nat /\ Waiting(c) \in Nat
               /\ OnStack(c) \in Nat
    <3>1. Asked(c)' = Asked(c) /\ Runnable(c)' = Runnable(c) /\ co'[c] = co[c]
      BY <1>2, <1>3 DEF Asked, Runnable
    <3>2. OnStack(c) = OnStack(c)' + One(d, c) /\ OnStack(c)' \in Nat /\ One(d, c) \in Nat
      BY <2>1, LeavesStack DEF One
    <3>3. sq[c] \in Nat /\ inflight[c] \in Nat /\ inflight'[c] = inflight[c]
      BY <1>1, <1>2, NumberTypes
    <3>4. \/ sq'[c] = sq[c] + One(d, c) /\ ext' = ext
          \/ sq'[c] = sq[c] /\ ext' = ext \cup {d}
      BY <1>1, <2>1, <3>3 DEF One
    <3>5. Waiting(c)' = Waiting(c) + One(d, c)
      BY <2>2, <3>3, <3>4 DEF Waiting, One
    <3>6. Asked(c) \in Nat /\ Runnable(c) \in Nat /\ Waiting(c) \in Nat /\ OnStack(c) \in Nat
      BY <1>1, SumTypes
    <3>7. OnStack(c)' = OnStack(c) - One(d, c)
      BY ONLY <3>2, <3>6
    <3>8. QED BY <3>1, <3>5, <3>6, <3>7
  <2>4. ASSUME NEW c \in Coros, c # d PROVE Stays(c)
    <3>1. One(d, c) = 0
      BY <2>4 DEF One
    <3>2. QED BY <2>3, <3>1 DEF Stays, Moves
  <2>5. MoveOf(d)
    <3>1. One(d, d) = 1
      BY DEF One
    <3>2. Moves(d, 0, 0, 1, -1)
      BY <2>3, <3>1 DEF Moves
    <3>3. QED BY <1>2, <3>2 DEF MoveOf
  <2>6. QED BY <2>4, <2>5 DEF HandleStep
<1>6. QED BY <1>4, <1>5

\* A coroutine ends: its handle is nowhere afterwards.
LEMMA FinishStep ==
    ASSUME Inv, Inv', PhaseInv, HandleInv, NEW d \in Coros, Finish(d)
    PROVE  HandleStep
<1>1. TypeOK /\ TypeOK' /\ co \in [Coros -> {"new", "queued", "live", "done"}]
  BY DEF Inv, TypeOK, ThreadTypeOK
<1>2. /\ UNCHANGED <<crossTasks, tTmp, crossHandles, ready, sq, inflight, cq, cqDone, ext>>
      /\ Running(d) /\ Leave /\ co' = [co EXCEPT ![d] = "done"]
  BY DEF Finish, cross, ring
<1>3. Todo' = Todo
  BY <1>2 DEF Todo
<1>4. ASSUME NEW c \in Coros
      PROVE  /\ Asked(c)' = Asked(c) /\ Runnable(c)' = Runnable(c) /\ Waiting(c)' = Waiting(c)
             /\ OnStack(c)' = OnStack(c) - One(d, c)
             /\ Asked(c) \in Nat /\ Runnable(c) \in Nat /\ Waiting(c) \in Nat
             /\ OnStack(c) \in Nat
  <2>1. Asked(c)' = Asked(c) /\ Runnable(c)' = Runnable(c) /\ Waiting(c)' = Waiting(c)
    BY <1>2, <1>3 DEF Asked, Runnable, Waiting
  <2>2. OnStack(c) = OnStack(c)' + One(d, c) /\ OnStack(c)' \in Nat /\ One(d, c) \in Nat
    BY <1>2, LeavesStack DEF One
  <2>3. Asked(c) \in Nat /\ Runnable(c) \in Nat /\ Waiting(c) \in Nat /\ OnStack(c) \in Nat
    BY <1>1, SumTypes
  <2>4. OnStack(c)' = OnStack(c) - One(d, c)
    BY ONLY <2>2, <2>3
  <2>5. QED BY <2>1, <2>3, <2>4
<1>5. ASSUME NEW c \in Coros, c # d PROVE Stays(c)
  <2>1. One(d, c) = 0 /\ co'[c] = co[c]
    BY <1>1, <1>2, <1>5 DEF One
  <2>2. QED BY <1>4, <2>1 DEF Stays, Moves
<1>6. MoveOf(d)
  <2>1. One(d, d) = 1 /\ co'[d] = "done"
    BY <1>1, <1>2 DEF One
  <2>2. Moves(d, 0, 0, 0, -1)
    BY <1>4, <2>1 DEF Moves
  <2>3. QED BY <2>1, <2>2 DEF MoveOf
<1>7. QED BY <1>5, <1>6 DEF HandleStep

\* A coroutine is spawned by code that runs: it runs at once, on top of that code.
LEMMA SpawnStep ==
    ASSUME Inv, Inv', PhaseInv, NEW d \in Coros, Spawn(d)
    PROVE  HandleStep
<1>1. /\ TypeOK /\ TypeOK' /\ co \in [Coros -> {"new", "queued", "live", "done"}]
      /\ stack \in Seq(Coros \cup {TimerRd})
  BY DEF Inv, TypeOK, ThreadTypeOK
<1>2. /\ UNCHANGED <<crossTasks, tTmp, crossHandles, ready, sq, inflight, cq, cqDone, ext>>
      /\ stack' = <<d>> \o stack /\ co[d] = "new" /\ co' = [co EXCEPT ![d] = "live"]
  BY DEF Spawn, cross, ring
<1>3. Todo' = Todo
  BY <1>2 DEF Todo
<1>4. ASSUME NEW c \in Coros
      PROVE  /\ Asked(c)' = Asked(c) /\ Runnable(c)' = Runnable(c) /\ Waiting(c)' = Waiting(c)
             /\ OnStack(c)' = OnStack(c) + One(d, c)
             /\ Asked(c) \in Nat /\ Runnable(c) \in Nat /\ Waiting(c) \in Nat
             /\ OnStack(c) \in Nat
  <2>1. Asked(c)' = Asked(c) /\ Runnable(c)' = Runnable(c) /\ Waiting(c)' = Waiting(c)
    BY <1>2, <1>3 DEF Asked, Runnable, Waiting
  <2>2. d \in Coros \cup {TimerRd}
    OBVIOUS
  <2>3. Count(<<d>> \o stack, c) = Count(stack, c) + One(d, c)
    BY <1>1, <2>2, CountPush, Zenon
  <2>4. OnStack(c)' = OnStack(c) + One(d, c)
    BY <1>2, <2>3 DEF OnStack
  <2>5. QED BY <1>1, <2>1, <2>4, SumTypes
<1>5. ASSUME NEW c \in Coros, c # d PROVE Stays(c)
  <2>1. One(d, c) = 0 /\ co'[c] = co[c]
    BY <1>1, <1>2, <1>5 DEF One
  <2>2. QED BY <1>4, <2>1 DEF Stays, Moves
<1>6. MoveOf(d)
  <2>1. One(d, d) = 1 /\ co'[d] = "live"
    BY <1>1, <1>2 DEF One
  <2>2. Moves(d, 0, 0, 0, 1)
    BY <1>4, <2>1 DEF Moves
  <2>3. QED BY <1>2, <2>1, <2>2 DEF MoveOf
<1>7. QED BY <1>5, <1>6 DEF HandleStep

\* The kernel completes an operation: its handle goes to the CQ.
LEMMA KernelSteps ==
    ASSUME Inv, Inv', NEW d \in Ops, Complete(d)
    PROVE  HandleStep
<1>1. TypeOK /\ TypeOK' /\ inflight \in [Ops -> Nat]
  BY DEF Inv, TypeOK, RingTypeOK
<1>2. /\ UNCHANGED <<crossTasks, tTmp, crossHandles, ready, stack, sq, cqDone, ext, co>>
      /\ inflight[d] > 0 /\ inflight' = [inflight EXCEPT ![d] = @ - 1]
      /\ cq' = Append(cq, d)
  BY DEF Complete
<1>3. ASSUME NEW c \in Coros
      PROVE  /\ Asked(c)' = Asked(c) /\ Runnable(c)' = Runnable(c) + One(d, c)
             /\ Waiting(c)' = Waiting(c) - One(d, c) /\ OnStack(c)' = OnStack(c)
             /\ Asked(c) \in Nat /\ Runnable(c) \in Nat /\ Waiting(c) \in Nat
             /\ OnStack(c) \in Nat /\ co'[c] = co[c]
  <2>1. Asked(c)' = Asked(c) /\ OnStack(c)' = OnStack(c) /\ co'[c] = co[c]
    BY <1>2 DEF Asked, OnStack
  <2>2. Count(Todo', c) = Count(Todo, c) + One(d, c)
    BY <1>1, <1>2, TodoArrives
  <2>3. /\ Count(crossHandles, c) \in Nat /\ Count(ready, c) \in Nat /\ Count(Todo, c) \in Nat
        /\ One(d, c) \in Nat /\ sq[c] \in Nat /\ inflight[c] \in Nat
    BY <1>1, NumberTypes DEF One
  <2>4. Count(crossHandles', c) = Count(crossHandles, c) /\ Count(ready', c) = Count(ready, c)
    BY <1>2
  <2>5. Runnable(c)' = Runnable(c) + One(d, c)
    BY ONLY <2>2, <2>3, <2>4 DEF Runnable
  <2>6. inflight'[c] = inflight[c] - One(d, c)
    BY <1>1, <1>2, <2>3, OpsMember DEF One
  <2>7. Waiting(c)' = Waiting(c) - One(d, c)
    BY <1>2, <2>3, <2>6 DEF Waiting
  <2>8. QED BY <1>1, <2>1, <2>5, <2>7, SumTypes
<1>4. ASSUME NEW c \in Coros, c # d PROVE Stays(c)
  <2>1. One(d, c) = 0
    BY <1>4 DEF One
  <2>2. QED BY <1>3, <2>1 DEF Stays, Moves
<1>5. CASE d \in Coros
  <2>1. One(d, d) = 1
    BY DEF One
  <2>2. Moves(d, 0, 1, -1, 0)
    BY <1>3, <1>5, <2>1 DEF Moves
  <2>3. MoveOf(d)
    BY <1>2, <2>2 DEF MoveOf
  <2>4. QED BY <1>4, <1>5, <2>3 DEF HandleStep
<1>6. CASE d \notin Coros
  BY <1>4, <1>6 DEF HandleStep
<1>7. QED BY <1>5, <1>6

\* Every step moves one handle or none.
LEMMA StepMoves ==
    ASSUME Inv, Inv', PhaseInv, HandleInv, [Next]_vars
    PROVE  HandleStep
<1>1. CASE UNCHANGED vars
  BY <1>1, QuietSteps
<1>2. CASE Loop
  <2>1. CASE \/ Run \/ LoopTop \/ TasksDone \/ ReadyDone \/ CheckStopping \/ SubmitAndWait
             \/ WaitReturns \/ BodyStop
    BY <2>1, QuietSteps
  <2>2. CASE DrainCrossQueue
    BY <2>2, DrainStep
  <2>3. CASE RunTask
    BY <2>3, RunTaskStep
  <2>4. CASE Resume
    BY <2>4, ResumeStep
  <2>5. CASE EventfdOnComplete \/ IoOnComplete \/ TimerfdReturns
    BY <2>5, CompletionSteps
  <2>6. CASE TimerfdOnComplete \/ CqAdvance
    BY <2>6, BatchSteps
  <2>7. ASSUME NEW c \in Coros,
               AwaitIo(c) \/ AwaitThread(c) \/ Finish(c) \/ Spawn(c) \/ PostHere(c)
        PROVE  HandleStep
    BY <2>7, SuspendSteps, FinishStep, SpawnStep, PostSteps
  <2>8. QED BY <1>2, <2>1, <2>2, <2>3, <2>4, <2>5, <2>6, <2>7 DEF Loop, Body
<1>3. CASE WaitInterrupted \/ WaitFails
  BY <1>3, QuietSteps
<1>4. CASE Others
  <2>1. CASE \E t \in Threads : WakeRemote(t) \/ StopRemote(t)
    BY <2>1, QuietSteps
  <2>2. CASE \E t \in Threads, c \in Coros : Post(t, c)
    BY <2>2, PostSteps
  <2>3. CASE \/ \E t \in Threads, k \in Tasks : PostTask(t, k)
             \/ \E k \in Tasks : QueueBootTask(k)
    BY <2>3, PushSteps DEF PostTask, QueueBootTask
  <2>4. QED BY <1>4, <2>1, <2>2, <2>3 DEF Others
<1>5. CASE KernelIo \/ KernelWake
  BY <1>5, KernelSteps, OpsMember DEF KernelIo, KernelWake
<1>6. QED BY <1>1, <1>2, <1>3, <1>4, <1>5 DEF Next

-----------------------------------------------------------------------------
(* The results about handles. *)

\* Before the first run() nothing is anywhere.
LEMMA InitHandles == Init => PhaseInv /\ HandleInv
<1> SUFFICES ASSUME Init PROVE PhaseInv /\ HandleInv
  OBVIOUS
<1>1. PhaseInv
  BY DEF Init, PhaseInv
<1>2. Todo = <<>>
  BY DEF Init, Todo
<1>3. ASSUME NEW c \in Coros
      PROVE  /\ Asked(c) = One(co[c], "queued")
             /\ Runnable(c) + Waiting(c) + OnStack(c) = One(co[c], "live")
  <2>1. Count(<<>>, c) = 0 /\ c \in Ops
    BY CountEmpty, OpsMember
  <2>2. Asked(c) = 0 /\ Runnable(c) = 0 /\ OnStack(c) = 0
    BY <1>2, <2>1 DEF Init, Asked, Runnable, OnStack
  <2>3. Waiting(c) = 0 /\ co[c] = "new"
    BY <2>1 DEF Init, Waiting
  <2>4. QED BY <2>2, <2>3 DEF One
<1>4. QED BY <1>1, <1>3 DEF HandleInv

\* Every reachable state has its handles in their places.
LEMMA HandlesInPlace == Spec => [](Inv /\ PhaseInv /\ HandleInv)
<1>1. Init => Inv /\ PhaseInv /\ HandleInv
  BY InitInv, InitHandles
<1>2. Inv /\ PhaseInv /\ HandleInv /\ [Next]_vars => (Inv /\ PhaseInv /\ HandleInv)'
  <2> SUFFICES ASSUME Inv, PhaseInv, HandleInv, [Next]_vars
               PROVE  Inv' /\ PhaseInv' /\ HandleInv'
    OBVIOUS
  <2>1. Inv'
    BY StepInv
  <2>2. PhaseInv'
    BY PhaseStep
  <2>3. HandleStep
    BY <2>1, StepMoves
  <2>4. HandleInv'
    BY <2>1, <2>3, MovesKeep DEF Inv
  <2>5. QED BY <2>1, <2>2, <2>4
<1>3. QED BY <1>1, <1>2, PTL DEF Spec

\* Every coroutine that was started and has not finished has its handle in exactly
\* one place, and no other has one anywhere, for any number of coroutines, threads
\* and runs: through posts, drains, batches of completions that the kernel appends
\* to meanwhile, a full SQ, stop and a second run(), no handle is lost, none is
\* resumed twice, none is resumed after its frame is gone.
THEOREM HandlesOwnedOnce == Spec => []HandleOwnedOnce
<1>1. ASSUME Inv, HandleInv PROVE HandleOwnedOnce
  <2> SUFFICES ASSUME NEW c \in Coros
               PROVE  Places(c) = IF co[c] \in {"queued", "live"} THEN 1 ELSE 0
    BY DEF HandleOwnedOnce
  <2>1. /\ Count(crossTasks, c) \in Nat /\ Count(tTmp, c) \in Nat
        /\ Count(crossHandles, c) \in Nat /\ Count(ready, c) \in Nat
        /\ Count(stack, c) \in Nat /\ Count(Todo, c) \in Nat
        /\ sq[c] \in Nat /\ inflight[c] \in Nat
    BY <1>1, NumberTypes DEF Inv
  <2>2. Places(c) = Count(crossTasks, c) + Count(tTmp, c) + Count(crossHandles, c)
                    + Count(ready, c) + Count(stack, c) + sq[c] + inflight[c]
                    + Count(Todo, c) + (IF c \in ext THEN 1 ELSE 0)
    BY DEF Places, Count, Todo
  <2>3. Places(c) = Asked(c) + Runnable(c) + Waiting(c) + OnStack(c)
    BY <2>1, <2>2 DEF Asked, Runnable, Waiting, OnStack
  <2>4. /\ Asked(c) = One(co[c], "queued")
        /\ Runnable(c) + Waiting(c) + OnStack(c) = One(co[c], "live")
    BY <1>1 DEF HandleInv
  <2>5. Asked(c) \in Nat /\ Runnable(c) \in Nat /\ Waiting(c) \in Nat /\ OnStack(c) \in Nat
    BY <1>1, SumTypes DEF Inv
  <2>6. Places(c) = One(co[c], "queued") + One(co[c], "live")
    BY ONLY <2>3, <2>4, <2>5
  <2>7. QED BY <2>6 DEF One
<1>2. QED BY <1>1, HandlesInPlace, PTL

-----------------------------------------------------------------------------
(* The event loop implements the abstract executor. *)

\* How far a coroutine has come is told by the place of its handle.
Place(c) == IF co[c] # "live" THEN co[c]
            ELSE IF OnStack(c) = 1 THEN "running"
            ELSE IF Waiting(c) = 1 THEN "waiting" ELSE "runnable"

\* What the books say about one coroutine.
Booked(c) ==
    /\ co[c] \in {"new", "queued", "live", "done"}
    /\ Status(c) = Place(c)
    /\ Asked(c) \in Nat /\ Runnable(c) \in Nat /\ Waiting(c) \in Nat /\ OnStack(c) \in Nat
    /\ Asked(c) = One(co[c], "queued")
    /\ Runnable(c) + Waiting(c) + OnStack(c) = One(co[c], "live")
    /\ stack = <<>> => OnStack(c) = 0

\* The status the executor is shown is the place of the handle.
LEMMA StatusIsPlace == TypeOK /\ HandleInv => \A c \in Coros : Booked(c)
<1> SUFFICES ASSUME TypeOK, HandleInv, NEW c \in Coros PROVE Booked(c)
  OBVIOUS
<1>1. co[c] \in {"new", "queued", "live", "done"} /\ stack \in Seq(Coros \cup {TimerRd})
  BY DEF TypeOK, ThreadTypeOK
<1>2. Asked(c) \in Nat /\ Runnable(c) \in Nat /\ Waiting(c) \in Nat /\ OnStack(c) \in Nat
  BY SumTypes
<1>3. /\ Asked(c) = One(co[c], "queued")
      /\ Runnable(c) + Waiting(c) + OnStack(c) = One(co[c], "live")
  BY DEF HandleInv
<1>4. Count(stack, c) > 0 <=> Holds(stack, c)
  BY <1>1, CountType
<1>5. sq[c] \in Nat /\ inflight[c] \in Nat
  BY NumberTypes
<1>6. Waiting(c) > 0 <=> sq[c] + inflight[c] > 0 \/ c \in ext
  BY <1>5 DEF Waiting
<1>7. CASE co[c] = "live"
  <2>1. Runnable(c) + Waiting(c) + OnStack(c) = 1
    BY <1>3, <1>7 DEF One
  <2>2. /\ OnStack(c) = 1 <=> OnStack(c) > 0
        /\ Waiting(c) = 1 <=> Waiting(c) > 0
    BY ONLY <1>2, <2>1
  <2>3. OnStack(c) = 1 <=> Holds(stack, c)
    BY <1>4, <2>2 DEF OnStack
  <2>4. Waiting(c) = 1 <=> sq[c] + inflight[c] > 0 \/ c \in ext
    BY <1>6, <2>2
  <2>5. Status(c) = Place(c)
    <3>1. CASE OnStack(c) = 1
      <4>1. Waiting(c) # 1
        BY ONLY <1>2, <2>1, <3>1
      <4>2. Holds(stack, c) /\ ~(sq[c] + inflight[c] > 0 \/ c \in ext)
        BY <2>3, <2>4, <3>1, <4>1
      <4>3. Status(c) = "running"
        BY <1>7, <4>2 DEF Status
      <4>4. QED BY <1>7, <3>1, <4>3 DEF Place
    <3>2. CASE OnStack(c) # 1
      <4>1. ~Holds(stack, c)
        BY <2>3, <3>2
      <4>2. Status(c) = IF sq[c] + inflight[c] > 0 \/ c \in ext THEN "waiting" ELSE "runnable"
        BY <1>7, <4>1 DEF Status
      <4>3. QED BY <1>7, <2>4, <3>2, <4>2 DEF Place
    <3>3. QED BY <3>1, <3>2
  <2>6. stack = <<>> => OnStack(c) = 0
    BY CountEmpty DEF OnStack
  <2>7. QED BY <1>1, <1>2, <1>3, <2>5, <2>6 DEF Booked
<1>8. CASE co[c] # "live"
  <2>1. Status(c) = Place(c)
    <3>1. OnStack(c) = 0 /\ Waiting(c) = 0
      BY <1>2, <1>3, <1>8 DEF One
    <3>2. ~Holds(stack, c) /\ ~(sq[c] + inflight[c] > 0 \/ c \in ext)
      BY <1>4, <1>6, <3>1 DEF OnStack
    <3>3. co[c] \in {"new", "queued", "done"}
      BY <1>1, <1>8
    <3>4. Status(c) = co[c]
      BY <3>2, <3>3 DEF Status
    <3>5. QED BY <1>8, <3>4 DEF Place
  <2>2. stack = <<>> => OnStack(c) = 0
    BY CountEmpty DEF OnStack
  <2>3. QED BY <1>1, <1>2, <1>3, <2>1, <2>2 DEF Booked
<1>9. QED BY <1>7, <1>8

\* A step that moves one handle is a step of the executor, one that moves none is
\* not visible to it.
LEMMA MovesImplement ==
    ASSUME \A c \in Coros : Booked(c), \A c \in Coros : Booked(c)', HandleStep
    PROVE  [Promise!ExecNext]_([c \in Coros |-> Status(c)])
<1>1. ASSUME NEW c \in Coros, Stays(c) PROVE Status(c)' = Status(c)
  <2>1. Booked(c) /\ Booked(c)'
    OBVIOUS
  <2>2. OnStack(c)' = OnStack(c) /\ Waiting(c)' = Waiting(c) /\ co'[c] = co[c]
    BY <1>1, <2>1 DEF Stays, Moves, Booked
  <2>3. Place(c)' = Place(c)
    BY <2>2 DEF Place
  <2>4. QED BY <2>1, <2>3 DEF Booked
<1>2. CASE \A c \in Coros : Stays(c)
  <2>1. \A c \in Coros : Status(c)' = Status(c)
    BY <1>1, <1>2
  <2>2. QED BY <2>1
<1>3. ASSUME NEW d \in Coros, MoveOf(d), \A c \in Coros \ {d} : Stays(c)
      PROVE  [Promise!ExecNext]_([c \in Coros |-> Status(c)])
  <2> DEFINE st == [c \in Coros |-> Status(c)]
  <2>1. \A c \in Coros \ {d} : Status(c)' = Status(c)
    BY <1>1, <1>3
  <2>2. Booked(d) /\ Booked(d)'
    OBVIOUS
  <2>3. ASSUME NEW from, NEW to, Status(d) = from, Status(d)' = to
        PROVE  Promise!Move(d, from, to)
    BY <2>1, <2>3 DEF Promise!Move
  <2>4. stack = <<>> => Promise!Idle
    <3> SUFFICES ASSUME stack = <<>>, NEW c \in Coros PROVE Status(c) # "running"
      BY DEF Promise!Idle
    <3>1. Booked(c)
      OBVIOUS
    <3>2. OnStack(c) = 0 /\ Status(c) = Place(c) /\ co[c] \in {"new", "queued", "live", "done"}
      BY <3>1 DEF Booked
    <3>3. QED BY <3>2 DEF Place
  <2>5. Promise!Enqueue(d) \/ Promise!StartQueued(d) \/ Promise!StartNested(d) \/ Promise!Suspend(d)
        \/ Promise!MakeRunnable(d) \/ Promise!ResumeOne(d) \/ Promise!End(d)
    <3>1. CASE co[d] = "new" /\ co'[d] = "queued" /\ Moves(d, 1, 0, 0, 0)
      <4>1. Status(d) = "new" /\ Status(d)' = "queued"
        BY <2>2, <3>1 DEF Booked, Place
      <4>2. QED BY <2>3, <4>1 DEF Promise!Enqueue
    <3>2. CASE co[d] = "new" /\ co'[d] = "live" /\ Moves(d, 0, 0, 0, 1)
      <4>1. OnStack(d)' = 1
        BY <2>2, <3>2 DEF Booked, Moves, One
      <4>2. Status(d) = "new" /\ Status(d)' = "running"
        BY <2>2, <3>2, <4>1 DEF Booked, Place
      <4>3. QED BY <2>3, <4>2 DEF Promise!StartNested
    <3>3. CASE stack = <<>> /\ co'[d] = "live" /\ Moves(d, -1, 0, 0, 1)
      <4>1. co[d] = "queued"
        BY <2>2, <3>3 DEF Booked, Moves, One
      <4>2. OnStack(d)' = 1
        BY <2>2, <3>3, <4>1 DEF Booked, Moves, One
      <4>3. Status(d) = "queued" /\ Status(d)' = "running"
        BY <2>2, <3>3, <4>1, <4>2 DEF Booked, Place
      <4>4. QED BY <2>3, <2>4, <3>3, <4>3 DEF Promise!StartQueued
    <3>4. CASE stack = <<>> /\ co'[d] = co[d] /\ Moves(d, 0, -1, 0, 1)
      <4>1. co[d] = "live" /\ Runnable(d) = 1 /\ OnStack(d) = 0 /\ Waiting(d) = 0
        <5>1. Runnable(d) >= 1
          BY <2>2, <3>4 DEF Booked, Moves
        <5>2. /\ Runnable(d) \in Nat /\ Waiting(d) \in Nat /\ OnStack(d) \in Nat
              /\ Runnable(d) + Waiting(d) + OnStack(d) = One(co[d], "live")
          BY <2>2 DEF Booked
        <5>3. QED BY ONLY <5>1, <5>2 DEF One
      <4>2. OnStack(d)' = 1
        BY <2>2, <3>4, <4>1 DEF Booked, Moves, One
      <4>3. Status(d) = "runnable" /\ Status(d)' = "running"
        BY <2>2, <3>4, <4>1, <4>2 DEF Booked, Place
      <4>4. QED BY <2>3, <2>4, <3>4, <4>3 DEF Promise!ResumeOne
    <3>5. CASE co'[d] = co[d] /\ Moves(d, 0, 0, 1, -1)
      <4>1. co[d] = "live" /\ OnStack(d) = 1 /\ Waiting(d) = 0
        BY <2>2, <3>5 DEF Booked, Moves, One
      <4>2. OnStack(d)' = 0 /\ Waiting(d)' = 1
        BY <2>2, <3>5, <4>1 DEF Booked, Moves, One
      <4>3. Status(d) = "running" /\ Status(d)' = "waiting"
        BY <2>2, <3>5, <4>1, <4>2 DEF Booked, Place
      <4>4. QED BY <2>3, <4>3 DEF Promise!Suspend
    <3>6. CASE co'[d] = co[d] /\ Moves(d, 0, 1, -1, 0)
      <4>1. co[d] = "live" /\ OnStack(d) = 0 /\ Waiting(d) = 1
        <5>1. Waiting(d) >= 1
          BY <2>2, <3>6 DEF Booked, Moves
        <5>2. /\ Runnable(d) \in Nat /\ Waiting(d) \in Nat /\ OnStack(d) \in Nat
              /\ Runnable(d) + Waiting(d) + OnStack(d) = One(co[d], "live")
          BY <2>2 DEF Booked
        <5>3. QED BY ONLY <5>1, <5>2 DEF One
      <4>2. OnStack(d)' = 0 /\ Waiting(d)' = 0
        BY <2>2, <3>6, <4>1 DEF Booked, Moves, One
      <4>3. Status(d) = "waiting" /\ Status(d)' = "runnable"
        BY <2>2, <3>6, <4>1, <4>2 DEF Booked, Place
      <4>4. QED BY <2>3, <4>3 DEF Promise!MakeRunnable
    <3>7. CASE co'[d] = "done" /\ Moves(d, 0, 0, 0, -1)
      <4>1. co[d] = "live" /\ OnStack(d) = 1
        <5>1. OnStack(d) >= 1
          BY <2>2, <3>7 DEF Booked, Moves
        <5>2. /\ Runnable(d) \in Nat /\ Waiting(d) \in Nat /\ OnStack(d) \in Nat
              /\ Runnable(d) + Waiting(d) + OnStack(d) = One(co[d], "live")
          BY <2>2 DEF Booked
        <5>3. QED BY ONLY <5>1, <5>2 DEF One
      <4>2. Status(d) = "running" /\ Status(d)' = "done"
        BY <2>2, <3>7, <4>1 DEF Booked, Place
      <4>3. QED BY <2>3, <4>2 DEF Promise!End
    <3>8. QED BY <1>3, <3>1, <3>2, <3>3, <3>4, <3>5, <3>6, <3>7 DEF MoveOf
  <2>6. QED BY <2>5 DEF Promise!ExecNext
<1>4. QED BY <1>2, <1>3 DEF HandleStep

\* The scheduler keeps the executor's promise for every number of coroutines,
\* threads and runs: a coroutine is started once, resumed once for each time it was
\* made runnable and never while it waits for the kernel or a thread, and nothing is
\* started from the queue or resumed while other code runs on the loop thread.
THEOREM PromiseKept == Spec => ImplementsExecutor
<1>1. Init => Promise!ExecInit
  <2> SUFFICES ASSUME Init, NEW c \in Coros PROVE Status(c) = "new"
    BY DEF Promise!ExecInit
  <2>1. co[c] = "new" /\ ~Holds(stack, c) /\ ~(sq[c] + inflight[c] > 0 \/ c \in ext)
    BY OpsMember DEF Init, Holds
  <2>2. QED BY <2>1 DEF Status
<1>2. (TypeOK /\ HandleInv)' => (\A c \in Coros : Booked(c))'
  BY StatusIsPlace, PTL
<1>3. Inv /\ PhaseInv /\ HandleInv /\ (Inv /\ PhaseInv /\ HandleInv)' /\ [Next]_vars
        => [Promise!ExecNext]_([c \in Coros |-> Status(c)])
  <2> SUFFICES ASSUME Inv, PhaseInv, HandleInv, Inv', HandleInv', [Next]_vars
               PROVE  [Promise!ExecNext]_([c \in Coros |-> Status(c)])
    OBVIOUS
  <2>1. HandleStep
    BY StepMoves
  <2>2. \A c \in Coros : Booked(c)
    BY StatusIsPlace DEF Inv
  <2>3. \A c \in Coros : Booked(c)'
    BY <1>2 DEF Inv
  <2>4. QED BY <2>1, <2>2, <2>3, MovesImplement
<1>4. QED BY <1>1, <1>3, HandlesInPlace, PTL DEF Spec, ImplementsExecutor, Promise!ExecSpec

-----------------------------------------------------------------------------
(* The length of the submission queue. *)

\* A set of naturals has a least element: this is what inductions rest on.
LEMMA LeastNatural ==
    ASSUME NEW T \in SUBSET Nat, T # {}
    PROVE  \E m \in T : \A k \in T : m <= k
<1> DEFINE R == OpToRel(<, Nat)
<1>1. IsWellFoundedOn(R, Nat)
  BY NatLessThanWellFounded
<1>2. \A a, b \in Nat : <<a, b>> \in R <=> a < b
  BY DEF OpToRel
<1> HIDE DEF R
<1>3. PICK m \in T : \A k \in T : ~(<<k, m>> \in R)
  BY <1>1, WFMin
<1>4. \A k \in T : k \in Nat /\ m \in Nat /\ ~(k < m)
  BY <1>2, <1>3
<1>5. \A k \in T : m <= k
  BY <1>4
<1>6. QED BY <1>3, <1>5

\* h adds up the entries of s over a set, one at a time.
AddsUp(h, s, q) ==
    /\ q = {} => h[q] = 0
    /\ q # {} => h[q] = s[CHOOSE x \in q : TRUE] + h[q \ {CHOOSE x \in q : TRUE}]

\* For sets of up to n operations there is such a function ...
LEMMA SumsExist ==
    ASSUME NEW s \in [Ops -> Nat], IsFiniteSet(Ops), NEW n \in Nat
    PROVE  \E h : \A q \in SUBSET Ops : Cardinality(q) <= n => h[q] \in Nat /\ AddsUp(h, s, q)
<1> DEFINE Good(k) == \E h : \A q \in SUBSET Ops : Cardinality(q) <= k => h[q] \in Nat /\ AddsUp(h, s, q)
           T == {k \in Nat : ~Good(k)}
<1>1. SUFFICES ASSUME T # {} PROVE FALSE
  OBVIOUS
<1>2. T \in SUBSET Nat
  OBVIOUS
<1>3. \A q \in SUBSET Ops : /\ IsFiniteSet(q) /\ Cardinality(q) \in Nat
                            /\ Cardinality(q) = 0 <=> q = {}
                            /\ \A x \in q : Cardinality(q \ {x}) = Cardinality(q) - 1
  BY FS_Subset, FS_CardinalityType, FS_EmptySet, FS_RemoveElement
<1> HIDE DEF T, Good
<1>4. PICK m \in T : \A k \in T : m <= k
  BY <1>1, <1>2, LeastNatural
<1>5. m \in Nat /\ ~Good(m)
  BY DEF T
<1>6. CASE m = 0
  <2> DEFINE h == [q \in SUBSET Ops |-> 0]
  <2>1. ASSUME NEW q \in SUBSET Ops, Cardinality(q) <= 0 PROVE h[q] \in Nat /\ AddsUp(h, s, q)
    <3>1. q = {}
      BY <1>3, <2>1
    <3>2. QED BY <3>1 DEF AddsUp
  <2> HIDE DEF h
  <2>2. QED BY <1>5, <1>6, <2>1 DEF Good
<1>7. CASE m # 0
  <2>1. m - 1 \in Nat /\ ~(m <= m - 1)
    BY <1>5, <1>7
  <2>2. Good(m - 1)
    BY <1>4, <2>1 DEF T
  <2>3. PICK g : \A q \in SUBSET Ops : Cardinality(q) <= m - 1 => g[q] \in Nat /\ AddsUp(g, s, q)
    BY <2>2 DEF Good
  <2> DEFINE New(q) == s[CHOOSE x \in q : TRUE] + g[q \ {CHOOSE x \in q : TRUE}]
             h == [q \in SUBSET Ops |-> IF Cardinality(q) <= m - 1 THEN g[q] ELSE New(q)]
  <2>4. ASSUME NEW q \in SUBSET Ops, Cardinality(q) <= m PROVE h[q] \in Nat /\ AddsUp(h, s, q)
    <3>1. CASE q = {}
      <4>1. Cardinality(q) <= m - 1
        BY <1>3, <2>1, <3>1
      <4>2. QED BY <2>3, <3>1, <4>1 DEF AddsUp
    <3>2. CASE q # {}
      <4>1. PICK x \in q : x = CHOOSE y \in q : TRUE
        BY <3>2
      <4>2. q \ {x} \in SUBSET Ops /\ Cardinality(q \ {x}) = Cardinality(q) - 1 /\ Cardinality(q) \in Nat
        BY <1>3
      <4>3. Cardinality(q \ {x}) <= m - 1
        BY <1>5, <2>4, <4>2
      <4>4. h[q \ {x}] = g[q \ {x}] /\ g[q \ {x}] \in Nat /\ s[x] \in Nat
        BY <2>3, <4>2, <4>3
      <4>5. h[q] = s[x] + g[q \ {x}]
        <5>1. CASE Cardinality(q) <= m - 1
          BY <2>3, <3>2, <4>1, <5>1 DEF AddsUp
        <5>2. CASE ~(Cardinality(q) <= m - 1)
          BY <4>1, <5>2
        <5>3. QED BY <5>1, <5>2
      <4> HIDE DEF h
      <4>6. h[q] \in Nat
        BY <4>4, <4>5
      <4>7. AddsUp(h, s, q)
        BY <3>2, <4>1, <4>4, <4>5 DEF AddsUp
      <4>8. QED BY <4>6, <4>7
    <3>3. QED BY <3>1, <3>2
  <2> HIDE DEF h
  <2>5. QED BY <1>5, <2>4 DEF Good
<1>8. QED BY <1>6, <1>7

\* ... so SqLen is the sum it stands for.
LEMMA SqLenAddsUp ==
    ASSUME NEW s \in [Ops -> Nat], IsFiniteSet(Ops)
    PROVE  \E h : SqLen(s) = h[Ops] /\ \A q \in SUBSET Ops : AddsUp(h, s, q)
<1> DEFINE Def(g) == [q \in SUBSET Ops |-> IF q = {} THEN 0
                         ELSE s[CHOOSE x \in q : TRUE] + g[q \ {CHOOSE x \in q : TRUE}]]
           it == CHOOSE g : g = Def(g)
<1>1. SqLen(s) = it[Ops]
  BY DEF SqLen, MapThenSumSet, MapThenFoldSet
<1>2. PICK n \in Nat : n = Cardinality(Ops)
  BY FS_CardinalityType
<1>3. PICK h : \A q \in SUBSET Ops : Cardinality(q) <= n => h[q] \in Nat /\ AddsUp(h, s, q)
  BY SumsExist
<1>4. \A q \in SUBSET Ops : Cardinality(q) <= n
  BY <1>2, FS_Subset
<1> DEFINE f == [q \in SUBSET Ops |-> h[q]]
<1>5. \A q \in SUBSET Ops : AddsUp(h, s, q) /\ f[q] = h[q] /\ q \ {CHOOSE x \in q : TRUE} \in SUBSET Ops
  BY <1>3, <1>4
<1>6. f = Def(f)
  <2>1. ASSUME NEW q \in SUBSET Ops PROVE f[q] = Def(f)[q]
    BY <1>5 DEF AddsUp
  <2>2. QED BY <2>1
<1> HIDE DEF f
<1>7. it = Def(it)
  BY <1>6
<1> HIDE DEF it
<1>8. ASSUME NEW q \in SUBSET Ops PROVE AddsUp(it, s, q)
  <2>1. it[q] = Def(it)[q]
    BY <1>7
  <2>2. QED BY <2>1 DEF AddsUp
<1>9. QED BY <1>1, <1>8

\* The coroutines with an SQE to submit.
Filled(s) == {c \in Coros : s[c] = 1}

\* With at most one SQE per coroutine and no NOP, the SQ holds these, and the reads
\* of the watchers.
LEMMA SqLenBound ==
    ASSUME NEW s \in [Ops -> Nat], IsFiniteSet(Coros), s[Nop] = 0, \A c \in Coros : s[c] <= 1
    PROVE  /\ SqLen(s) \in Nat
           /\ SqLen(s) <= Cardinality(Filled(s)) + s[Wake] + s[TimerRd]
<1>1. IsFiniteSet(Ops)
  <2>1. IsFiniteSet({Wake, TimerRd, Nop})
    <3>1. IsFiniteSet({Wake})
      BY FS_Singleton
    <3>2. IsFiniteSet({Wake} \cup {TimerRd})
      BY <3>1, FS_AddElement
    <3>3. IsFiniteSet(({Wake} \cup {TimerRd}) \cup {Nop})
      BY <3>2, FS_AddElement
    <3>4. {Wake, TimerRd, Nop} = ({Wake} \cup {TimerRd}) \cup {Nop}
      OBVIOUS
    <3>5. QED BY <3>3, <3>4
  <2>2. QED BY <2>1, FS_Union DEF Ops
<1>2. PICK h : SqLen(s) = h[Ops] /\ \A q \in SUBSET Ops : AddsUp(h, s, q)
  BY <1>1, SqLenAddsUp
<1> DEFINE M == Filled(s)
           If(o, q) == IF o \in q THEN s[o] ELSE 0
           Bound(q) == Cardinality(q \cap M) + If(Wake, q) + If(TimerRd, q)
           Good(q) == h[q] \in Nat /\ h[q] <= Bound(q)
           T == {Cardinality(q) : q \in {p \in SUBSET Ops : ~Good(p)}}
<1>3. \A q \in SUBSET Ops : /\ IsFiniteSet(q) /\ Cardinality(q) \in Nat
                            /\ IsFiniteSet(q \cap M) /\ Cardinality(q \cap M) \in Nat
                            /\ \A x \in q : Cardinality(q \ {x}) = Cardinality(q) - 1
  <2>1. \A q \in SUBSET Ops : q \cap M \in SUBSET Ops
    OBVIOUS
  <2> HIDE DEF M
  <2>2. QED BY <1>1, <2>1, FS_Subset, FS_CardinalityType, FS_RemoveElement
<1>4. Wake \in Ops /\ TimerRd \in Ops /\ s[Wake] \in Nat /\ s[TimerRd] \in Nat
  BY OpsMember
<1>5. SUFFICES \A q \in SUBSET Ops : Good(q)
  <2>1. Good(Ops) /\ Ops \cap M = M
    BY OpsMember DEF Filled
  <2> HIDE DEF M
  <2>2. If(Wake, Ops) = s[Wake] /\ If(TimerRd, Ops) = s[TimerRd]
    BY <1>4
  <2>3. QED BY <1>2, <2>1, <2>2 DEF M
<1>6. SUFFICES ASSUME T # {} PROVE FALSE
  OBVIOUS
<1>7. T \in SUBSET Nat
  BY <1>3
<1>8. PICK m \in T : \A k \in T : m <= k
  BY <1>6, <1>7, LeastNatural
<1>9. PICK q \in SUBSET Ops : ~Good(q) /\ Cardinality(q) = m
  BY <1>8
<1>10. CASE q = {}
  <2>1. h[q] = 0 /\ If(Wake, q) = 0 /\ If(TimerRd, q) = 0
    BY <1>2, <1>10 DEF AddsUp
  <2>2. Cardinality(q \cap M) \in Nat
    BY <1>3
  <2> HIDE DEF M, If
  <2>3. QED BY <1>9, <2>1, <2>2
<1>11. CASE q # {}
  <2>1. PICK x \in q : x = CHOOSE y \in q : TRUE
    BY <1>11
  <2>2. PICK r \in SUBSET Ops : r = q \ {x}
    OBVIOUS
  <2>3. h[q] = s[x] + h[r] /\ s[x] \in Nat
    BY <1>2, <1>11, <2>1, <2>2 DEF AddsUp
  <2>4. Cardinality(r) < m /\ Cardinality(r) \in Nat /\ m \in Nat
    <3>1. Cardinality(q) \in Nat /\ Cardinality(q \ {x}) = Cardinality(q) - 1 /\ Cardinality(r) \in Nat
      BY <1>3
    <3>2. Cardinality(q) = m /\ Cardinality(r) = Cardinality(q \ {x})
      BY <1>9, <2>2
    <3>3. QED BY ONLY <3>1, <3>2
  <2>5. Good(r)
    <3> HIDE DEF Good
    <3>1. ~Good(r) => Cardinality(r) \in T
      BY Zenon
    <3> HIDE DEF T
    <3>2. QED BY <1>8, <2>4, <3>1
  <2>6. PICK a, b \in Nat : a = Cardinality(q \cap M) /\ b = Cardinality(r \cap M)
    BY <1>3
  <2>7. /\ If(Wake, q) \in Nat /\ If(Wake, r) \in Nat /\ If(TimerRd, q) \in Nat
        /\ If(TimerRd, r) \in Nat
    BY <1>4
  <2>8. x \in Coros \/ x = Wake \/ x = TimerRd \/ x = Nop
    BY DEF Ops
  <2>9. \A o \in Ops : o # x => If(o, q) = If(o, r)
    BY <2>2
  <2>10. If(x, q) = s[x] /\ If(x, r) = 0
    BY <2>2
  <2>11. b <= a /\ (x \in Coros => b + s[x] <= a)
    <3>1. CASE x \in M
      <4>1. q \cap M = (r \cap M) \cup {x} /\ x \notin r \cap M /\ s[x] = 1
        BY <2>2, <3>1 DEF Filled
      <4> HIDE DEF M
      <4>2. IsFiniteSet(r \cap M)
        BY <1>3
      <4>3. Cardinality((r \cap M) \cup {x}) = Cardinality(r \cap M) + 1
        BY <4>1, <4>2, FS_AddElement
      <4>4. a = b + 1
        BY <2>6, <4>1, <4>3
      <4>5. QED BY <2>6, <4>1, <4>4
    <3>2. CASE x \notin M
      <4>1. q \cap M = r \cap M
        BY <2>2, <3>2
      <4>2. x \in Coros => s[x] = 0
        <5>1. x \in Coros => s[x] <= 1 /\ s[x] # 1
          BY <3>2 DEF Filled
        <5>2. QED BY <2>3, <5>1
      <4> HIDE DEF M
      <4>3. a = b
        BY <2>6, <4>1
      <4>4. QED BY <2>6, <4>2, <4>3
    <3>3. QED BY <3>1, <3>2
  <2>12. Bound(q) = a + If(Wake, q) + If(TimerRd, q) /\ Bound(r) = b + If(Wake, r) + If(TimerRd, r)
    BY <2>6
  <2>13. h[r] \in Nat /\ h[r] <= b + If(Wake, r) + If(TimerRd, r)
    BY <2>5, <2>12
  <2> HIDE DEF If
  <2>14. CASE x \in Coros
    <3>1. If(Wake, q) = If(Wake, r) /\ If(TimerRd, q) = If(TimerRd, r)
      BY <1>4, <2>9, <2>14, Distinct
    <3>2. h[q] \in Nat /\ h[q] <= a + If(Wake, q) + If(TimerRd, q)
      BY ONLY <2>3, <2>6, <2>7, <2>11, <2>13, <2>14, <3>1
    <3>3. QED BY <1>9, <2>12, <3>2
  <2>15. CASE x = Wake
    <3>1. If(Wake, q) = s[x] /\ If(Wake, r) = 0 /\ If(TimerRd, q) = If(TimerRd, r)
      BY <1>4, <2>9, <2>10, <2>15, Distinct
    <3>2. h[q] \in Nat /\ h[q] <= a + If(Wake, q) + If(TimerRd, q)
      BY ONLY <2>3, <2>6, <2>7, <2>11, <2>13, <3>1
    <3>3. QED BY <1>9, <2>12, <3>2
  <2>16. CASE x = TimerRd
    <3>1. If(TimerRd, q) = s[x] /\ If(TimerRd, r) = 0 /\ If(Wake, q) = If(Wake, r)
      BY <1>4, <2>9, <2>10, <2>16, Distinct
    <3>2. h[q] \in Nat /\ h[q] <= a + If(Wake, q) + If(TimerRd, q)
      BY ONLY <2>3, <2>6, <2>7, <2>11, <2>13, <3>1
    <3>3. QED BY <1>9, <2>12, <3>2
  <2>17. CASE x = Nop
    <3>1. If(TimerRd, q) = If(TimerRd, r) /\ If(Wake, q) = If(Wake, r) /\ s[x] = 0
      BY <1>4, <2>9, <2>17, Distinct
    <3>2. h[q] \in Nat /\ h[q] <= a + If(Wake, q) + If(TimerRd, q)
      BY ONLY <2>3, <2>6, <2>7, <2>11, <2>13, <3>1
    <3>3. QED BY <1>9, <2>12, <3>2
  <2>18. QED BY <2>8, <2>14, <2>15, <2>16, <2>17
<1>12. QED BY <1>10, <1>11

\* There is an SQE for whoever asks as long as the watchers have less than their
\* share of the queue, or the coroutine that asks has none yet, or the queue has an
\* entry to spare.
LEMMA SqHasRoom ==
    ASSUME NEW s \in [Ops -> Nat], IsFiniteSet(Coros), s[Nop] = 0, \A c \in Coros : s[c] <= 1,
           SqEntries >= SqDemand, s[Wake] <= MaxRuns, s[TimerRd] <= MaxRuns,
           \/ s[Wake] < MaxRuns \/ s[TimerRd] < MaxRuns \/ \E d \in Coros : s[d] = 0
           \/ SqEntries > SqDemand
    PROVE  HasSqe(s)
<1>1. SqLen(s) \in Nat /\ SqLen(s) <= Cardinality(Filled(s)) + s[Wake] + s[TimerRd]
  BY SqLenBound
<1>2. s[Wake] \in Nat /\ s[TimerRd] \in Nat /\ MaxRuns \in Nat /\ SqEntries \in Nat
  BY OpsMember, ConstantsAssumption
<1>3. Filled(s) \in SUBSET Coros
  BY DEF Filled
<1>4. /\ IsFiniteSet(Filled(s)) /\ Cardinality(Filled(s)) <= Cardinality(Coros)
      /\ Filled(s) # Coros => Cardinality(Filled(s)) < Cardinality(Coros)
      /\ Cardinality(Filled(s)) \in Nat /\ Cardinality(Coros) \in Nat
  BY <1>3, FS_Subset, FS_CardinalityType
<1>5. CASE s[Wake] < MaxRuns \/ s[TimerRd] < MaxRuns
  BY <1>1, <1>2, <1>4, <1>5 DEF HasSqe, SqDemand
<1>6. CASE \E d \in Coros : s[d] = 0
  <2>1. Filled(s) # Coros
    BY <1>6 DEF Filled
  <2>2. QED BY <1>1, <1>2, <1>4, <2>1 DEF HasSqe, SqDemand
<1>7. CASE SqEntries > SqDemand
  BY <1>1, <1>2, <1>4, <1>7 DEF HasSqe, SqDemand
<1>8. QED BY <1>5, <1>6, <1>7

-----------------------------------------------------------------------------
(* The reads of the watchers. *)

\* How often the read of watcher o is prepared, with the kernel, or completed and
\* not handled.
Reads(o) == sq[o] + inflight[o] + Count(Todo, o)

\* Each run() adds one read of each watcher, nothing else does; a NOP never waits in
\* the SQ.
ReadInv ==
    /\ runs <= MaxRuns
    /\ sq[Nop] = 0
    /\ \A o \in {Wake, TimerRd} : Reads(o) <= runs

\* The parts of Reads are natural.
LEMMA ReadTypes ==
    ASSUME TypeOK, NEW o \in Ops
    PROVE  sq[o] \in Nat /\ inflight[o] \in Nat /\ Count(Todo, o) \in Nat /\ runs \in Nat
<1>1. cq \in Seq(Ops) /\ cqDone \in 0 .. Len(cq) /\ Len(cq) \in Nat
  BY LenProperties DEF TypeOK, RingTypeOK
<1>2. Todo \in Seq(Ops)
  BY <1>1, AdvanceProperties DEF Todo
<1>3. QED BY <1>2, CountType DEF TypeOK, ThreadTypeOK, RingTypeOK

\* A step that moves the reads from the SQ to the kernel, or leaves them alone.
LEMMA ReadsStay ==
    ASSUME ReadInv, TypeOK, UNCHANGED <<cq, cqDone, runs>>, sq'[Nop] = 0,
           \A o \in {Wake, TimerRd} : sq'[o] + inflight'[o] = sq[o] + inflight[o]
    PROVE  ReadInv'
<1>1. Todo' = Todo
  BY DEF Todo
<1>2. ASSUME NEW o \in {Wake, TimerRd} PROVE Reads(o)' = Reads(o)
  BY <1>1 DEF Reads
<1>3. QED BY <1>2 DEF ReadInv

\* stop() on the loop thread submits the reads, or leaves them alone.
LEMMA StopKeepsReads ==
    ASSUME ReadInv, TypeOK, StopHere
    PROVE  /\ sq'[Nop] = 0
           /\ \A o \in {Wake, TimerRd} : sq'[o] + inflight'[o] = sq[o] + inflight[o]
<1>1. CASE UNCHANGED <<sq, inflight>>
  BY <1>1 DEF ReadInv
<1>2. CASE inflight' = [Submitted EXCEPT ![Nop] = @ + 1] /\ sq' = EmptySq
  <2>1. sq'[Nop] = 0
    BY <1>2, SubmittedProperties, OpsMember
  <2>2. ASSUME NEW o \in {Wake, TimerRd} PROVE sq'[o] + inflight'[o] = sq[o] + inflight[o]
    <3>1. o \in Ops /\ o # Nop
      BY OpsMember, Distinct
    <3>2. /\ Submitted \in [Ops -> Nat] /\ Submitted[o] = inflight[o] + sq[o] /\ EmptySq[o] = 0
          /\ sq[o] \in Nat /\ inflight[o] \in Nat
      BY <3>1, SubmittedProperties, ReadTypes
    <3>3. inflight'[o] = Submitted[o] /\ sq'[o] = 0
      BY <1>2, <3>1, <3>2
    <3>4. QED BY <3>2, <3>3
  <2>3. QED BY <2>1, <2>2
<1>3. QED BY <1>1, <1>2 DEF StopHere

\* Rearming adds one read of the watcher at most, and nothing of another operation.
LEMMA RearmAdds ==
    ASSUME NEW s \in [Ops -> Nat], NEW o \in Ops, NEW x \in Ops
    PROVE  Rearm(s, o)[x] \in Nat /\ s[x] \in Nat /\ Rearm(s, o)[x] <= s[x] + One(o, x)
BY DEF Rearm, One

\* Only run() adds a read.
LEMMA ReadStep ==
    ASSUME Inv, PhaseInv, ReadInv, [Next]_vars
    PROVE  ReadInv'
<1>1. TypeOK /\ sq \in [Ops -> Nat] /\ inflight \in [Ops -> Nat]
  BY DEF Inv, TypeOK, RingTypeOK
<1>2. sq[Nop] = 0 /\ runs <= MaxRuns
  BY DEF ReadInv
<1>3. Wake \in Ops /\ TimerRd \in Ops /\ Nop \in Ops /\ \A c \in Coros : c \in Ops
  BY OpsMember
<1>4. ASSUME NEW o \in {Wake, TimerRd}
      PROVE  /\ sq[o] \in Nat /\ inflight[o] \in Nat /\ Count(Todo, o) \in Nat /\ runs \in Nat
             /\ sq[o] + inflight[o] + Count(Todo, o) <= runs /\ o \in Ops
  BY <1>1, <1>3, ReadTypes DEF ReadInv, Reads
<1>5. CASE UNCHANGED <<sq, inflight, cq, cqDone, runs>>
  BY <1>1, <1>2, <1>5, ReadsStay
<1>6. CASE \/ LoopTop \/ DrainCrossQueue \/ TasksDone \/ Resume \/ ReadyDone \/ CheckStopping
           \/ WaitFails \/ TimerfdOnComplete \/ Others \/ UNCHANGED vars
  <2>1. UNCHANGED <<sq, inflight, cq, cqDone, runs>>
    BY <1>6 DEF LoopTop, DrainCrossQueue, TasksDone, Resume, ReadyDone, CheckStopping, WaitFails,
                TimerfdOnComplete, Others, WakeRemote, StopRemote, Post, PostTask, QueueBootTask,
                PushTask, vars, ring
  <2>2. QED BY <1>5, <2>1
<1>7. CASE WaitReturns \/ WaitInterrupted
  <2>1. UNCHANGED <<sq, inflight, cq, cqDone, runs>>
    BY <1>7 DEF WaitReturns, WaitInterrupted, PeekBatch, PhaseInv
  <2>2. QED BY <1>5, <2>1
<1>8. CASE SubmitAndWait
  <2>1. inflight' = Submitted /\ sq' = EmptySq /\ UNCHANGED <<cq, cqDone, runs>>
    BY <1>8 DEF SubmitAndWait
  <2>2. sq'[Nop] = 0
    BY <1>1, <1>3, <2>1, SubmittedProperties
  <2>3. ASSUME NEW o \in {Wake, TimerRd} PROVE sq'[o] + inflight'[o] = sq[o] + inflight[o]
    <3>1. Submitted[o] = inflight[o] + sq[o] /\ EmptySq[o] = 0
      BY <1>1, <1>4, SubmittedProperties
    <3>2. QED BY <1>4, <2>1, <3>1
  <2>4. QED BY <1>1, <2>1, <2>2, <2>3, ReadsStay
<1>9. CASE RunTask \/ BodyStop
  <2>1. UNCHANGED <<cq, cqDone, runs>> /\ (StopHere \/ UNCHANGED <<sq, inflight>>)
    BY <1>9 DEF RunTask, BodyStop
  <2>2. QED BY <1>1, <1>5, <2>1, StopKeepsReads, ReadsStay
<1>10. CASE Run
  <2>1. /\ sq' = Rearm(Rearm(sq, Wake), TimerRd) /\ runs' = runs + 1 /\ runs < MaxRuns
        /\ UNCHANGED <<cq, cqDone, inflight>>
    BY <1>10 DEF Run
  <2>2. PICK armed \in [Ops -> Nat] : armed = Rearm(sq, Wake)
    BY <1>1, <1>3, RearmProperties
  <2>3. Todo' = Todo
    BY <2>1 DEF Todo
  <2>4. ASSUME NEW x \in Ops
        PROVE  sq[x] \in Nat /\ sq'[x] \in Nat /\ sq'[x] <= sq[x] + One(Wake, x) + One(TimerRd, x)
    <3>1. armed[x] \in Nat /\ sq[x] \in Nat /\ armed[x] <= sq[x] + One(Wake, x)
      BY <1>1, <1>3, <2>2, RearmAdds
    <3>2. sq'[x] \in Nat /\ sq'[x] <= armed[x] + One(TimerRd, x)
      BY <1>3, <2>1, <2>2, RearmAdds
    <3>3. One(Wake, x) \in Nat /\ One(TimerRd, x) \in Nat
      BY DEF One
    <3>4. QED BY ONLY <3>1, <3>2, <3>3
  <2>5. One(Wake, Nop) = 0 /\ One(TimerRd, Nop) = 0
    BY Distinct DEF One
  <2>6. sq'[Nop] = 0
    <3>1. sq'[Nop] \in Nat /\ sq'[Nop] <= sq[Nop] + One(Wake, Nop) + One(TimerRd, Nop)
      BY <1>3, <2>4
    <3>2. QED BY <1>2, <2>5, <3>1
  <2>7. ASSUME NEW o \in {Wake, TimerRd} PROVE Reads(o)' <= runs'
    <3>1. One(Wake, o) + One(TimerRd, o) = 1 /\ One(Wake, o) \in Nat /\ One(TimerRd, o) \in Nat
      BY <2>7, Distinct DEF One
    <3>2. sq'[o] \in Nat /\ sq'[o] <= sq[o] + One(Wake, o) + One(TimerRd, o)
      BY <1>4, <2>4
    <3>3. sq'[o] <= sq[o] + 1 /\ sq'[o] \in Nat
      BY <1>4, <3>1, <3>2
    <3>4. Reads(o)' = sq'[o] + inflight[o] + Count(Todo, o)
      BY <2>1, <2>3 DEF Reads
    <3>5. QED BY <1>4, <2>1, <3>3, <3>4
  <2>8. runs' <= MaxRuns
    BY <1>4, <2>1, ConstantsAssumption
  <2>9. QED BY <2>6, <2>7, <2>8 DEF ReadInv
<1>11. CASE EventfdOnComplete \/ IoOnComplete \/ TimerfdReturns
  <2>1. /\ UNCHANGED <<cq, inflight, runs>> /\ cqDone < cqBatch /\ cqDone' = cqDone + 1
    <3>1. CASE TimerfdReturns
      BY <3>1 DEF TimerfdReturns, Inv, BodyInv, Holds
    <3>2. CASE EventfdOnComplete \/ IoOnComplete
      BY <3>2 DEF EventfdOnComplete, IoOnComplete
    <3>3. QED BY <1>11, <3>1, <3>2
  <2>2. PICK e : e = NextCqe
    OBVIOUS
  <2>3. ASSUME NEW x \in Ops
        PROVE  sq'[x] \in Nat /\ (sq'[x] = sq[x] \/ (x # Nop /\ sq'[x] <= sq[x] + One(e, x)))
    <3>1. CASE IoOnComplete
      BY <1>1, <3>1 DEF IoOnComplete
    <3>2. CASE EventfdOnComplete
      <4>1. sq' = Rearm(sq, Wake) /\ e = Wake
        BY <2>2, <3>2 DEF EventfdOnComplete
      <4>2. sq'[x] \in Nat /\ sq'[x] <= sq[x] + One(e, x) /\ (x = Nop => sq'[x] = sq[x])
        BY <1>1, <1>3, <4>1, RearmAdds, Distinct DEF Rearm
      <4>3. QED BY <4>2
    <3>3. CASE TimerfdReturns
      <4>1. sq' = Rearm(sq, TimerRd) /\ e = TimerRd
        BY <2>2, <3>3 DEF TimerfdReturns, Inv, BodyInv, Holds, NextCqe
      <4>2. sq'[x] \in Nat /\ sq'[x] <= sq[x] + One(e, x) /\ (x = Nop => sq'[x] = sq[x])
        BY <1>1, <1>3, <4>1, RearmAdds, Distinct DEF Rearm
      <4>3. QED BY <4>2
    <3>4. QED BY <1>11, <3>1, <3>2, <3>3
  <2>4. ASSUME NEW o \in {Wake, TimerRd} PROVE Reads(o)' <= runs'
    <3>1. Count(Todo, o) = Count(Todo', o) + One(e, o)
      BY <1>1, <2>1, <2>2, TodoNext
    <3>2. One(e, o) \in Nat
      BY DEF One
    <3>3. Count(Todo', o) \in Nat
      <4>1. cq \in Seq(Ops) /\ cqDone' \in 0 .. Len(cq) /\ Len(cq) \in Nat
        BY <1>1, <2>1, LenProperties DEF TypeOK, RingTypeOK
      <4>2. Todo' \in Seq(Ops)
        BY <2>1, <4>1, AdvanceProperties DEF Todo
      <4>3. QED BY <4>2, CountType
    <3>4. sq'[o] \in Nat /\ sq'[o] <= sq[o] + One(e, o)
      BY <1>4, <2>3, <3>2
    <3>5. Reads(o)' = sq'[o] + inflight[o] + Count(Todo', o)
      BY <2>1 DEF Reads
    <3>6. QED BY <1>4, <2>1, <3>1, <3>2, <3>3, <3>4, <3>5
  <2>5. QED BY <1>2, <1>3, <2>1, <2>3, <2>4 DEF ReadInv
<1>12. CASE CqAdvance
  <2>1. Todo' = Todo /\ UNCHANGED <<sq, inflight, runs>>
    BY <1>1, <1>12, TodoAdvances DEF CqAdvance
  <2>2. \A o \in {Wake, TimerRd} : Reads(o)' = Reads(o)
    BY <2>1 DEF Reads
  <2>3. QED BY <2>1, <2>2 DEF ReadInv
<1>13. ASSUME NEW c \in Coros, AwaitIo(c) \/ AwaitThread(c) \/ Finish(c) \/ Spawn(c) \/ PostHere(c)
       PROVE  ReadInv'
  <2>1. CASE UNCHANGED <<sq, inflight, cq, cqDone, runs>>
    BY <1>5, <2>1
  <2>2. CASE sq' = [sq EXCEPT ![c] = @ + 1] /\ UNCHANGED <<inflight, cq, cqDone, runs>>
    <3>1. c # Wake /\ c # TimerRd /\ c # Nop
      BY Distinct
    <3>2. sq'[Wake] = sq[Wake] /\ sq'[TimerRd] = sq[TimerRd] /\ sq'[Nop] = sq[Nop]
      BY <1>1, <1>3, <2>2, <3>1
    <3>3. QED BY <1>1, <1>2, <2>2, <3>2, ReadsStay
  <2>3. QED BY <1>13, <2>1, <2>2 DEF AwaitIo, AwaitThread, Finish, Spawn, PostHere, ring
<1>14. ASSUME NEW d \in Ops, Complete(d) PROVE ReadInv'
  <2>1. /\ inflight[d] > 0 /\ inflight' = [inflight EXCEPT ![d] = @ - 1] /\ cq' = Append(cq, d)
        /\ UNCHANGED <<sq, cqDone, runs>>
    BY <1>14 DEF Complete
  <2>2. ASSUME NEW o \in {Wake, TimerRd} PROVE Reads(o)' <= runs'
    <3>1. Count(Todo', o) = Count(Todo, o) + One(d, o)
      BY <1>1, <2>1, TodoArrives
    <3>2. inflight'[o] = inflight[o] - One(d, o) /\ One(d, o) \in Nat
      BY <1>1, <1>4, <2>1 DEF One
    <3>3. Reads(o)' = sq[o] + inflight'[o] + Count(Todo', o)
      BY <2>1 DEF Reads
    <3>4. /\ sq[o] \in Nat /\ inflight[o] \in Nat /\ Count(Todo, o) \in Nat /\ runs \in Nat
          /\ sq[o] + inflight[o] + Count(Todo, o) <= runs /\ runs' = runs
      BY <1>4, <2>1
    <3>5. QED BY ONLY <3>1, <3>2, <3>3, <3>4
  <2>3. QED BY <1>2, <2>1, <2>2 DEF ReadInv
<1>15. CASE KernelIo \/ KernelWake
  BY <1>3, <1>14, <1>15 DEF KernelIo, KernelWake
<1>16. QED
  BY <1>6, <1>7, <1>8, <1>9, <1>10, <1>11, <1>12, <1>13, <1>15 DEF Next, Loop, Body

\* No coroutine has two SQEs, and one that runs has none.
LEMMA SqPerCoro ==
    ASSUME Inv, HandleInv, NEW c \in Coros
    PROVE  sq[c] <= 1 /\ (Running(c) => sq[c] = 0)
<1>1. Runnable(c) + Waiting(c) + OnStack(c) = One(co[c], "live") /\ One(co[c], "live") \in 0 .. 1
  BY DEF HandleInv, One
<1>2. Runnable(c) \in Nat /\ Waiting(c) \in Nat /\ OnStack(c) \in Nat
  BY SumTypes DEF Inv
<1>3. sq[c] \in Nat /\ inflight[c] \in Nat
  BY NumberTypes DEF Inv
<1>4. sq[c] <= Waiting(c)
  BY <1>3 DEF Waiting
<1>5. ASSUME Running(c) PROVE OnStack(c) > 0
  <2>1. stack \in Seq(Coros \cup {TimerRd}) /\ stack # <<>> /\ Head(stack) = c
    BY <1>5 DEF Inv, TypeOK, ThreadTypeOK, BodyInv, Running
  <2>2. 1 \in DOMAIN stack /\ stack[1] = c
    BY <2>1
  <2>3. Holds(stack, c)
    BY <2>2 DEF Holds
  <2>4. QED BY <2>1, <2>3, CountType DEF OnStack
<1>6. QED BY ONLY <1>1, <1>2, <1>3, <1>4, <1>5

\* A watcher or an awaiter that asks for an SQE gets one, and with an entry to spare
\* so does stop().
LEMMA RoomStep ==
    ASSUME IsFiniteSet(Coros), Inv, PhaseInv, HandleInv, ReadInv, SqNeverFull, [Next]_vars
    PROVE  SqNeverFull'
<1> DEFINE Kept == dropped' \subseteq dropped /\ pc' # "crashed"
<1>0. SqDemand \in Nat /\ SqEntries \in Nat
  BY FS_CardinalityType, ConstantsAssumption DEF SqDemand
<1> SUFFICES ASSUME SqEntries >= SqDemand
             PROVE  \/ Kept
                    \/ pc' # "crashed" /\ dropped' \subseteq dropped \cup {Nop} /\ SqEntries = SqDemand
  BY <1>0 DEF SqNeverFull
<1>1. pc # "crashed" /\ caller # "crashed"
  BY DEF SqNeverFull, Inv, TypeOK, ThreadTypeOK, Phases
<1>2. sq \in [Ops -> Nat] /\ TypeOK /\ runs <= MaxRuns /\ sq[Nop] = 0 /\ \A c \in Coros : sq[c] <= 1
  BY SqPerCoro DEF Inv, TypeOK, RingTypeOK, ReadInv
<1>3. Wake \in Ops /\ TimerRd \in Ops /\ MaxRuns \in Nat
  BY OpsMember, ConstantsAssumption
<1>4. ASSUME NEW o \in {Wake, TimerRd}
      PROVE  /\ sq[o] \in Nat /\ inflight[o] \in Nat /\ Count(Todo, o) \in Nat /\ runs \in Nat
             /\ sq[o] + inflight[o] + Count(Todo, o) <= runs
  BY <1>2, <1>3, ReadTypes DEF ReadInv, Reads
<1>5. sq[Wake] <= runs /\ sq[TimerRd] <= runs /\ sq[Wake] \in Nat /\ sq[TimerRd] \in Nat /\ runs \in Nat
  BY <1>4
<1>6. sq[Wake] <= MaxRuns /\ sq[TimerRd] <= MaxRuns
  BY <1>2, <1>3, <1>5
<1>7. CASE Run
  <2>1. /\ runs < MaxRuns /\ pc' = "top"
        /\ dropped' = dropped \cup DroppedBy(sq, Wake) \cup DroppedBy(Rearm(sq, Wake), TimerRd)
    BY <1>7 DEF Run
  <2>2. sq[Wake] < MaxRuns /\ sq[TimerRd] < MaxRuns
    BY <1>3, <1>5, <2>1
  <2>3. HasSqe(sq)
    BY <1>2, <1>6, <2>2, SqHasRoom
  <2>4. PICK armed \in [Ops -> Nat] : armed = Rearm(sq, Wake)
    BY <1>2, <1>3, RearmProperties
  <2>5. armed = [sq EXCEPT ![Wake] = @ + 1]
    BY <2>3, <2>4 DEF Rearm
  <2>6. /\ armed[Wake] = sq[Wake] + 1 /\ armed[TimerRd] = sq[TimerRd] /\ armed[Nop] = sq[Nop]
        /\ \A c \in Coros : armed[c] = sq[c]
    BY <1>2, <1>3, <2>5, OpsMember, Distinct
  <2>7. armed[Wake] <= MaxRuns /\ armed[TimerRd] < MaxRuns /\ armed[TimerRd] <= MaxRuns
    BY <1>3, <1>5, <2>2, <2>6
  <2>8. armed[Nop] = 0 /\ \A c \in Coros : armed[c] <= 1
    BY <1>2, <2>6
  <2>9. HasSqe(armed)
    BY <2>7, <2>8, SqHasRoom
  <2>10. DroppedBy(sq, Wake) = {} /\ DroppedBy(armed, TimerRd) = {}
    BY <2>3, <2>9 DEF DroppedBy
  <2>11. QED BY <1>1, <2>1, <2>4, <2>10
<1>8. CASE EventfdOnComplete \/ TimerfdReturns
  <2>1. PICK o \in {Wake, TimerRd} :
           /\ NextCqe = o /\ cqDone < cqBatch /\ cqDone' = cqDone + 1 /\ cq' = cq
           /\ dropped' = dropped \cup DroppedBy(sq, o) /\ pc' # "crashed"
    <3>1. CASE EventfdOnComplete
      BY <1>1, <3>1 DEF EventfdOnComplete
    <3>2. CASE TimerfdReturns
      BY <1>1, <3>2 DEF TimerfdReturns, NextCqe, Inv, BodyInv, Holds
    <3>3. QED BY <1>8, <3>1, <3>2
  <2>2. Count(Todo, o) > 0
    <3>1. cq \in Seq(Ops) /\ Len(cq) \in Nat /\ cqDone \in Nat /\ cqDone < Len(cq)
      BY <1>2, <2>1, LenProperties DEF TypeOK, RingTypeOK
    <3>2. /\ Todo \in Seq(Ops) /\ Len(Todo) = Len(cq) - cqDone
          /\ \A i \in 1 .. Len(cq) - cqDone : Todo[i] = cq[cqDone + i]
      BY <3>1, AdvanceProperties DEF Todo
    <3>3. 1 \in DOMAIN Todo /\ Todo[1] = o
      BY <2>1, <3>1, <3>2, LenProperties DEF NextCqe
    <3>4. Holds(Todo, o)
      BY <3>3 DEF Holds
    <3>5. QED BY <3>2, <3>4, CountType
  <2>3. sq[o] < MaxRuns
    BY <1>2, <1>3, <1>4, <2>2
  <2>4. HasSqe(sq)
    BY <1>2, <1>6, <2>3, SqHasRoom
  <2>5. QED BY <1>1, <2>1, <2>4 DEF DroppedBy
<1>9. ASSUME NEW c \in Coros, AwaitIo(c) PROVE Kept
  <2>1. sq[c] = 0
    BY <1>9, SqPerCoro DEF AwaitIo
  <2>2. HasSqe(sq)
    BY <1>2, <1>6, <2>1, SqHasRoom
  <2>3. QED BY <1>1, <1>9, <2>2 DEF AwaitIo, Leave
<1>10. ASSUME NEW c \in Coros, AwaitThread(c) \/ Finish(c) \/ Spawn(c) \/ PostHere(c)
       PROVE  Kept
  BY <1>1, <1>10 DEF AwaitThread, Finish, Spawn, PostHere, Leave
<1>11. CASE \/ LoopTop \/ DrainCrossQueue \/ TasksDone \/ Resume \/ ReadyDone \/ CheckStopping
            \/ SubmitAndWait \/ WaitReturns \/ WaitInterrupted \/ WaitFails
  BY <1>1, <1>11 DEF LoopTop, DrainCrossQueue, TasksDone, Resume, ReadyDone, CheckStopping,
                     SubmitAndWait, WaitReturns, WaitInterrupted, WaitFails, PeekBatch, Enter
<1>12. CASE IoOnComplete \/ TimerfdOnComplete \/ CqAdvance
  BY <1>1, <1>12 DEF IoOnComplete, TimerfdOnComplete, CqAdvance, Enter
<1>13. CASE Others \/ KernelIo \/ KernelWake \/ UNCHANGED vars
  BY <1>1, <1>13 DEF Others, WakeRemote, StopRemote, Post, PostTask, QueueBootTask, PushTask,
                     KernelIo, KernelWake, Complete, vars
<1>14. CASE RunTask \/ BodyStop
  <2>1. pc' # "crashed" /\ (dropped' = dropped \/ dropped' = dropped \cup DroppedBy(sq, Nop))
    BY <1>1, <1>14 DEF RunTask, BodyStop, StopHere, Enter
  <2>2. DroppedBy(sq, Nop) \subseteq {Nop}
    BY DEF DroppedBy
  <2>3. CASE SqEntries > SqDemand
    <3>1. HasSqe(sq)
      BY <1>2, <1>6, <2>3, SqHasRoom
    <3>2. QED BY <2>1, <3>1 DEF DroppedBy
  <2>4. CASE SqEntries = SqDemand
    BY <2>1, <2>2, <2>4
  <2>5. QED BY <1>0, <2>3, <2>4
<1>15. QED
  BY <1>7, <1>8, <1>9, <1>10, <1>11, <1>12, <1>13, <1>14 DEF Next, Loop, Body

\* Before the first run() the SQ is empty.
LEMMA InitReads == Init => ReadInv /\ SqNeverFull
<1> SUFFICES ASSUME Init PROVE ReadInv /\ SqNeverFull
  OBVIOUS
<1>1. SqNeverFull
  BY DEF Init, SqNeverFull
<1>2. Todo = <<>>
  BY DEF Init, Todo
<1>3. ASSUME NEW o \in {Wake, TimerRd} PROVE Reads(o) = 0
  BY <1>2, CountEmpty, OpsMember DEF Init, Reads
<1>4. ReadInv
  BY <1>3, OpsMember, ConstantsAssumption DEF Init, ReadInv
<1>5. QED BY <1>1, <1>4

\* A ring with an entry for every coroutine and two for every run() is large enough for
\* the watchers and the awaiters, whatever the threads, the kernel and the coroutines do
\* in whatever order: get_sqe() returns null to neither, so that no watcher loses its
\* read and no awaiter writes through a null pointer.  The NOP of stop() is the only one
\* that may be refused, and with one entry more it is not refused either.
THEOREM RingSuffices ==
    ASSUME IsFiniteSet(Coros)
    PROVE  Spec => []SqNeverFull
<1>1. Init => ReadInv /\ SqNeverFull
  BY InitReads
<1>2. Inv /\ PhaseInv /\ HandleInv /\ ReadInv /\ SqNeverFull /\ [Next]_vars => (ReadInv /\ SqNeverFull)'
  <2> SUFFICES ASSUME Inv, PhaseInv, HandleInv, ReadInv, SqNeverFull, [Next]_vars
               PROVE  ReadInv' /\ SqNeverFull'
    OBVIOUS
  <2>1. ReadInv'
    BY ReadStep
  <2>2. SqNeverFull'
    BY RoomStep
  <2>3. QED BY <2>1, <2>2
<1>3. QED BY <1>1, <1>2, HandlesInPlace, PTL DEF Spec
=============================================================================
