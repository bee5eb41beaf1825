-------------------------- MODULE TimerQueueProofs ---------------------------
(***************************************************************************)
(* Proofs about TimerQueue, for any number of timers, any delays and any   *)
(* horizon of the clock.                                                   *)
(***************************************************************************)
EXTENDS TimerQueue, TLAPS

\* Nothing is queued before the watcher is started.
StartInv == rd = "none" => timers = {}

Inv == TypeOK /\ TimerOwnedOnce /\ NoLostTimer /\ StartInv

\* A cancelled timer is out of the queue, and only in the batch it was cancelled in;
\* what the batch is done with has been called.
CallInv ==
    /\ canceling \subseteq cancelled
    /\ cancelled \cap timers = {}
    /\ cancelled \cap expired \subseteq canceling
    /\ expired \ toRun \subseteq ran

-----------------------------------------------------------------------------
(* The timerfd. *)

\* What the timerfd must be set to for the timers in T with deadlines w.
Covers(at, T, w) == at # 0 /\ \A s \in T : at <= w[s] \/ at <= now + 1

\* reset_timerfd arms the timerfd, no later than the deadline or the next clock
\* unit.
LEMMA ResetArms ==
    ASSUME TypeOK, NEW at \in Nat, ResetTimerfd(at)
    PROVE  /\ armedAt' \in Nat /\ ticks' \in BOOLEAN
           /\ armedAt' # 0
           /\ armedAt' <= at \/ armedAt' <= now + 1
<1>1. now \in Nat /\ MaxTime \in Nat /\ MaxTime # 0 /\ now <= MaxTime
  BY TimerAssumption DEF TypeOK
<1>2. Soon \in Nat /\ Soon # 0 /\ Soon <= now + 1
  BY <1>1 DEF Soon
<1>3. ticks' = FALSE /\ armedAt' = IF at <= now THEN Soon ELSE at
  BY DEF ResetTimerfd, Settime
<1>4. CASE at <= now
  BY <1>2, <1>3, <1>4
<1>5. CASE ~(at <= now)
  <2>1. armedAt' = at
    BY <1>3, <1>5
  <2>2. at # 0 /\ at <= at
    BY <1>1, <1>5
  <2>3. QED BY <1>3, <2>1, <2>2
<1>6. QED BY <1>4, <1>5

\* Setting the timerfd for the earliest timer covers all of them.
LEMMA RearmCovers ==
    ASSUME TypeOK, NEW T \in SUBSET Seqs, NEW w \in [Seqs -> Nat], Rearm(T, w)
    PROVE  /\ armedAt' \in Nat /\ ticks' \in BOOLEAN
           /\ T # {} => Covers(armedAt', T, w)
<1>1. CASE T = {} /\ DisarmTimerfd
  BY <1>1 DEF DisarmTimerfd, Settime
<1>2. ASSUME NEW s \in T, Earliest(s, T, w), ResetTimerfd(w[s])
      PROVE  armedAt' \in Nat /\ ticks' \in BOOLEAN /\ Covers(armedAt', T, w)
  <2>1. w[s] \in Nat
    OBVIOUS
  <2>2. /\ armedAt' \in Nat /\ ticks' \in BOOLEAN
        /\ armedAt' # 0
        /\ armedAt' <= w[s] \/ armedAt' <= now + 1
    BY <1>2, <2>1, ResetArms
  <2>3. \A u \in T : w[s] <= w[u] /\ w[u] \in Nat
    BY <1>2 DEF Earliest
  <2>4. QED
    BY <2>1, <2>2, <2>3 DEF Covers
<1>3. QED
  BY <1>1, <1>2 DEF Rearm

-----------------------------------------------------------------------------
(* The invariant is inductive. *)

\* An empty queue satisfies the invariant.
LEMMA InitInv == ASSUME Init PROVE Inv
<1>1. 0 \in 0 .. MaxTime /\ 1 \in 1 .. MaxTimers + 1 /\ 0 \in 0 .. 0
  BY TimerAssumption
<1>2. TypeOK
  BY <1>1 DEF Init, TypeOK
<1>3. TimerOwnedOnce /\ NoLostTimer /\ StartInv
  BY DEF Init, TimerOwnedOnce, NoLostTimer, StartInv
<1>4. QED BY <1>2, <1>3 DEF Inv

\* Every step of the clock, the kernel, the handlers and user code preserves it.
LEMMA NextInv == ASSUME Inv, Next PROVE Inv'
<1> USE TimerAssumption
<1>1. CASE Tick
  BY <1>1 DEF Inv, TypeOK, TimerOwnedOnce, NoLostTimer, StartInv, Tick, batch, timerfd
<1>2. CASE Expire
  BY <1>2 DEF Inv, TypeOK, TimerOwnedOnce, NoLostTimer, StartInv, Expire, batch
<1>3. CASE ReadCompletes
  BY <1>3 DEF Inv, TypeOK, TimerOwnedOnce, NoLostTimer, StartInv, ReadCompletes, batch
<1>4. CASE ReadFails
  BY <1>4 DEF Inv, TypeOK, TimerOwnedOnce, NoLostTimer, StartInv, ReadFails, batch, timerfd
<1>5. CASE Start
  BY <1>5 DEF Inv, TypeOK, TimerOwnedOnce, NoLostTimer, StartInv, Start, RearmWatcher,
              batch, timerfd
<1>6. CASE HandleExpired
  <2>1. TypeOK'
    BY <1>6 DEF Inv, TypeOK, TimerOwnedOnce, HandleExpired, timerfd
  <2>2. TimerOwnedOnce'
    BY <1>6 DEF Inv, TypeOK, TimerOwnedOnce, HandleExpired
  <2>3. QED
    BY <1>6, <2>1, <2>2 DEF Inv, NoLostTimer, StartInv, HandleExpired
<1>7. ASSUME NEW s \in Seqs, Callback(s)
      PROVE  Inv'
  <2>1. s \in toRun /\ rd = "handling"
    BY <1>7 DEF Callback, Earliest, CallingExpired
  <2>2. TypeOK'
    BY <1>7, <2>1 DEF Inv, TypeOK, TimerOwnedOnce, Callback, timerfd
  <2>3. QED
    BY <1>7, <2>1, <2>2 DEF Inv, TimerOwnedOnce, NoLostTimer, StartInv, Callback, timerfd
<1>8. CASE HandleDone
  <2> DEFINE again == {s \in expired \ canceling : interval[s] > 0}
             w == [s \in Seqs |-> IF s \in again THEN callingAt + interval[s] ELSE when[s]]
  <2>1. /\ rd = "handling" /\ toRun = {} /\ canceling' = {}
        /\ when' = w /\ timers' = timers \cup again /\ active' = active \cup again
        /\ heap' = heap \ (expired \ again)
        /\ expired' = {} /\ current' = 0 /\ callingAt' = 0
        /\ Rearm(timers \cup again, w) /\ RearmWatcher
        /\ UNCHANGED <<now, nextSeq, interval, toRun, ran, cancelled>>
    BY <1>8 DEF HandleDone, FinishBatch, CallingExpired
  <2>2. w \in [Seqs -> Nat] /\ timers \cup again \in SUBSET Seqs
    BY DEF Inv, TypeOK
  <2>3. /\ armedAt' \in Nat /\ ticks' \in BOOLEAN
        /\ timers \cup again # {} => Covers(armedAt', timers \cup again, w)
    BY <2>1, <2>2, RearmCovers DEF Inv
  <2> HIDE DEF w
  <2>4. TypeOK'
    BY <2>1, <2>2, <2>3 DEF Inv, TypeOK, RearmWatcher
  <2>5. TimerOwnedOnce'
    BY <2>1 DEF Inv, TimerOwnedOnce, RearmWatcher
  <2>6. NoLostTimer' /\ StartInv'
    BY <2>1, <2>3 DEF NoLostTimer, StartInv, RearmWatcher, Covers
  <2>7. QED BY <2>4, <2>5, <2>6 DEF Inv
<1>9. CASE ReadErrorComplete
  BY <1>9 DEF Inv, TypeOK, TimerOwnedOnce, NoLostTimer, StartInv, ReadErrorComplete,
              RearmWatcher, batch, timerfd
<1>10. CASE Destroy
  BY <1>10 DEF Inv, TypeOK, TimerOwnedOnce, NoLostTimer, StartInv, Destroy, CallingExpired,
               batch
<1>11. ASSUME NEW d \in Delays, NEW iv \in Nat, Insert(d, iv)
       PROVE  Inv'
  <2> DEFINE at == now + d
  <2>1. /\ nextSeq \in Seqs /\ rd \notin {"none", "closed"}
        /\ when' = [when EXCEPT ![nextSeq] = at]
        /\ interval' = [interval EXCEPT ![nextSeq] = iv]
        /\ heap' = heap \cup {nextSeq}
        /\ timers' = timers \cup {nextSeq} /\ active' = active \cup {nextSeq}
        /\ nextSeq' = nextSeq + 1
        /\ UNCHANGED <<now, expired, toRun, current, callingAt, canceling, rd, ran, cancelled>>
        /\ IF \A s \in timers : at < when[s] THEN ResetTimerfd(at)
                                             ELSE UNCHANGED <<armedAt, ticks>>
    BY <1>11 DEF Insert, UserCode, batch, timerfd
  <2>2. at \in Nat /\ now \in Nat /\ when \in [Seqs -> Nat]
    BY DEF Inv, TypeOK
  <2> HIDE DEF at
  <2>3. nextSeq \notin heap /\ nextSeq \notin timers /\ nextSeq \notin expired
    BY <2>1 DEF Inv, TypeOK, TimerOwnedOnce
  <2>4. /\ nextSeq' \in 1 .. MaxTimers + 1
        /\ 1 .. nextSeq' - 1 = (1 .. nextSeq - 1) \cup {nextSeq}
    BY <2>1 DEF Seqs
  <2>5. CASE \A s \in timers : at < when[s]
    <3>1. /\ armedAt' \in Nat /\ ticks' \in BOOLEAN
          /\ armedAt' # 0
          /\ armedAt' <= at \/ armedAt' <= now + 1
      BY <2>1, <2>2, <2>5, ResetArms DEF Inv
    <3>2. TypeOK'
      BY <2>1, <2>2, <2>4, <3>1 DEF Inv, TypeOK
    <3>3. \A s \in timers' : at <= when'[s]
      BY <2>1, <2>2, <2>3, <2>5 DEF Inv, TypeOK
    <3>4. \A s \in timers' : when'[s] \in Nat
      BY <3>2 DEF TypeOK
    <3>5. NoLostTimer' /\ StartInv'
      BY <2>1, <2>2, <3>1, <3>3, <3>4 DEF NoLostTimer, StartInv
    <3>6. QED
      BY <2>1, <2>3, <3>2, <3>5 DEF Inv, TimerOwnedOnce
  <2>6. CASE ~(\A s \in timers : at < when[s])
    <3>1. UNCHANGED <<armedAt, ticks>>
      BY <2>1, <2>6
    <3>2. TypeOK'
      BY <2>1, <2>2, <2>4, <3>1 DEF Inv, TypeOK
    <3>3. PICK u \in timers : when[u] <= at
      BY <2>2, <2>6 DEF Inv, TypeOK
    <3>4. NoLostTimer' /\ StartInv'
      <4>1. \A s \in timers : when'[s] = when[s]
        BY <2>1, <2>2, <2>3 DEF Inv, TypeOK
      <4>2. when'[nextSeq] = at
        BY <2>1, <2>2
      <4>3. when[u] \in Nat /\ armedAt \in Nat
        BY DEF Inv, TypeOK
      <4>4. QED
        BY <2>1, <2>2, <3>1, <3>3, <4>1, <4>2, <4>3 DEF Inv, NoLostTimer, StartInv
    <3>5. QED
      BY <2>1, <2>3, <3>2, <3>4 DEF Inv, TimerOwnedOnce
  <2>7. QED
    BY <2>5, <2>6
<1>12. ASSUME NEW s \in Seqs, Cancel(s)
       PROVE  Inv'
  <2>1. /\ rd \notin {"none", "closed"} /\ s < nextSeq
        /\ cancelled' = cancelled \cup {s}
        /\ canceling' = IF rd = "handling" THEN canceling \cup {s} ELSE canceling
        /\ UNCHANGED <<now, nextSeq, when, interval, expired, toRun, current, callingAt,
                       rd, ran>>
    BY <1>12 DEF Cancel, CancelActive, CancelInactive, UserCode, CallingExpired, batch
  <2>2. s \in 1 .. nextSeq - 1
    BY <2>1 DEF Inv, TypeOK, Seqs
  <2>3. CASE CancelInactive(s)
    <3>1. UNCHANGED <<timers, active, heap, armedAt, ticks>>
      BY <2>3 DEF CancelInactive, timerfd
    <3>2. QED
      BY <2>1, <2>2, <3>1 DEF Inv, TypeOK, TimerOwnedOnce, NoLostTimer, StartInv
  <2>4. CASE CancelActive(s)
    <3>1. /\ s \in active /\ timers' = timers \ {s} /\ active' = active \ {s}
          /\ heap' = heap \ {s}
      BY <2>4 DEF CancelActive
    <3>2. /\ armedAt' \in Nat /\ ticks' \in BOOLEAN
          /\ \/ UNCHANGED <<armedAt, ticks>>
             \/ timers \ {s} # {} => Covers(armedAt', timers \ {s}, when)
      <4>1. CASE Rearm(timers \ {s}, when)
        BY <4>1, RearmCovers DEF Inv, TypeOK
      <4>2. CASE UNCHANGED timerfd
        BY <4>2 DEF timerfd, Inv, TypeOK
      <4>3. QED BY <2>4, <4>1, <4>2 DEF CancelActive
    <3>3. TypeOK'
      BY <2>1, <2>2, <3>1, <3>2 DEF Inv, TypeOK
    <3>4. TimerOwnedOnce'
      BY <2>1, <3>1 DEF Inv, TimerOwnedOnce
    <3>5. NoLostTimer' /\ StartInv'
      BY <2>1, <3>1, <3>2 DEF Inv, NoLostTimer, StartInv, Covers
    <3>6. QED BY <3>3, <3>4, <3>5 DEF Inv
  <2>5. QED
    BY <1>12, <2>3, <2>4 DEF Cancel
<1>13. QED
  <2>1. ASSUME NEW d \in Delays, Add(d) \/ AddPeriodic(d)
        PROVE  Inv'
    BY <1>11, <2>1 DEF Add, AddPeriodic
  <2>2. QED
    BY <1>1, <1>2, <1>3, <1>4, <1>5, <1>6, <1>7, <1>8, <1>9, <1>10, <1>12, <2>1
    DEF Next, Handler

\* ... and so does a step that leaves the queue alone.
LEMMA StepInv == Inv /\ [Next]_vars => Inv'
<1>1. ASSUME Inv, UNCHANGED vars PROVE Inv'
  BY <1>1 DEF vars, Inv, TypeOK, TimerOwnedOnce, NoLostTimer, StartInv
<1>2. QED BY <1>1, NextInv

\* Every reachable state satisfies the invariant.
THEOREM Invariant == Spec => []Inv
BY InitInv, StepInv, PTL DEF Spec

\* However adds and cancels, inside callbacks and out, interleave with the clock
\* and the kernel: a queued timer never waits on a timerfd that is disarmed or set
\* too late.
THEOREM TimerNeverLost == Spec => []NoLostTimer
<1>1. Inv => NoLostTimer BY DEF Inv
<1>2. QED BY <1>1, Invariant, PTL

\* Every Timer object is owned exactly once: no leak, no double delete, no
\* callback on a deleted timer.
THEOREM TimerOwnership == Spec => []TimerOwnedOnce
<1>1. Inv => TimerOwnedOnce BY DEF Inv
<1>2. QED BY <1>1, Invariant, PTL

\* The types of the queue hold in every reachable state.
THEOREM TypeCorrect == Spec => []TypeOK
<1>1. Inv => TypeOK BY DEF Inv
<1>2. QED BY <1>1, Invariant, PTL

-----------------------------------------------------------------------------
(* What becomes of a timer. *)

\* Every step preserves what is known of cancelled timers and of the batch, and
\* forgets no timer.
LEMMA CallStep ==
    ASSUME Inv, CallInv, NoTimerForgotten, [Next]_vars
    PROVE  CallInv' /\ NoTimerForgotten'
<1> USE TimerAssumption
<1>1. CASE \/ Tick \/ Expire \/ ReadCompletes \/ ReadFails \/ Start
           \/ ReadErrorComplete \/ Destroy \/ UNCHANGED vars
  <2>1. /\ UNCHANGED <<nextSeq, interval, expired, toRun, canceling, ran, cancelled>>
        /\ \/ timers' = timers /\ (rd' = "closed" => rd = "closed")
           \/ timers' = {} /\ rd' = "closed"
    BY <1>1 DEF Tick, Expire, ReadCompletes, ReadFails, Start, ReadErrorComplete, Destroy,
                RearmWatcher, vars, batch, timerfd
  <2>2. rd' # "closed" => rd # "closed" /\ timers' = timers
    BY <1>1, <2>1 DEF Tick, Expire, ReadCompletes, ReadFails, Start, ReadErrorComplete,
                      Destroy, RearmWatcher, vars, batch, timerfd
  <2>3. CallInv'
    BY <2>1 DEF CallInv
  <2>4. NoTimerForgotten'
    BY <2>1, <2>2 DEF NoTimerForgotten
  <2>5. QED BY <2>3, <2>4
<1>2. CASE HandleExpired
  <2>1. /\ UNCHANGED <<nextSeq, interval, canceling, ran, cancelled>>
        /\ expired' \subseteq timers /\ toRun' = expired' /\ timers' = timers \ expired'
        /\ rd = "cqe" /\ rd' = "handling"
    BY <1>2 DEF HandleExpired
  <2>2. expired = {}
    BY <2>1 DEF Inv, TypeOK
  <2>3. CallInv'
    BY <2>1 DEF CallInv
  <2>4. NoTimerForgotten'
    BY <2>1, <2>2 DEF NoTimerForgotten
  <2>5. QED BY <2>3, <2>4
<1>3. ASSUME NEW s \in Seqs, Callback(s)
      PROVE  CallInv' /\ NoTimerForgotten'
  BY <1>3 DEF CallInv, NoTimerForgotten, Callback
<1>4. CASE HandleDone
  <2> DEFINE again == {s \in expired \ canceling : interval[s] > 0}
  <2>1. /\ rd = "handling" /\ toRun = {} /\ canceling' = {} /\ toRun' = toRun
        /\ timers' = timers \cup again /\ expired' = {}
        /\ UNCHANGED <<nextSeq, interval, ran, cancelled>>
    BY <1>4 DEF HandleDone, FinishBatch, CallingExpired
  <2>2. CallInv'
    BY <2>1 DEF CallInv
  <2>3. \A s \in expired : s \in again \/ s \in cancelled \/ (interval[s] = 0 /\ s \in ran)
    <3>1. \A s \in expired : s \in Seqs /\ interval[s] \in Nat
      BY DEF Inv, TypeOK
    <3>2. \A s \in expired : s \in ran
      BY <2>1 DEF CallInv
    <3>3. QED
      BY <3>1, <3>2 DEF CallInv
  <2>4. NoTimerForgotten'
    BY <2>1, <2>3 DEF NoTimerForgotten
  <2>5. QED BY <2>2, <2>4
<1>5. ASSUME NEW d \in Delays, NEW iv \in Nat, Insert(d, iv)
      PROVE  CallInv' /\ NoTimerForgotten'
  <2>1. /\ nextSeq \in Seqs /\ rd \notin {"none", "closed"}
        /\ interval' = [interval EXCEPT ![nextSeq] = iv]
        /\ timers' = timers \cup {nextSeq}
        /\ nextSeq' = nextSeq + 1
        /\ UNCHANGED <<expired, toRun, canceling, rd, ran, cancelled>>
    BY <1>5 DEF Insert, UserCode, batch
  <2>2. /\ cancelled \subseteq 1 .. nextSeq - 1
        /\ interval \in [Seqs -> Nat]
        /\ nextSeq \in 1 .. MaxTimers + 1
    BY DEF Inv, TypeOK
  <2>3. nextSeq \notin cancelled /\ 1 .. nextSeq' - 1 = (1 .. nextSeq - 1) \cup {nextSeq}
    BY <2>1, <2>2 DEF Seqs
  <2>4. \A s \in 1 .. nextSeq - 1 : interval'[s] = interval[s]
    BY <2>1, <2>2 DEF Seqs
  <2>5. CallInv'
    BY <2>1, <2>3 DEF CallInv
  <2>6. NoTimerForgotten'
    BY <2>1, <2>3, <2>4 DEF NoTimerForgotten
  <2>7. QED BY <2>5, <2>6
<1>6. ASSUME NEW s \in Seqs, Cancel(s)
      PROVE  CallInv' /\ NoTimerForgotten'
  <2>1. /\ timers' = timers \ {s}
        /\ cancelled' = cancelled \cup {s}
        /\ canceling' = IF rd = "handling" THEN canceling \cup {s} ELSE canceling
        /\ UNCHANGED <<nextSeq, interval, expired, toRun, rd, ran>>
    BY <1>6 DEF Cancel, CancelActive, CancelInactive, CallingExpired, batch, Inv,
                TimerOwnedOnce
  <2>2. rd # "handling" => expired = {}
    BY DEF Inv, TypeOK
  <2>3. CallInv'
    BY <2>1, <2>2 DEF CallInv
  <2>4. NoTimerForgotten'
    BY <2>1 DEF NoTimerForgotten
  <2>5. QED BY <2>3, <2>4
<1>7. QED
  <2>1. ASSUME NEW d \in Delays, Add(d) \/ AddPeriodic(d)
        PROVE  CallInv' /\ NoTimerForgotten'
    BY <1>5, <2>1 DEF Add, AddPeriodic
  <2>2. QED
    BY <1>1, <1>2, <1>3, <1>4, <1>6, <2>1 DEF Next, Handler

\* Both hold in every reachable state.
LEMMA CallInvariant == Spec => [](Inv /\ CallInv /\ NoTimerForgotten)
<1>1. Init => CallInv /\ NoTimerForgotten
  BY DEF Init, CallInv, NoTimerForgotten
<1>2. Inv /\ CallInv /\ NoTimerForgotten /\ [Next]_vars => CallInv' /\ NoTimerForgotten'
  BY CallStep
<1>3. QED BY <1>1, <1>2, InitInv, StepInv, PTL DEF Spec

\* Whatever callbacks add and cancel: until the queue is destroyed, a timer that
\* was added is queued, in the batch, cancelled, or a one-shot that was called.
THEOREM NoTimerLeftOut == Spec => []NoTimerForgotten
BY CallInvariant, PTL

\* cancel() is final: a cancelled timer is called again only if the batch that is
\* being handled already held it.
THEOREM CancelIsFinal == Spec => CancelledNotCalled
<1> DEFINE Late == \A s \in cancelled : current' = s /\ current # s => s \in canceling
<1>1. ASSUME Inv, CallInv, [Next]_vars PROVE [Late]_vars
  <2>1. ASSUME NEW s \in cancelled, current' = s, current # s
        PROVE  s \in toRun
    <3>1. s # 0
      BY <1>1 DEF Inv, TypeOK, Seqs
    <3>2. ASSUME NEW u \in Seqs, Callback(u) PROVE s \in toRun
      BY <2>1, <3>2 DEF Callback, Earliest
    <3>3. ASSUME NEW d \in Delays, Add(d) \/ AddPeriodic(d) PROVE FALSE
      BY <2>1, <3>3 DEF Add, AddPeriodic, Insert, batch
    <3>4. ASSUME NEW u \in Seqs, Cancel(u) PROVE FALSE
      BY <2>1, <3>4 DEF Cancel, batch
    <3>5. QED
      BY <1>1, <2>1, <3>1, <3>2, <3>3, <3>4
      DEF Next, Handler, Tick, Expire, ReadCompletes, ReadFails, Start, HandleExpired,
          HandleDone, FinishBatch, ReadErrorComplete, Destroy, vars, batch
  <2>2. QED
    BY <1>1, <2>1 DEF CallInv, Inv, TypeOK
<1>2. Inv /\ CallInv /\ NoTimerForgotten /\ [Next]_vars => [Late]_vars
  BY <1>1
<1>3. QED BY <1>2, CallInvariant, PTL DEF Spec, CancelledNotCalled
=============================================================================
