------------------------------ MODULE TimerQueue ------------------------------
(***************************************************************************)
(* coro_net::TimerQueue: the timers of one scheduler, multiplexed onto one  *)
(* timerfd whose read is kept posted on the ring by TimerfdWatcher.         *)
(*                                                                          *)
(* Everything here runs on the loop thread, so a handler is one step; the   *)
(* clock, the timerfd and the completion of the read go on beside it.  Timer *)
(* callbacks are user code: while one runs it may add and cancel timers, and *)
(* handle_expired is therefore several steps.  Timers are named by their    *)
(* sequence number; the pointer order that breaks ties between equal        *)
(* deadlines in std::set is left open.                                      *)
(***************************************************************************)
EXTENDS Integers

CONSTANTS
    MaxTimers,    \* bound: how many timers are ever added
    MaxTime,      \* bound: the clock stops here
    Delays,       \* delays and intervals used
    SqMayBeFull   \* whether get_sqe() may return nullptr to the watcher

ASSUME TimerAssumption ==
    /\ MaxTimers \in Nat /\ MaxTime \in Nat \ {0}
    /\ Delays \subseteq Nat
    /\ SqMayBeFull \in BOOLEAN

Seqs == 1 .. MaxTimers

VARIABLES
    now,        \* steady_clock, CLOCK_MONOTONIC
    nextSeq,    \* next_seq_
    when,       \* Timer::expiration_
    interval,   \* Timer::interval_; repeat_ iff it is positive
    heap,       \* Timer objects that are allocated
    timers,     \* timers_
    active,     \* the keys of active_
    expired,    \* handle_expired: the local vector
    toRun,      \* handle_expired: those of expired whose callback is still to run
    current,    \* the timer whose callback runs, 0 before the first
    callingAt,  \* handle_expired: its local "now"
    canceling,  \* canceling_seqs_
    armedAt,    \* the timerfd: expiry it is set to, 0 when disarmed
    ticks,      \* the timerfd: has expired and is readable
    rd,         \* the watcher's read of the timerfd
    ran,        \* history: timers whose callback was called
    cancelled   \* history: timers that cancel() was called for

timerfd == <<armedAt, ticks>>
batch   == <<expired, toRun, current, callingAt>>
vars    == <<now, nextSeq, when, interval, heap, timers, active, expired, toRun, current,
             callingAt, canceling, armedAt, ticks, rd, ran, cancelled>>

\* Types; a batch exists only inside handle_expired (calling_expired_), and what
\* is in it or cancelled belongs to timers that were added.
TypeOK ==
    /\ now \in 0 .. MaxTime
    /\ nextSeq \in 1 .. MaxTimers + 1
    /\ when \in [Seqs -> Nat] /\ interval \in [Seqs -> Nat]
    /\ heap \subseteq Seqs /\ timers \subseteq Seqs /\ active \subseteq Seqs
    /\ toRun \subseteq expired /\ expired \subseteq Seqs
    /\ current \in expired \cup {0}
    /\ callingAt \in 0 .. now
    /\ canceling \subseteq Seqs /\ ran \subseteq Seqs /\ cancelled \subseteq Seqs
    /\ armedAt \in Nat /\ ticks \in BOOLEAN
    /\ rd \in {"none", "kernel", "cqe", "error", "handling", "dropped", "closed"}
    /\ rd # "handling" => expired = {} /\ canceling = {}
    /\ heap \cup ran \cup cancelled \subseteq 1 .. nextSeq - 1

Init ==
    /\ now = 0 /\ nextSeq = 1
    /\ when = [s \in Seqs |-> 0] /\ interval = [s \in Seqs |-> 0]
    /\ heap = {} /\ timers = {} /\ active = {}
    /\ expired = {} /\ toRun = {} /\ current = 0 /\ callingAt = 0
    /\ canceling = {}
    /\ armedAt = 0 /\ ticks = FALSE /\ rd = "none"
    /\ ran = {} /\ cancelled = {}

-----------------------------------------------------------------------------
(* The clock and the timerfd. *)

Tick ==
    /\ now < MaxTime
    /\ now' = now + 1
    /\ UNCHANGED <<nextSeq, when, interval, heap, timers, active, batch, canceling,
                   timerfd, rd, ran, cancelled>>

Expire ==
    /\ armedAt # 0 /\ armedAt <= now
    /\ ticks' = TRUE /\ armedAt' = 0
    /\ UNCHANGED <<now, nextSeq, when, interval, heap, timers, active, batch, canceling,
                   rd, ran, cancelled>>

\* The kernel completes the posted read; reading resets the expiration count.
ReadCompletes ==
    /\ rd = "kernel" /\ ticks
    /\ rd' = "cqe" /\ ticks' = FALSE
    /\ UNCHANGED <<now, nextSeq, when, interval, heap, timers, active, batch, canceling,
                   armedAt, ran, cancelled>>

\* ... or fails it with a negative result.
ReadFails ==
    /\ rd = "kernel"
    /\ rd' = "error"
    /\ UNCHANGED <<now, nextSeq, when, interval, heap, timers, active, batch, canceling,
                   timerfd, ran, cancelled>>

\* timerfd_settime forgets an expiration nobody has read.
Settime(at) == armedAt' = at /\ ticks' = FALSE

\* One clock unit from now; the clock's bound is not passed.
Soon == IF now < MaxTime THEN now + 1 ELSE now

ResetTimerfd_NoClamp(at) == Settime(IF at <= now THEN 0 ELSE at)

\* reset_timerfd: a deadline that has passed is clamped to the shortest delay,
\* since zero would disarm the timerfd.
ResetTimerfd(at) == Settime(IF at <= now THEN Soon ELSE at)

DisarmTimerfd == Settime(0)

Earliest(s, T, w) == s \in T /\ \A u \in T : w[s] <= w[u]

\* "if (timers_.empty()) disarm_timerfd(); else reset_timerfd(begin()->first);"
Rearm(T, w) ==
    \/ T = {} /\ DisarmTimerfd
    \/ \E s \in T : Earliest(s, T, w) /\ ResetTimerfd(w[s])

-----------------------------------------------------------------------------
(* Called by code on the loop thread, timer callbacks included. *)

CallingExpired == rd = "handling"

UserCode == rd \notin {"none", "closed"} /\ (CallingExpired => current # 0)

\* What add() and add_periodic() share: the new timer goes into timers_ and
\* active_, and the timerfd is set if it became the earliest.
Insert(d, iv) ==
    /\ UserCode /\ nextSeq \in Seqs
    /\ LET at == now + d
       IN  /\ when' = [when EXCEPT ![nextSeq] = at]
           /\ IF \A s \in timers : at < when[s]
              THEN ResetTimerfd(at)
              ELSE UNCHANGED timerfd
    /\ interval' = [interval EXCEPT ![nextSeq] = iv]
    /\ heap' = heap \cup {nextSeq}
    /\ timers' = timers \cup {nextSeq} /\ active' = active \cup {nextSeq}
    /\ nextSeq' = nextSeq + 1
    /\ UNCHANGED <<now, batch, canceling, rd, ran, cancelled>>

Add(d) == Insert(d, 0)

AddPeriodic(iv) == Insert(iv, iv)

\* cancel() of a timer that is in the queue: it is erased and deleted; when it
\* was the top, the timerfd follows the new top.
CancelActive(s) ==
    /\ s \in active
    /\ timers' = timers \ {s} /\ active' = active \ {s}
    /\ heap' = heap \ {s}
    /\ canceling' = IF CallingExpired THEN canceling \cup {s} ELSE canceling
    /\ \/ Earliest(s, timers, when) /\ Rearm(timers \ {s}, when)
       \/ (\E u \in timers \ {s} : Earliest(u, timers, when)) /\ UNCHANGED timerfd

\* cancel() of a timer that fired, was cancelled, or is in the batch whose
\* callbacks are running.
CancelInactive(s) ==
    /\ s \notin active
    /\ canceling' = IF CallingExpired THEN canceling \cup {s} ELSE canceling
    /\ UNCHANGED <<timers, active, heap, timerfd>>

Cancel(s) ==
    /\ UserCode /\ s < nextSeq
    /\ CancelActive(s) \/ CancelInactive(s)
    /\ cancelled' = cancelled \cup {s}
    /\ UNCHANGED <<now, nextSeq, when, interval, batch, rd, ran>>

-----------------------------------------------------------------------------
(* TimerfdWatcher and handle_expired. *)

\* Post the next read, if there is a free SQE.
RearmWatcher == rd' = "kernel" \/ (SqMayBeFull /\ rd' = "dropped")

Start ==
    /\ rd = "none"
    /\ RearmWatcher
    /\ UNCHANGED <<now, nextSeq, when, interval, heap, timers, active, batch, canceling,
                   timerfd, ran, cancelled>>

HandleExpired_KeepActive ==
    /\ rd = "cqe"
    /\ LET due == {s \in timers : when[s] <= now}
       IN  expired' = due /\ toRun' = due /\ timers' = timers \ due
    /\ callingAt' = now /\ current' = 0
    /\ rd' = "handling"
    /\ UNCHANGED <<now, nextSeq, when, interval, heap, active, canceling, timerfd, ran,
                   cancelled>>

\* handle_expired, first loop: pop every timer that is due.
HandleExpired ==
    /\ rd = "cqe"
    /\ LET due == {s \in timers : when[s] <= now}
       IN  /\ expired' = due /\ toRun' = due
           /\ timers' = timers \ due /\ active' = active \ due
    /\ callingAt' = now /\ current' = 0
    /\ rd' = "handling"
    /\ UNCHANGED <<now, nextSeq, when, interval, heap, canceling, timerfd, ran, cancelled>>

Callback_Escapes(s) ==
    /\ CallingExpired /\ Earliest(s, toRun, when)
    /\ toRun' = {} /\ current' = s
    /\ ran' = ran \cup {s}
    /\ UNCHANGED <<now, nextSeq, when, interval, heap, timers, active, expired, callingAt,
                   canceling, timerfd, rd, cancelled>>

\* handle_expired, second loop: the previous callback has returned (or thrown,
\* which is logged) and the next one is called.
Callback(s) ==
    /\ CallingExpired /\ Earliest(s, toRun, when)
    /\ toRun' = toRun \ {s} /\ current' = s
    /\ ran' = ran \cup {s}
    /\ UNCHANGED <<now, nextSeq, when, interval, heap, timers, active, expired, callingAt,
                   canceling, timerfd, rd, cancelled>>

\* The end of handle_expired: the timers in again go back in, restarted, the rest
\* of the batch is deleted, the timerfd is set for the new top; then the watcher
\* posts its next read.
FinishBatch(again) ==
    LET w == [s \in Seqs |-> IF s \in again THEN callingAt + interval[s] ELSE when[s]]
    IN  /\ when' = w
        /\ timers' = timers \cup again /\ active' = active \cup again
        /\ heap' = heap \ (expired \ again)
        /\ expired' = {} /\ current' = 0 /\ callingAt' = 0
        /\ Rearm(timers \cup again, w)
        /\ RearmWatcher
        /\ UNCHANGED <<now, nextSeq, interval, toRun, ran, cancelled>>

HandleDone_IgnoreCancel ==
    /\ CallingExpired /\ toRun = {}
    /\ FinishBatch({s \in expired : interval[s] > 0})
    /\ canceling' = {}

HandleDone_KeepCanceling ==
    /\ CallingExpired /\ toRun = {}
    /\ FinishBatch({s \in expired \ canceling : interval[s] > 0})
    /\ UNCHANGED canceling

\* handle_expired, third loop: a periodic timer not cancelled meanwhile goes back
\* in; canceling_seqs_ is cleared.
HandleDone ==
    /\ CallingExpired /\ toRun = {}
    /\ FinishBatch({s \in expired \ canceling : interval[s] > 0})
    /\ canceling' = {}

\* on_complete with a negative result: no callbacks, the read is posted again.
ReadErrorComplete ==
    /\ rd = "error"
    /\ RearmWatcher
    /\ UNCHANGED <<now, nextSeq, when, interval, heap, timers, active, batch, canceling,
                   timerfd, ran, cancelled>>

\* ~TimerQueue, after the loop has ended: the remaining timers are deleted and
\* the timerfd is closed.
Destroy ==
    /\ ~CallingExpired /\ rd # "closed"
    /\ heap' = heap \ timers
    /\ timers' = {} /\ active' = {}
    /\ armedAt' = 0 /\ ticks' = FALSE /\ rd' = "closed"
    /\ UNCHANGED <<now, nextSeq, when, interval, batch, canceling, ran, cancelled>>

-----------------------------------------------------------------------------
Handler == HandleExpired \/ HandleDone \/ ReadErrorComplete \/ \E s \in Seqs : Callback(s)

Next ==
    \/ Tick \/ Expire \/ ReadCompletes \/ ReadFails
    \/ Start \/ Handler \/ Destroy
    \/ \E d \in Delays : Add(d) \/ AddPeriodic(d)
    \/ \E s \in Seqs : Cancel(s)

Spec == Init /\ [][Next]_vars

\* Time passes, the timerfd expires, the kernel completes a read of a readable
\* timerfd, and the loop handles completions and returns from callbacks.
Fairness ==
    /\ WF_vars(Tick) /\ WF_vars(Expire) /\ SF_vars(ReadCompletes)
    /\ WF_vars(Handler)

FairSpec == Spec /\ Fairness

-----------------------------------------------------------------------------
(* Properties. *)

\* Outside handle_expired, as long as timers are queued and the watcher's read
\* was not lost to a full SQ, something will make the loop look at them in time:
\* a completion is waiting, the timerfd is readable, or it is armed no later than
\* the earliest deadline (or one clock unit from now, if that has passed).  Adds
\* and cancels of the top, inside callbacks too, must keep this.
NoLostTimer ==
    timers # {} /\ rd \in {"kernel", "error"} =>
        \/ ticks
        \/ armedAt # 0 /\ \A s \in timers : armedAt <= when[s] \/ armedAt <= now + 1

\* Every Timer object is owned exactly once: by timers_, under the key active_
\* knows it by, or by the batch being handled.  Nothing leaks, nothing is deleted
\* twice, no callback is called on a deleted timer, even when callbacks cancel
\* themselves, each other, or timers they have just added.
TimerOwnedOnce ==
    /\ active = timers
    /\ heap = timers \cup expired
    /\ timers \cap expired = {}
    /\ rd = "closed" => heap = {}

\* No timer is forgotten: until the queue is destroyed, every timer added is
\* queued, in the batch being handled, cancelled, or a one-shot that ran.
NoTimerForgotten ==
    rd # "closed" =>
        \A s \in 1 .. nextSeq - 1 :
            s \in timers \cup expired \cup cancelled \/ (interval[s] = 0 /\ s \in ran)

\* After cancel() a timer is not called again, with one exception: a timer that
\* was already in the batch when a callback cancelled it may still be called once
\* in that batch.
CancelledNotCalled ==
    [][\A s \in cancelled : current' = s /\ current # s => s \in canceling]_vars

\* A timer that is due is called or cancelled, whatever adds and cancels reset
\* the timerfd meanwhile and however often the read of it fails (of a periodic timer
\* this speaks of the first deadline: it has then been called), unless the queue
\* is destroyed or its watcher was not posted again because the SQ was full.
DueTimerRuns ==
    \A s \in Seqs :
        (s \in timers /\ when[s] <= now)
            ~> (s \in ran \cup cancelled \/ rd \in {"closed", "dropped"})
=============================================================================
