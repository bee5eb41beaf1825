------------------------------ MODULE TaskProofs ------------------------------
(***************************************************************************)
(* Proofs about Task, for any number of coroutine frames, any nesting of    *)
(* awaits and spawns and any bodies.                                        *)
(*                                                                          *)
(* The frames form a forest: a Task that has begun is owned by the frame    *)
(* that awaits it.  That its owner cannot act until the Task has ended is   *)
(* why no frame is freed under a handle.                                    *)
(***************************************************************************)
EXTENDS Task, SequenceTheorems, TLAPS

BegunSt == {"run", "wait", "io"}

FrameRec ==
    [st : {"free", "start", "run", "wait", "io", "final"}, shim : BOOLEAN,
     cont : Frames \cup {Noop}, owner : Frames \cup {Loop}, result : Results, throws : BOOLEAN]

\* A shim is its own owner and nobody's Task.
ShimInv ==
    \A c \in Frames : frame[c].st # "free" =>
        IF frame[c].shim
        THEN frame[c].owner = c /\ frame[c].cont = Noop /\ frame[c].st \in {"run", "wait"}
        ELSE frame[c].owner # c

\* Who holds a Task has begun and has not ended.
OwnerInv ==
    \A c \in Frames : frame[c].st # "free" =>
        \/ frame[c].owner = Loop
        \/ frame[c].owner \in Frames /\ frame[frame[c].owner].st \in BegunSt

\* A Task that has begun was started by the loop, or its owner waits for it.
ContInv ==
    /\ \A c \in Frames : frame[c].st \in BegunSt /\ ~frame[c].shim =>
        \/ frame[c].owner = Loop /\ frame[c].cont = Noop
        \/ /\ frame[c].owner \in Frames /\ frame[frame[c].owner].st = "wait"
           /\ frame[c].cont = frame[c].owner
    /\ \A c \in Frames : frame[c].st = "start" => frame[c].cont = Noop /\ ~frame[c].shim

\* One Task at a time.
OneInv ==
    \A c, d \in Frames :
        /\ frame[c].st \in BegunSt /\ frame[d].st \in BegunSt
        /\ frame[c].cont = frame[d].cont /\ frame[c].cont # Noop
        => c = d

PendingInv == \A f \in Frames : f \in pending <=> frame[f].st = "io"

Forest == ShimInv /\ OwnerInv /\ ContInv /\ OneInv

Inv == TypeOK /\ Forest /\ PendingInv /\ StackFlat /\ AwaitersServed

-----------------------------------------------------------------------------
(* The stack. *)

\* Pushing a coroutine that is not on the stack.
LEMMA PushOn ==
    ASSUME NEW s \in Seq(Frames), IsInjective(s), NEW f \in Frames, f \notin ToSet(s)
    PROVE  /\ Append(s, f) \in Seq(Frames) /\ IsInjective(Append(s, f))
           /\ ToSet(Append(s, f)) = ToSet(s) \cup {f}
<1> DEFINE t == Append(s, f)
<1>1. /\ t \in Seq(Frames) /\ Len(t) = Len(s) + 1 /\ Len(s) \in Nat
      /\ DOMAIN s = 1 .. Len(s) /\ DOMAIN t = 1 .. Len(t)
      /\ \A i \in 1 .. Len(s) : t[i] = s[i]
      /\ t[Len(s) + 1] = f
  BY AppendProperties
<1> HIDE DEF t
<1>2. IsInjective(t)
  BY <1>1 DEF IsInjective, ToSet
<1>3. ToSet(t) = ToSet(s) \cup {f}
  BY <1>1 DEF ToSet
<1> QED BY <1>1, <1>2, <1>3 DEF t

\* Returning from the coroutine on top.
LEMMA PopOff ==
    ASSUME NEW s \in Seq(Frames), s # <<>>, IsInjective(s)
    PROVE  /\ Front(s) \in Seq(Frames) /\ IsInjective(Front(s))
           /\ Last(s) \in ToSet(s) /\ Last(s) \in Frames
           /\ ToSet(Front(s)) = ToSet(s) \ {Last(s)}
<1> DEFINE t == Front(s)  n == Len(s)
<1>1. n \in Nat /\ n > 0 /\ DOMAIN s = 1 .. n
  BY LenProperties, EmptySeq
<1>2. /\ t \in Seq(Frames) /\ Len(t) = n - 1 /\ DOMAIN t = 1 .. n - 1
      /\ \A i \in 1 .. n - 1 : t[i] = s[i]
  BY <1>1 DEF Front
<1>3. Last(s) = s[n] /\ s[n] \in Frames
  BY <1>1 DEF Last
<1> HIDE DEF t, n
<1>4. IsInjective(t)
  BY <1>1, <1>2 DEF IsInjective
<1>5. \A i \in 1 .. n - 1 : s[i] # s[n]
  BY <1>1 DEF IsInjective
<1>6. ToSet(t) = ToSet(s) \ {s[n]}
  BY <1>1, <1>2, <1>5 DEF ToSet
<1>7. s[n] \in ToSet(s)
  BY <1>1 DEF ToSet
<1> QED BY <1>2, <1>3, <1>4, <1>6, <1>7 DEF t

\* A symmetric transfer to a coroutine that is not on the stack.
LEMMA TransferTo ==
    ASSUME TypeOK, stack # <<>>, IsInjective(stack), NEW f \in Frames, f \notin ToSet(stack)
    PROVE  /\ Transfer(f) \in Seq(Frames) /\ IsInjective(Transfer(f))
           /\ ToSet(Transfer(f)) = (ToSet(stack) \ {Last(stack)}) \cup {f}
<1>1. /\ Front(stack) \in Seq(Frames) /\ IsInjective(Front(stack))
      /\ ToSet(Front(stack)) = ToSet(stack) \ {Last(stack)}
  BY PopOff DEF TypeOK
<1> QED BY <1>1, PushOn DEF Transfer

-----------------------------------------------------------------------------
(* Who acts, and on what. *)

\* The body on top of the stack runs.
LEMMA TopRuns ==
    ASSUME Inv, NEW f, OnTop(f)
    PROVE  f \in Frames /\ frame[f].st = "run" /\ f \in ToSet(stack) /\ stack # <<>> /\ f = Last(stack)
BY PopOff DEF Inv, TypeOK, OnTop, StackFlat, In

\* A Task that a running body, or main(), may dispose of has not begun or has ended.
LEMMA HeldIdle ==
    ASSUME Inv, NEW a, Acts(a), NEW c \in Disposable(a)
    PROVE  /\ c \in Frames /\ frame[c].st \in {"start", "final"} /\ ~frame[c].shim
           /\ frame[c].owner = a /\ a # c
           /\ \/ a = Loop /\ stack = <<>>
              \/ a \in Frames /\ frame[a].st = "run" /\ ~frame[a].shim
<1>1. CASE a = Loop
  BY <1>1, TaskAssumption DEF Inv, TypeOK, Forest, ShimInv, ContInv, Acts, Disposable, Held, Begun, In, BegunSt
<1>2. CASE a # Loop
  <2>1. a \in Frames /\ frame[a].st = "run" /\ ~frame[a].shim
    BY <1>2, TopRuns DEF Acts
  <2>2. c \in Frames /\ frame[c].st # "free" /\ frame[c].owner = a
    BY <1>2 DEF Disposable, Held
  <2>3. frame[c].st \notin BegunSt
    BY <1>2, <2>1, <2>2 DEF Inv, Forest, ShimInv, ContInv
  <2> QED BY <2>1, <2>2, <2>3 DEF Inv, TypeOK, Forest, ShimInv, BegunSt
<1> QED BY <1>1, <1>2

\* AwaitersServed is kept by a step that gives every new waiter a running Task, and
\* takes no Task from a coroutine that goes on waiting.
LEMMA Served ==
    ASSUME AwaitersServed,
           \A x \in Frames : frame'[x].st = "wait" =>
               \/ frame[x].st = "wait"
               \/ \E c \in Frames : frame'[c].st = "run" /\ frame'[c].cont = x,
           \A c \in Frames :
               /\ frame[c].st \in BegunSt /\ frame[c].cont \in Frames
               /\ frame'[frame[c].cont].st = "wait"
               => frame'[c].st \in BegunSt /\ frame'[c].cont = frame[c].cont
    PROVE  AwaitersServed'
<1> SUFFICES ASSUME NEW S \in SUBSET In("wait")', S # {}
             PROVE  \E c \in Begun' \ S : frame'[c].cont \in S
  BY DEF AwaitersServed
<1>1. \A x \in S : x \in Frames /\ frame'[x].st = "wait"
  BY DEF In
<1>2. \A c \in Frames : frame'[c].st \in BegunSt => c \in Begun'
  BY DEF Begun, In, BegunSt
<1>3. CASE \E x \in S : frame[x].st # "wait"
  <2>1. PICK x \in S, c \in Frames : frame'[c].st = "run" /\ frame'[c].cont = x
    BY <1>1, <1>3
  <2>2. c \in Begun' \ S
    BY <1>1, <1>2, <2>1 DEF BegunSt
  <2> QED BY <2>1, <2>2
<1>4. CASE \A x \in S : frame[x].st = "wait"
  <2>1. S \in SUBSET In("wait")
    BY <1>1, <1>4 DEF In
  <2>2. PICK c \in Begun \ S : frame[c].cont \in S
    BY <2>1 DEF AwaitersServed
  <2>3. c \in Frames /\ frame[c].st \in BegunSt
    BY <2>2 DEF Begun, In, BegunSt
  <2>4. frame'[c].st \in BegunSt /\ frame'[c].cont = frame[c].cont
    BY <1>1, <2>2, <2>3
  <2> QED BY <1>2, <2>2, <2>3, <2>4
<1> QED BY <1>3, <1>4

-----------------------------------------------------------------------------
(* The steps. *)

\* No coroutine exists yet.
LEMMA InitInv == Init => Inv
<1> SUFFICES ASSUME Init PROVE Inv
  OBVIOUS
<1>1. \A f \in Frames : frame[f] = Free
  BY DEF Init
<1>2. TypeOK
  <2>1. Free \in FrameRec /\ Free.result = "none" /\ Free.st = "free"
    BY DEF Free, Results, FrameRec
  <2>2. frame \in [Frames -> FrameRec]
    BY <1>1, <2>1 DEF Init
  <2>3. stack \in Seq(Frames) /\ pending \subseteq Frames /\ aborted = FALSE
    BY DEF Init
  <2> QED BY <1>1, <2>1, <2>2, <2>3 DEF TypeOK, FrameRec
<1>3. Forest
  BY <1>1 DEF Free, Forest, ShimInv, OwnerInv, ContInv, OneInv, BegunSt
<1>4. PendingInv
  BY <1>1 DEF Init, PendingInv, Free
<1>5. In("run") = {} /\ In("wait") = {}
  BY <1>1 DEF In, Free
<1>6. StackFlat
  BY <1>5 DEF Init, StackFlat, IsInjective, ToSet
<1>7. AwaitersServed
  BY <1>5 DEF AwaitersServed
<1> QED BY <1>2, <1>3, <1>4, <1>6, <1>7 DEF Inv

\* A coroutine function is called.
LEMMA CreateStep == ASSUME Inv, NEW a \in Frames \cup {Loop}, Create(a) PROVE Inv'
<1>1. PICK c \in Frames : frame[c].st = "free" /\ frame' = [frame EXCEPT ![c] = New(a)]
  BY DEF Create
<1>2. UNCHANGED <<stack, pending, aborted>> BY DEF Create
<1>3. a = Loop \/ (a \in Frames /\ frame[a].st = "run")
  BY TopRuns DEF Create, Acts
<1>4. /\ frame'[c] = New(a) /\ \A x \in Frames \ {c} : frame'[x] = frame[x]
  BY <1>1 DEF Inv, TypeOK
<1>5. /\ New(a).st = "start" /\ New(a).shim = FALSE /\ New(a).cont = Noop /\ New(a).owner = a
      /\ New(a).result = "none"
      /\ New(a) \in FrameRec
  BY DEF New, Free, Results, FrameRec
<1>6. TypeOK'
  BY <1>1, <1>2, <1>4, <1>5 DEF Inv, TypeOK, FrameRec
<1>7. Forest'
  BY <1>1, <1>3, <1>4, <1>5, TaskAssumption
  DEF Inv, Forest, ShimInv, OwnerInv, ContInv, OneInv, BegunSt
<1>8. PendingInv'
  BY <1>1, <1>2, <1>4, <1>5 DEF Inv, PendingInv
<1>9. StackFlat'
  BY <1>1, <1>2, <1>4, <1>5 DEF Inv, StackFlat, In
<1>10. AwaitersServed'
  BY <1>1, <1>4, <1>5, Served DEF Inv, BegunSt
<1> QED BY <1>6, <1>7, <1>8, <1>9, <1>10 DEF Inv

\* A Task is destroyed by who holds it.
LEMMA DestroyStep ==
    ASSUME Inv, NEW a \in Frames \cup {Loop}, NEW c \in Frames, DestroyTask(a, c) PROVE Inv'
<1>1. frame' = [frame EXCEPT ![c] = Free] /\ UNCHANGED <<stack, pending, aborted>>
  BY DEF DestroyTask
<1>2. frame[c].st \in {"start", "final"}
  BY HeldIdle DEF DestroyTask
<1>3. /\ frame'[c] = Free /\ \A x \in Frames \ {c} : frame'[x] = frame[x]
  BY <1>1 DEF Inv, TypeOK
<1>4. /\ Free.st = "free" /\ Free.result = "none"
      /\ Free \in FrameRec
  BY DEF Free, Results, FrameRec
<1>6. TypeOK'
  BY <1>1, <1>3, <1>4 DEF Inv, TypeOK, FrameRec
<1>7. Forest'
  BY <1>2, <1>3, <1>4
  DEF Inv, Forest, ShimInv, OwnerInv, ContInv, OneInv, BegunSt
<1>8. PendingInv'
  BY <1>1, <1>2, <1>3, <1>4 DEF Inv, PendingInv
<1>9. StackFlat'
  BY <1>1, <1>2, <1>3, <1>4 DEF Inv, StackFlat, In
<1>10. AwaitersServed'
  BY <1>2, <1>3, <1>4, Served DEF Inv, BegunSt
<1> QED BY <1>6, <1>7, <1>8, <1>9, <1>10 DEF Inv

\* A step that only raises or clears an exception in a running body.
LEMMA ThrowStep ==
    ASSUME Inv, NEW f \in Frames, NEW b \in BOOLEAN,
           frame' = [frame EXCEPT ![f].throws = b], UNCHANGED <<stack, pending, aborted>>
    PROVE  Inv'
<1>1. \A x \in Frames : /\ frame'[x].st = frame[x].st /\ frame'[x].shim = frame[x].shim
                        /\ frame'[x].cont = frame[x].cont /\ frame'[x].owner = frame[x].owner
                        /\ frame'[x].result = frame[x].result
  BY DEF Inv, TypeOK
<1>2. TypeOK'
  <2>1. [frame[f] EXCEPT !.throws = b] \in FrameRec
    BY DEF Inv, TypeOK, FrameRec
  <2>2. frame \in [Frames -> FrameRec]
    BY DEF Inv, TypeOK, FrameRec
  <2>3. frame' \in [Frames -> FrameRec]
    BY <2>1, <2>2
  <2> QED BY <1>1, <2>3 DEF Inv, TypeOK, FrameRec
<1>3. Forest'
  BY <1>1 DEF Inv, Forest, ShimInv, OwnerInv, ContInv, OneInv
<1>4. PendingInv' /\ StackFlat'
  BY <1>1 DEF Inv, PendingInv, StackFlat, In
<1>5. AwaitersServed'
  BY <1>1, Served DEF Inv
<1> QED BY <1>2, <1>3, <1>4, <1>5 DEF Inv

\* The result of a Task that has ended is taken, or its exception handled.
LEMMA AwaitReadyStep ==
    ASSUME Inv, NEW f \in Frames, \/ Catch(f)
                                  \/ \E c \in Frames : AwaitReady(f, c)
    PROVE  Inv'
<1>1. CASE Catch(f)
  BY <1>1, ThrowStep DEF Catch
<1>2. ASSUME NEW c \in Frames, AwaitReady(f, c) PROVE Inv'
  <2>1. Rethrows(frame[c].result) \in BOOLEAN BY DEF Rethrows
  <2> QED BY <1>2, <2>1, ThrowStep DEF AwaitReady
<1> QED BY <1>1, <1>2

\* A Task is awaited: control goes from its owner to it.
LEMMA AwaitSuspendStep ==
    ASSUME Inv, NEW f \in Frames, NEW c \in Frames, AwaitSuspend(f, c) PROVE Inv'
<1>1. /\ frame' = [frame EXCEPT ![f].st = "wait", ![c].st = "run", ![c].cont = f]
      /\ stack' = Transfer(c) /\ UNCHANGED <<pending, aborted>>
      /\ Acts(f) /\ f # Loop /\ c \in Held(f) /\ frame[c].st # "final"
  BY DEF AwaitSuspend
<1>2. c \in Disposable(f)
  BY <1>1 DEF Disposable
<1>3. /\ frame[c].st = "start" /\ ~frame[c].shim /\ frame[c].owner = f /\ f # c
      /\ frame[f].st = "run" /\ ~frame[f].shim
  BY <1>1, <1>2, HeldIdle
<1>4. /\ frame'[f].st = "wait" /\ frame'[f].cont = frame[f].cont
      /\ frame'[c].st = "run" /\ frame'[c].cont = f
      /\ \A x \in Frames : /\ frame'[x].shim = frame[x].shim /\ frame'[x].owner = frame[x].owner
                           /\ frame'[x].result = frame[x].result
                           /\ x # f /\ x # c => frame'[x] = frame[x]
  BY <1>1, <1>3 DEF Inv, TypeOK
<1>5. OnTop(f) /\ f = Last(stack) /\ stack # <<>>
  BY <1>1, TopRuns DEF Acts
<1>6. c \notin ToSet(stack)
  BY <1>3 DEF Inv, StackFlat, In
<1>7. /\ stack' \in Seq(Frames) /\ IsInjective(stack')
      /\ ToSet(stack') = (ToSet(stack) \ {f}) \cup {c}
  BY <1>1, <1>5, <1>6, TransferTo DEF Inv, StackFlat
<1>8. TypeOK'
  <2>1. frame' \in [Frames -> FrameRec]
    <3>1. frame \in [Frames -> FrameRec]
      BY DEF Inv, TypeOK, FrameRec
    <3>2. [frame[f] EXCEPT !.st = "wait"] \in FrameRec
      BY <3>1 DEF FrameRec
    <3>3. [frame[c] EXCEPT !.st = "run", !.cont = f] \in FrameRec
      BY <3>1 DEF FrameRec
    <3>4. frame' = [frame EXCEPT ![f] = [frame[f] EXCEPT !.st = "wait"],
                                 ![c] = [frame[c] EXCEPT !.st = "run", !.cont = f]]
      BY <1>1, <1>3, <3>1
    <3> QED BY <3>1, <3>2, <3>3, <3>4
  <2>2. \A x \in Frames : frame'[x].result # "none" <=> frame'[x].st = "final"
    BY <1>3, <1>4 DEF Inv, TypeOK
  <2> QED BY <1>1, <1>7, <2>1, <2>2 DEF Inv, TypeOK, FrameRec
<1>9. ShimInv' /\ OwnerInv'
  BY <1>3, <1>4, TaskAssumption DEF Inv, Forest, ShimInv, OwnerInv, BegunSt
<1>10. ContInv' /\ OneInv'
  BY <1>3, <1>4, TaskAssumption DEF Inv, Forest, ShimInv, ContInv, OneInv, BegunSt
<1>11. PendingInv'
  <2>1. \A x \in Frames : frame'[x].st = "io" <=> frame[x].st = "io"
    BY <1>3, <1>4
  <2> QED BY <1>1, <2>1 DEF Inv, PendingInv
<1>12. StackFlat'
  <2>1. In("run")' = (In("run") \ {f}) \cup {c}
    BY <1>3, <1>4 DEF In
  <2> QED BY <1>7, <2>1 DEF Inv, StackFlat
<1>13. AwaitersServed'
  BY <1>3, <1>4, Served DEF Inv, BegunSt
<1> QED BY <1>8, <1>9, <1>10, <1>11, <1>12, <1>13 DEF Inv, Forest

\* An I/O await, and its end.
LEMMA SuspendStep == ASSUME Inv, NEW f \in Frames, Suspend(f) PROVE Inv'
<1>1. /\ frame' = [frame EXCEPT ![f].st = "io"] /\ pending' = pending \cup {f}
      /\ stack' = Front(stack) /\ UNCHANGED aborted /\ Acts(f) /\ f # Loop
  BY DEF Suspend
<1>2. OnTop(f) /\ ~frame[f].shim
  BY <1>1 DEF Acts
<1>3. frame[f].st = "run" /\ f = Last(stack) /\ stack # <<>>
  BY <1>2, TopRuns
<1>4. /\ frame'[f].st = "io"
      /\ \A x \in Frames : /\ frame'[x].shim = frame[x].shim /\ frame'[x].owner = frame[x].owner
                           /\ frame'[x].result = frame[x].result /\ frame'[x].cont = frame[x].cont
                           /\ x # f => frame'[x].st = frame[x].st
  BY <1>1 DEF Inv, TypeOK
<1>7. /\ stack' \in Seq(Frames) /\ IsInjective(stack') /\ ToSet(stack') = ToSet(stack) \ {f}
  BY <1>1, <1>3, PopOff DEF Inv, StackFlat, TypeOK
<1>8. TypeOK'
  <2>1. frame' \in [Frames -> FrameRec]
    BY <1>1 DEF Inv, TypeOK, FrameRec
  <2>2. \A x \in Frames : frame'[x].result # "none" <=> frame'[x].st = "final"
    BY <1>3, <1>4 DEF Inv, TypeOK
  <2> QED BY <1>1, <1>7, <2>1, <2>2 DEF Inv, TypeOK, FrameRec
<1>9. Forest'
  BY <1>2, <1>3, <1>4 DEF Inv, Forest, ShimInv, OwnerInv, ContInv, OneInv, BegunSt
<1>11. PendingInv'
  BY <1>1, <1>3, <1>4 DEF Inv, PendingInv
<1>12. StackFlat'
  <2>1. In("run")' = In("run") \ {f}
    BY <1>3, <1>4 DEF In
  <2> QED BY <1>7, <2>1 DEF Inv, StackFlat
<1>13. AwaitersServed'
  BY <1>3, <1>4, Served DEF Inv, BegunSt
<1> QED BY <1>8, <1>9, <1>11, <1>12, <1>13 DEF Inv

\* The loop resumes what it holds: a coroutine at the end of an I/O await, or a Task
\* of main() that has not begun.
LEMMA ResumeStep ==
    ASSUME Inv, NEW f \in Frames, Resume(f) \/ ResumeTask(f) PROVE Inv'
<1>1. /\ frame' = [frame EXCEPT ![f].st = "run"] /\ pending' = pending \ {f}
      /\ stack = <<>> /\ stack' = <<f>> /\ UNCHANGED aborted
      /\ \/ frame[f].st = "io"
         \/ frame[f].st = "start" /\ frame[f].owner = Loop
  BY DEF Inv, PendingInv, TypeOK, Resume, ResumeTask, Held, Acts
<1>4. /\ frame'[f].st = "run"
      /\ \A x \in Frames : /\ frame'[x].shim = frame[x].shim /\ frame'[x].owner = frame[x].owner
                           /\ frame'[x].result = frame[x].result /\ frame'[x].cont = frame[x].cont
                           /\ x # f => frame'[x].st = frame[x].st
  BY <1>1 DEF Inv, TypeOK
<1>8. TypeOK'
  <2>1. frame' \in [Frames -> FrameRec]
    BY <1>1 DEF Inv, TypeOK, FrameRec
  <2>2. \A x \in Frames : frame'[x].result # "none" <=> frame'[x].st = "final"
    BY <1>1, <1>4 DEF Inv, TypeOK
  <2> QED BY <1>1, <2>1, <2>2 DEF Inv, TypeOK, FrameRec
<1>9. Forest'
  BY <1>1, <1>4 DEF Inv, Forest, ShimInv, OwnerInv, ContInv, OneInv, BegunSt
<1>11. PendingInv'
  BY <1>1, <1>4 DEF Inv, PendingInv
<1>12. StackFlat'
  <2>1. In("run") = {}
    BY <1>1 DEF Inv, StackFlat, ToSet
  <2>2. In("run")' = {f}
    BY <1>4, <2>1 DEF In
  <2> QED BY <1>1, <2>2 DEF StackFlat, ToSet, IsInjective
<1>13. AwaitersServed'
  BY <1>1, <1>4, Served DEF Inv, BegunSt
<1> QED BY <1>8, <1>9, <1>11, <1>12, <1>13 DEF Inv

\* The Tasks of a body that runs are not begun, or ended.
LEMMA BodyHolds ==
    ASSUME Inv, NEW f \in Frames, frame[f].st = "run", NEW c \in Held(f), c # f
    PROVE  frame[c].st \in {"start", "final"} /\ c \in Frames
<1>1. c \in Frames /\ frame[c].st # "free" /\ frame[c].owner = f
  BY DEF Held
<1>2. frame[c].st \notin BegunSt
  BY <1>1, TaskAssumption DEF Inv, Forest, ShimInv, ContInv
<1> QED BY <1>1, <1>2 DEF Inv, TypeOK, BegunSt

\* A body ends, and the one that awaits it goes on.
LEMMA FinishStep ==
    ASSUME Inv, NEW f \in Frames, NEW r \in {"value", "exception"}, Finish(f, r) PROVE Inv'
<1> DEFINE k == frame[f].cont
<1>1. /\ OnTop(f) /\ ~frame[f].shim /\ UNCHANGED <<pending, aborted>>
      /\ IF k = Noop
         THEN frame' = Ended(f, r) /\ stack' = Front(stack)
         ELSE /\ frame' = [Ended(f, r) EXCEPT ![k].st = "run", ![k].throws = Rethrows(r)]
              /\ stack' = Transfer(k)
  BY DEF Finish
<1>2. frame[f].st = "run" /\ f = Last(stack) /\ stack # <<>>
  BY <1>1, TopRuns
<1>3. \A c \in Held(f) : c \in Frames /\ c # f /\ frame[c].st \in {"start", "final"}
  BY <1>1, <1>2, BodyHolds DEF Inv, Forest, ShimInv, Held
<1>4. k = Noop \/ (k \in Frames /\ frame[k].st = "wait" /\ k # f /\ k \notin Held(f))
  BY <1>1, <1>2, <1>3 DEF Inv, Forest, ContInv, BegunSt
<1> HIDE DEF k
<1>5. frame \in [Frames -> FrameRec]
  BY DEF Inv, TypeOK, FrameRec
<1>6. Ended(f, r) \in [Frames -> FrameRec]
  <2>1. Free \in FrameRec BY DEF Free, FrameRec, Results
  <2>2. [frame[f] EXCEPT !.st = "final", !.result = r, !.throws = FALSE] \in FrameRec
    BY <1>5 DEF FrameRec, Results
  <2> QED BY <1>5, <2>1, <2>2 DEF Ended
<1>7. /\ Ended(f, r)[f].st = "final" /\ Ended(f, r)[f].result = r
      /\ Ended(f, r)[f].shim = frame[f].shim /\ Ended(f, r)[f].owner = frame[f].owner
      /\ \A x \in Held(f) : Ended(f, r)[x].st = "free" /\ Ended(f, r)[x].result = "none"
      /\ \A x \in Frames : x # f /\ x \notin Held(f) => Ended(f, r)[x] = frame[x]
  BY <1>3, <1>5 DEF Ended, Free, FrameRec
<1>8. /\ frame' \in [Frames -> FrameRec]
      /\ frame'[f].st = "final" /\ frame'[f].result = r
      /\ frame'[f].shim = frame[f].shim /\ frame'[f].owner = frame[f].owner
      /\ \A x \in Held(f) : frame'[x].st = "free" /\ frame'[x].result = "none"
      /\ \A x \in Frames : x # f /\ x \notin Held(f) =>
            /\ frame'[x].shim = frame[x].shim /\ frame'[x].owner = frame[x].owner
            /\ frame'[x].result = frame[x].result /\ frame'[x].cont = frame[x].cont
            /\ x # k => frame'[x].st = frame[x].st
      /\ k # Noop => frame'[k].st = "run"
  <2>1. CASE k = Noop
    BY <1>1, <1>4, <1>6, <1>7, <2>1, TaskAssumption
  <2>2. CASE k # Noop
    <3> DEFINE e == Ended(f, r)
    <3>1. frame' = [e EXCEPT ![k].st = "run", ![k].throws = Rethrows(r)]
      BY <1>1, <2>2
    <3>2. k \in Frames /\ k # f /\ k \notin Held(f)
      BY <1>4, <2>2
    <3>3. Rethrows(r) \in BOOLEAN BY DEF Rethrows
    <3> HIDE DEF e
    <3>4. e \in [Frames -> FrameRec] BY <1>6 DEF e
    <3>5. frame' \in [Frames -> FrameRec]
      BY <3>1, <3>2, <3>3, <3>4 DEF FrameRec
    <3>6. /\ \A x \in Frames \ {k} : frame'[x] = e[x]
          /\ frame'[k].st = "run" /\ frame'[k].shim = e[k].shim /\ frame'[k].owner = e[k].owner
          /\ frame'[k].result = e[k].result /\ frame'[k].cont = e[k].cont
      BY <3>1, <3>2, <3>4 DEF FrameRec
    <3> QED BY <1>3, <1>7, <3>2, <3>5, <3>6 DEF e
  <2> QED BY <2>1, <2>2
<1>9. /\ stack' \in Seq(Frames) /\ IsInjective(stack')
      /\ ToSet(stack') = (ToSet(stack) \ {f}) \cup ({k} \cap Frames)
  <2>1. CASE k = Noop
    BY <1>1, <1>2, <2>1, PopOff, TaskAssumption DEF Inv, StackFlat, TypeOK
  <2>2. CASE k # Noop
    <3>1. k \in Frames /\ k \notin ToSet(stack)
      BY <1>4, <2>2 DEF Inv, StackFlat, In
    <3> QED BY <1>1, <1>2, <2>2, <3>1, TransferTo DEF Inv, StackFlat
  <2> QED BY <2>1, <2>2
<1>10. TypeOK'
  <2>1. \A x \in Frames : frame'[x].result # "none" <=> frame'[x].st = "final"
    <3> SUFFICES ASSUME NEW x \in Frames
                 PROVE  frame'[x].result # "none" <=> frame'[x].st = "final"
      OBVIOUS
    <3>0. frame[x].result # "none" <=> frame[x].st = "final"
      BY DEF Inv, TypeOK
    <3>1. CASE x = f BY <1>8, <3>1
    <3>2. CASE x \in Held(f) BY <1>8, <3>2
    <3>3. CASE x # f /\ x \notin Held(f) BY <1>4, <1>8, <3>0, <3>3, TaskAssumption
    <3> QED BY <3>1, <3>2, <3>3
  <2> QED BY <1>1, <1>8, <1>9, <2>1 DEF Inv, TypeOK, FrameRec
<1>11. \A x \in Frames :
          /\ frame'[x].st # "free" =>
                /\ x \notin Held(f) /\ frame[x].st # "free"
                /\ frame'[x].shim = frame[x].shim /\ frame'[x].owner = frame[x].owner
          /\ frame'[x].st \in BegunSt <=> frame[x].st \in BegunSt /\ x # f
          /\ frame'[x].st \in BegunSt => frame'[x].cont = frame[x].cont
          /\ frame'[x].st = "io" <=> frame[x].st = "io"
          /\ frame'[x].st = "wait" <=> frame[x].st = "wait" /\ x # k
          /\ frame'[x].st = "run" <=> (frame[x].st = "run" /\ x # f) \/ x = k
          /\ frame'[x].st = "start" => frame[x].st = "start" /\ frame'[x].cont = frame[x].cont
  <2> SUFFICES ASSUME NEW x \in Frames
               PROVE  /\ frame'[x].st # "free" =>
                            /\ x \notin Held(f) /\ frame[x].st # "free"
                            /\ frame'[x].shim = frame[x].shim /\ frame'[x].owner = frame[x].owner
                      /\ frame'[x].st \in BegunSt <=> frame[x].st \in BegunSt /\ x # f
                      /\ frame'[x].st \in BegunSt => frame'[x].cont = frame[x].cont
                      /\ frame'[x].st = "io" <=> frame[x].st = "io"
                      /\ frame'[x].st = "wait" <=> frame[x].st = "wait" /\ x # k
                      /\ frame'[x].st = "run" <=> (frame[x].st = "run" /\ x # f) \/ x = k
                      /\ frame'[x].st = "start" =>
                            frame[x].st = "start" /\ frame'[x].cont = frame[x].cont
    OBVIOUS
  <2>1. CASE x = f BY <1>2, <1>3, <1>4, <1>8, <2>1, TaskAssumption DEF BegunSt
  <2>2. CASE x \in Held(f) BY <1>3, <1>4, <1>8, <2>2, TaskAssumption DEF BegunSt
  <2>3. CASE x = k BY <1>4, <1>8, <2>3, TaskAssumption DEF BegunSt
  <2>4. CASE x # f /\ x \notin Held(f) /\ x # k BY <1>8, <2>4 DEF BegunSt
  <2> QED BY <2>1, <2>2, <2>3, <2>4
<1>12. Forest'
  <2>1. ShimInv'
    BY <1>1, <1>11 DEF Inv, Forest, ShimInv, BegunSt
  <2>2. OwnerInv'
    <3> SUFFICES ASSUME NEW c \in Frames, frame'[c].st # "free", frame'[c].owner # Loop
                 PROVE  frame'[c].owner \in Frames /\ frame'[frame'[c].owner].st \in BegunSt
      BY DEF OwnerInv
    <3>1. frame[c].owner \in Frames /\ frame[frame[c].owner].st \in BegunSt /\ frame[c].owner # f
      BY <1>11 DEF Inv, Forest, OwnerInv, Held
    <3> QED BY <1>11, <3>1
  <2>3. ContInv'
    <3>1. ASSUME NEW c \in Frames, frame'[c].st \in BegunSt, ~frame'[c].shim,
                 ~(frame'[c].owner = Loop /\ frame'[c].cont = Noop)
          PROVE  /\ frame'[c].owner \in Frames /\ frame'[frame'[c].owner].st = "wait"
                 /\ frame'[c].cont = frame'[c].owner
      <4>1. /\ frame[c].st \in BegunSt /\ c # f /\ frame'[c].cont = frame[c].cont
            /\ frame'[c].owner = frame[c].owner /\ frame'[c].shim = frame[c].shim
        BY <1>11, <3>1 DEF BegunSt
      <4>2. /\ frame[c].owner \in Frames /\ frame[frame[c].owner].st = "wait"
            /\ frame[c].cont = frame[c].owner
        BY <3>1, <4>1 DEF Inv, Forest, ContInv
      <4>3. frame[c].cont # k
        BY <1>2, <4>1, <4>2, TaskAssumption DEF Inv, Forest, OneInv, BegunSt, k
      <4> QED BY <1>11, <4>1, <4>2, <4>3
    <3>2. ASSUME NEW c \in Frames, frame'[c].st = "start"
          PROVE  frame'[c].cont = Noop /\ ~frame'[c].shim
      BY <1>11, <3>2 DEF Inv, Forest, ContInv
    <3> QED BY <3>1, <3>2 DEF ContInv
  <2>4. OneInv'
    BY <1>11 DEF Inv, Forest, OneInv
  <2> QED BY <2>1, <2>2, <2>3, <2>4 DEF Forest
<1>13. PendingInv'
  BY <1>1, <1>11 DEF Inv, PendingInv
<1>14. StackFlat'
  <2>1. In("run")' = (In("run") \ {f}) \cup ({k} \cap Frames)
    BY <1>11 DEF In
  <2> QED BY <1>9, <2>1 DEF Inv, StackFlat
<1>15. AwaitersServed'
  <2>1. \A x \in Frames : frame'[x].st = "wait" => frame[x].st = "wait" /\ x # k
    BY <1>11
  <2>2. \A c \in Frames :
               /\ frame[c].st \in BegunSt /\ frame[c].cont \in Frames
               /\ frame'[frame[c].cont].st = "wait"
               => frame'[c].st \in BegunSt /\ frame'[c].cont = frame[c].cont
    BY <1>11, <2>1 DEF k
  <2> QED BY <2>1, <2>2, Served DEF Inv
<1> QED BY <1>10, <1>12, <1>13, <1>14, <1>15 DEF Inv

\* A Task that has not ended is spawned: the shim awaits it at once.
LEMMA SpawnBegins ==
    ASSUME Inv, NEW a \in Frames \cup {Loop}, NEW c \in Frames, NEW s \in Frames,
           Acts(a), c \in Disposable(a), frame[s].st = "free", frame[c].st # "final",
           frame' = [frame EXCEPT
               ![s] = [[Free EXCEPT !.shim = TRUE, !.owner = s] EXCEPT !.st = "wait"],
               ![c].owner = s, ![c].st = "run", ![c].cont = s],
           stack' = Append(stack, c), UNCHANGED <<pending, aborted>>
    PROVE  Inv'
<1>1. /\ frame[c].st = "start" /\ ~frame[c].shim /\ frame[c].owner = a /\ c # s
      /\ Inv /\ frame[s].st = "free" /\ UNCHANGED <<pending, aborted>>
  BY HeldIdle
<1>2. frame \in [Frames -> FrameRec]
  BY DEF Inv, TypeOK, FrameRec
<1> DEFINE shim == [[Free EXCEPT !.shim = TRUE, !.owner = s] EXCEPT !.st = "wait"]
           task == [frame[c] EXCEPT !.owner = s, !.st = "run", !.cont = s]
<1>3. /\ shim \in FrameRec /\ shim.st = "wait" /\ shim.shim = TRUE /\ shim.owner = s
      /\ shim.cont = Noop /\ shim.result = "none"
  BY DEF Free, FrameRec, Results
<1>4. /\ task \in FrameRec /\ task.st = "run" /\ task.shim = frame[c].shim /\ task.owner = s
      /\ task.cont = s /\ task.result = frame[c].result
  BY <1>2 DEF FrameRec
<1>5. frame' = [frame EXCEPT ![s] = shim, ![c] = task]
  BY <1>1, <1>2
<1> HIDE DEF shim, task
<1>6. /\ frame' \in [Frames -> FrameRec] /\ frame'[s] = shim /\ frame'[c] = task
      /\ \A x \in Frames : x # s /\ x # c => frame'[x] = frame[x]
  BY ONLY <1>1, <1>2, <1>3, <1>4, <1>5, c \in Frames, s \in Frames
<1>7. \A x \in Frames : frame'[x].result # "none" <=> frame'[x].st = "final"
  BY ONLY <1>1, <1>3, <1>4, <1>6, c \in Frames, s \in Frames DEF Inv, TypeOK
<1>8. c \notin ToSet(stack)
  BY <1>1 DEF Inv, StackFlat, In
<1>9. /\ stack' \in Seq(Frames) /\ IsInjective(stack') /\ ToSet(stack') = ToSet(stack) \cup {c}
  BY <1>8, PushOn DEF Inv, TypeOK, StackFlat
<1>10. TypeOK'
  BY <1>6, <1>7, <1>9 DEF Inv, TypeOK, FrameRec
<1>11. ShimInv' /\ OwnerInv'
  BY ONLY <1>1, <1>3, <1>4, <1>6, c \in Frames, s \in Frames, TaskAssumption DEF Inv, Forest, ShimInv, OwnerInv, BegunSt
<1>12. \A x \in Frames : frame[x].st \in BegunSt => frame[x].cont # s
  BY <1>1, TaskAssumption DEF Inv, Forest, ShimInv, ContInv, BegunSt
<1>13. ContInv' /\ OneInv'
  BY ONLY <1>1, <1>3, <1>4, <1>6, c \in Frames, s \in Frames, <1>12, TaskAssumption DEF Inv, Forest, ContInv, OneInv, BegunSt
<1>14. PendingInv'
  <2>1. \A x \in Frames : frame'[x].st = "io" <=> frame[x].st = "io"
    BY ONLY <1>1, <1>3, <1>4, <1>6, c \in Frames, s \in Frames
  <2> QED BY <2>1 DEF Inv, PendingInv
<1>15. StackFlat'
  <2>1. In("run")' = In("run") \cup {c}
    BY ONLY <1>1, <1>3, <1>4, <1>6, c \in Frames, s \in Frames DEF In
  <2> QED BY <1>9, <2>1 DEF Inv, StackFlat
<1>16. AwaitersServed'
  BY ONLY <1>1, <1>3, <1>4, <1>6, c \in Frames, s \in Frames, Served DEF Inv, BegunSt
<1> QED BY <1>10, <1>11, <1>13, <1>14, <1>15, <1>16 DEF Inv, Forest

\* A Task that has ended is spawned: the shim does not wait for it.
LEMMA SpawnEnded ==
    ASSUME Inv, NEW a \in Frames \cup {Loop}, NEW c \in Frames, NEW s \in Frames,
           Acts(a), c \in Disposable(a), frame[s].st = "free", frame[c].st = "final",
           frame' = [frame EXCEPT
               ![c].owner = s,
               ![s] = [[Free EXCEPT !.shim = TRUE, !.owner = s] EXCEPT
                          !.st = "run", !.throws = Rethrows(frame[c].result)]],
           stack' = Append(stack, s), UNCHANGED <<pending, aborted>>
    PROVE  Inv'
<1>1. /\ ~frame[c].shim /\ frame[c].owner = a /\ c # s
      /\ Inv /\ frame[c].st = "final" /\ frame[s].st = "free" /\ UNCHANGED <<pending, aborted>>
  BY HeldIdle
<1>2. frame \in [Frames -> FrameRec] /\ Rethrows(frame[c].result) \in BOOLEAN
  BY DEF Inv, TypeOK, FrameRec, Rethrows
<1> DEFINE shim == [[Free EXCEPT !.shim = TRUE, !.owner = s] EXCEPT
                       !.st = "run", !.throws = Rethrows(frame[c].result)]
           task == [frame[c] EXCEPT !.owner = s]
<1>3. /\ shim \in FrameRec /\ shim.st = "run" /\ shim.shim = TRUE /\ shim.owner = s
      /\ shim.cont = Noop /\ shim.result = "none"
  BY <1>2 DEF Free, FrameRec, Results
<1>4. /\ task \in FrameRec /\ task.st = "final" /\ task.shim = frame[c].shim /\ task.owner = s
      /\ task.result = frame[c].result
  BY <1>2 DEF FrameRec
<1>5. frame' = [frame EXCEPT ![s] = shim, ![c] = task]
  BY <1>1, <1>2
<1> HIDE DEF shim, task
<1>6. /\ frame' \in [Frames -> FrameRec] /\ frame'[s] = shim /\ frame'[c] = task
      /\ \A x \in Frames : x # s /\ x # c => frame'[x] = frame[x]
  BY ONLY <1>1, <1>2, <1>3, <1>4, <1>5, c \in Frames, s \in Frames
<1>7. \A x \in Frames : frame'[x].result # "none" <=> frame'[x].st = "final"
  BY ONLY <1>1, <1>3, <1>4, <1>6, c \in Frames, s \in Frames DEF Inv, TypeOK
<1>8. s \notin ToSet(stack)
  BY <1>1 DEF Inv, StackFlat, In
<1>9. /\ stack' \in Seq(Frames) /\ IsInjective(stack') /\ ToSet(stack') = ToSet(stack) \cup {s}
  BY <1>8, PushOn DEF Inv, TypeOK, StackFlat
<1>10. TypeOK'
  BY <1>6, <1>7, <1>9 DEF Inv, TypeOK, FrameRec
<1>11. ShimInv' /\ OwnerInv'
  BY ONLY <1>1, <1>3, <1>4, <1>6, c \in Frames, s \in Frames, TaskAssumption DEF Inv, Forest, ShimInv, OwnerInv, BegunSt
<1>13. ContInv' /\ OneInv'
  BY ONLY <1>1, <1>3, <1>4, <1>6, c \in Frames, s \in Frames, TaskAssumption DEF Inv, Forest, ContInv, OneInv, BegunSt
<1>14. PendingInv'
  <2>1. \A x \in Frames : frame'[x].st = "io" <=> frame[x].st = "io"
    BY ONLY <1>1, <1>3, <1>4, <1>6, c \in Frames, s \in Frames
  <2> QED BY <2>1 DEF Inv, PendingInv
<1>15. StackFlat'
  <2>1. In("run")' = In("run") \cup {s}
    BY ONLY <1>1, <1>3, <1>4, <1>6, c \in Frames, s \in Frames DEF In
  <2> QED BY <1>9, <2>1 DEF Inv, StackFlat
<1>16. AwaitersServed'
  BY ONLY <1>1, <1>3, <1>4, <1>6, c \in Frames, s \in Frames, Served DEF Inv, BegunSt
<1> QED BY <1>10, <1>11, <1>13, <1>14, <1>15, <1>16 DEF Inv, Forest

\* The shim ends: its frame and its Task are freed, or the program is about to abort.
LEMMA ShimEndStep == ASSUME Inv, NEW s \in Frames, ShimEnd(s) PROVE Inv'
<1>1. OnTop(s) /\ frame[s].shim /\ UNCHANGED pending
  BY DEF ShimEnd
<1>2. frame[s].st = "run" /\ s = Last(stack) /\ stack # <<>>
  BY <1>1, TopRuns
<1>3. CASE frame[s].throws /\ aborted' = TRUE /\ UNCHANGED <<frame, stack>>
  <2>1. TypeOK' BY <1>1, <1>3 DEF Inv, TypeOK
  <2>2. Forest' /\ PendingInv' /\ StackFlat'
    BY <1>1, <1>3
    DEF Inv, Forest, ShimInv, OwnerInv, ContInv, OneInv, PendingInv, StackFlat, In
  <2>3. AwaitersServed' BY <1>3, Served DEF Inv
  <2> QED BY <2>1, <2>2, <2>3 DEF Inv
<1>4. CASE /\ UNCHANGED aborted /\ stack' = Front(stack)
           /\ frame' = [f \in Frames |-> IF f \in Held(s) THEN Free ELSE frame[f]]
  <2>1. s \in Held(s) /\ frame[s].cont = Noop
    BY <1>1, <1>2 DEF Inv, Forest, ShimInv, Held
  <2>2. \A c \in Held(s) \ {s} : c \in Frames /\ frame[c].st \in {"start", "final"}
    BY <1>2, BodyHolds
  <2>3. frame \in [Frames -> FrameRec] /\ Free \in FrameRec
    BY DEF Inv, TypeOK, FrameRec, Free, Results
  <2>4. /\ frame' \in [Frames -> FrameRec]
        /\ \A x \in Held(s) : frame'[x].st = "free" /\ frame'[x].result = "none"
        /\ \A x \in Frames : x \notin Held(s) => frame'[x] = frame[x]
    <3>1. Free.st = "free" /\ Free.result = "none" BY DEF Free
    <3> QED BY <1>4, <2>1, <2>2, <2>3, <3>1
  <2>5. /\ stack' \in Seq(Frames) /\ IsInjective(stack') /\ ToSet(stack') = ToSet(stack) \ {s}
    BY <1>2, <1>4, PopOff DEF Inv, StackFlat, TypeOK
  <2>6. TypeOK'
    <3>1. \A x \in Frames : frame'[x].result # "none" <=> frame'[x].st = "final"
      BY <2>4 DEF Inv, TypeOK
    <3> QED BY <1>1, <1>4, <2>4, <2>5, <3>1 DEF Inv, TypeOK, FrameRec
  <2>7. \A x \in Frames : frame[x].st \in BegunSt /\ x # s => frame'[x] = frame[x]
    BY <2>2, <2>4 DEF BegunSt
  <2>8. ShimInv' /\ OwnerInv'
    BY <2>1, <2>4, <2>7 DEF Inv, Forest, ShimInv, OwnerInv, Held
  <2>9. ContInv' /\ OneInv'
    BY <1>2, <2>1, <2>4, <2>7 DEF Inv, Forest, ContInv, OneInv, Held, BegunSt
  <2>10. PendingInv'
    <3>1. \A x \in Frames : frame'[x].st = "io" <=> frame[x].st = "io"
      BY <1>2, <2>2, <2>4
    <3> QED BY <1>1, <3>1 DEF Inv, PendingInv
  <2>11. StackFlat'
    <3>1. In("run")' = In("run") \ {s}
      BY <1>2, <2>1, <2>2, <2>4 DEF In
    <3> QED BY <2>5, <3>1 DEF Inv, StackFlat
  <2>12. AwaitersServed'
    BY <2>1, <2>4, <2>7, Served, TaskAssumption DEF Inv
  <2> QED BY <2>6, <2>8, <2>9, <2>10, <2>11, <2>12 DEF Inv, Forest
<1> QED BY <1>3, <1>4 DEF ShimEnd

\* All steps together.
LEMMA Invariance == Spec => []Inv
<1>1. Inv /\ [Next]_vars => Inv'
  <2> SUFFICES ASSUME Inv, [Next]_vars PROVE Inv'
    OBVIOUS
  <2>1. CASE \E a \in Frames \cup {Loop} : Create(a)
    BY <2>1, CreateStep
  <2>2. CASE \E a \in Frames \cup {Loop}, c \in Frames : DestroyTask(a, c)
    BY <2>2, DestroyStep
  <2>3. ASSUME NEW a \in Frames \cup {Loop}, NEW c \in Frames, Spawn(a, c) PROVE Inv'
    BY <2>3, SpawnBegins, SpawnEnded DEF Spawn
  <2>4. CASE \E f \in Frames : Catch(f) \/ \E c \in Frames : AwaitReady(f, c)
    BY <2>4, AwaitReadyStep
  <2>5. CASE \E f, c \in Frames : AwaitSuspend(f, c)
    BY <2>5, AwaitSuspendStep
  <2>6. CASE \E f \in Frames : Suspend(f) \/ Resume(f) \/ ResumeTask(f) \/ ShimEnd(f)
    BY <2>6, SuspendStep, ResumeStep, ShimEndStep
  <2>7. CASE \E f \in Frames, r \in {"value", "exception"} : Finish(f, r)
    BY <2>7, FinishStep
  <2>8. CASE UNCHANGED vars
    <3>1. UNCHANGED <<frame, stack, pending, aborted>> BY <2>8 DEF vars
    <3>2. AwaitersServed' BY <3>1, Served DEF Inv
    <3> QED BY <3>1, <3>2 DEF Inv, TypeOK, Forest, ShimInv, OwnerInv, ContInv, OneInv, PendingInv,
               StackFlat, In
  <2> QED BY <2>1, <2>2, <2>3, <2>4, <2>5, <2>6, <2>7, <2>8 DEF Next
<1> QED BY InitInv, <1>1, PTL DEF Spec

-----------------------------------------------------------------------------
(* The theorems. *)

\* What the loop, or a Task that has begun, will resume exists and is suspended for
\* just that: no handle dangles, none is resumed twice.
THEOREM NoHandleDangles == Spec => []HandlesLive
<1>1. Inv => HandlesLive
  <2> SUFFICES ASSUME Inv PROVE HandlesLive
    OBVIOUS
  <2>1. pending = In("io")
    BY DEF Inv, TypeOK, PendingInv, In
  <2>2. \A c \in Begun : c \in Frames /\ frame[c].st \in BegunSt
    BY DEF Begun, In, BegunSt
  <2>3. \A c \in Begun : frame[c].cont = Noop \/ frame[c].cont \in In("wait")
    BY <2>2 DEF Inv, Forest, ShimInv, ContInv, In, BegunSt
  <2>4. \A c, d \in Begun : c # d /\ frame[c].cont = frame[d].cont => frame[c].cont = Noop
    BY <2>2 DEF Inv, Forest, OneInv
  <2> QED BY <2>1, <2>3, <2>4 DEF Inv, HandlesLive
<1> QED BY <1>1, Invariance, PTL

\* Symmetric transfer: the thread's stack holds the running coroutines only, each
\* once, however deep awaits nest.
THEOREM StackStaysFlat == Spec => []StackFlat
<1>1. Inv => StackFlat BY DEF Inv
<1> QED BY <1>1, Invariance, PTL

\* No coroutine waits in vain, and none waits in a ring.
THEOREM NoVainWait == Spec => []AwaitersServed
<1>1. Inv => AwaitersServed BY DEF Inv
<1> QED BY <1>1, Invariance, PTL

\* No frame leaks: what is left when nothing runs or is pending is what main() holds.
THEOREM NoFrameLeaks == Spec => []FramesFreed
<1>1. Inv => FramesFreed
  <2> SUFFICES ASSUME Inv, stack = <<>>, pending = {}, NEW f \in Frames, frame[f].st # "free"
               PROVE  frame[f].owner = Loop /\ frame[f].st \in {"start", "final"}
    BY DEF FramesFreed, In
  <2>1. In("run") = {} /\ In("io") = {}
    BY DEF Inv, StackFlat, ToSet, PendingInv, In
  <2>2. In("wait") = {}
    BY <2>1 DEF Inv, AwaitersServed, Begun
  <2>3. \A x \in Frames : frame[x].st \notin BegunSt
    BY <2>1, <2>2 DEF In, BegunSt
  <2> QED BY <2>3 DEF Inv, TypeOK, Forest, OwnerInv, BegunSt
<1> QED BY <1>1, Invariance, PTL
=============================================================================
