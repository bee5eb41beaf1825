--------------------------- MODULE TcpWorkerProofs ---------------------------
(***************************************************************************)
(* Proofs about TcpWorker, for any number of connections, descriptors,     *)
(* registered slots and seconds of the wheel.                              *)
(***************************************************************************)
EXTENDS TcpWorker, FiniteSetTheorems, SequenceTheorems, TLAPS

\* Nothing is accepted before the loop runs; the worker is joined after it ended.
LoopInv ==
    /\ loop = "boot" => accept = "none"
    /\ owner \in {"joined", "gone"} => loop = "ended"

\* Every open descriptor has one owner, and the owned ones are open.
FdInv ==
    /\ accept = "cqe" => acceptFd \in openFds
    /\ \A c \in live : fdOf[c] \in openFds /\ (accept = "cqe" => fdOf[c] # acceptFd)
    /\ \A c, d \in live : fdOf[c] = fdOf[d] => c = d
    /\ \A f \in openFds : (accept = "cqe" /\ f = acceptFd) \/ \E c \in live : fdOf[c] = f

\* The free list has no slot twice and none that is held; no slot is held twice;
\* none is lost.
SlotInv ==
    /\ \A i, j \in 1 .. Len(freeList) : freeList[i] = freeList[j] => i = j
    /\ \A c \in live : \A i \in 1 .. Len(freeList) : freeList[i] # slotOf[c]
    /\ \A c, d \in live : slotOf[c] = slotOf[d] /\ slotOf[c] # None => c = d
    /\ \A s \in Slots : \/ \E i \in 1 .. Len(freeList) : freeList[i] = s
                        \/ \E c \in live : slotOf[c] = s

\* A connection lives as long as a coroutine holds it.
ConnInv ==
    \A c \in Conns : c \in live <=> handler[c] \in Awaits \/ evictor[c] = "shutdown"

\* An operation belongs to the coroutine that awaits it, and a shutdown that is
\* done has shut the connection's own socket.
OpInv ==
    /\ \A o \in ops :
        /\ o.who = "handler" => handler[o.conn] = o.kind
        /\ o.who = "evictor" => evictor[o.conn] = "shutdown"
        /\ o.done => o.conn \in shut
    /\ \A o, p \in ops : o.conn = p.conn /\ o.who = p.who => o = p

\* How many ticks ago bucket b was the newest, the tail being at t.
Age(b, t) == IF b < t THEN t - 1 - b ELSE t - 1 - b + IdleSeconds

\* An entry is in the bucket of the tick its connection last gave data in, and in
\* none that is newer; an evicted connection has no entry.
WheelInv ==
    /\ \A c \in live :
        EntryAlive(c) =>
            /\ \E b \in Buckets : c \in buckets[b] /\ Age(b, tail) = silent[c]
            /\ \A b \in Buckets : c \in buckets[b] => Age(b, tail) >= silent[c]
    /\ \A c \in Conns : evictor[c] = "shutdown" => ~EntryAlive(c)

\* The socket of c is shut down, or will be.
Closing(c) == c \in shut \/ \E o \in ops : o.conn = c /\ o.kind = "shutdown"

\* Without an entry a connection is on its way out.
EvictInv == \A c \in live : EntryAlive(c) \/ Closing(c)

ResInv  == TypeOK /\ LoopInv /\ FdInv /\ SlotInv
CoroInv == ConnInv /\ OpsOnOwnSocket /\ OpInv
Inv     == ResInv /\ CoroInv /\ WheelInv /\ EvictInv

-----------------------------------------------------------------------------
(* The wheel's arithmetic. *)

\* The ring's indices: the newest bucket has age 0, the tail is the oldest, and
\* a tick makes every other bucket one tick older.
LEMMA WheelAges ==
    ASSUME TypeOK
    PROVE  /\ Back \in Buckets /\ Age(Back, tail) = 0
           /\ NextIndex(tail) \in Buckets
           /\ Age(tail, tail) = IdleSeconds - 1
           /\ \A b \in Buckets : Age(b, tail) \in 0 .. IdleSeconds - 1
           /\ \A b \in Buckets : Age(b, tail) = IdleSeconds - 1 => b = tail
           /\ \A b \in Buckets \ {tail} : Age(b, NextIndex(tail)) = Age(b, tail) + 1
<1> DEFINE N == IdleSeconds
<1>1. N \in Nat /\ N > 0 /\ tail \in Nat /\ tail < N
  BY WorkerAssumption DEF TypeOK, Buckets
<1>2. Back = IF tail = 0 THEN N - 1 ELSE tail - 1
  <2>1. CASE tail = 0
    BY <1>1, <2>1 DEF Back
  <2>2. CASE tail # 0
    BY <1>1, <2>2 DEF Back
  <2>3. QED BY <2>1, <2>2
<1>3. NextIndex(tail) = IF tail = N - 1 THEN 0 ELSE tail + 1
  BY <1>1 DEF NextIndex
<1>4. QED
  BY <1>1, <1>2, <1>3 DEF Age, Buckets

-----------------------------------------------------------------------------
(* Descriptors and slots. *)

\* The types of what connections own.
ObjTypes ==
    /\ openFds \subseteq Fds
    /\ live \subseteq Conns
    /\ fdOf \in [Conns -> Fds \cup {None}]
    /\ slotOf \in [Conns -> Slots \cup {None}]
    /\ freeList \in Seq(Slots)
    /\ shut \subseteq Conns

\* None is not a slot.
LEMMA NoneNoSlot == None \notin Slots
BY WorkerAssumption DEF Slots

\* acquire() gives a connection a slot of its own, or none.
LEMMA AcquireKeeps ==
    ASSUME TypeOK, SlotInv, NEW c \in Conns, c \notin live, Acquire(c),
           live' = live \cup {c}
    PROVE  SlotInv' /\ slotOf' \in [Conns -> Slots \cup {None}] /\ freeList' \in Seq(Slots)
<1>1. /\ slotOf \in [Conns -> Slots \cup {None}] /\ freeList \in Seq(Slots)
      /\ live \subseteq Conns
  BY DEF TypeOK
<1>2. CASE freeList = <<>>
  <2>1. slotOf' = [slotOf EXCEPT ![c] = None] /\ freeList' = freeList
    BY <1>2 DEF Acquire
  <2>2. slotOf'[c] = None /\ \A d \in live : slotOf'[d] = slotOf[d]
    BY <1>1, <2>1
  <2>3. Len(freeList) = 0
    BY <1>2
  <2>4. SlotInv'
    <3>1. \A i \in 1 .. Len(freeList') : FALSE
      BY <2>1, <2>3
    <3>2. \A b, d \in live' : slotOf'[b] = slotOf'[d] /\ slotOf'[b] # None => b = d
      BY <2>2 DEF SlotInv
    <3>3. \A s \in Slots : \E d \in live' : slotOf'[d] = s
      BY <2>2, <2>3 DEF SlotInv
    <3>4. QED BY <3>1, <3>2, <3>3 DEF SlotInv
  <2>5. QED BY <1>1, <2>1, <2>4
<1>3. CASE freeList # <<>>
  <2> DEFINE n == Len(freeList)
  <2>1. /\ slotOf' = [slotOf EXCEPT ![c] = freeList[n]]
        /\ freeList' = SubSeq(freeList, 1, n - 1)
    BY <1>3 DEF Acquire
  <2>2. n \in Nat /\ n > 0 /\ freeList[n] \in Slots
    BY <1>1, <1>3
  <2>3. /\ freeList' \in Seq(Slots) /\ Len(freeList') = n - 1
        /\ \A i \in 1 .. n - 1 : freeList'[i] = freeList[i]
    <3>1. \A i \in 1 .. n - 1 : freeList[i] \in Slots
      BY <1>1, <2>2
    <3> HIDE DEF n
    <3>2. /\ SubSeq(freeList, 1, n - 1) \in Seq(Slots)
          /\ Len(SubSeq(freeList, 1, n - 1)) = IF 1 <= n - 1 THEN n - 1 - 1 + 1 ELSE 0
          /\ \A i \in 1 .. n - 1 - 1 + 1 : SubSeq(freeList, 1, n - 1)[i] = freeList[1 + i - 1]
      BY <2>2, <3>1, SubSeqProperties
    <3>3. \A i \in 1 .. n - 1 : i \in 1 .. n - 1 - 1 + 1 /\ 1 + i - 1 = i
      BY <2>2
    <3>4. QED BY <2>1, <2>2, <3>2, <3>3
  <2>4. slotOf'[c] = freeList[n] /\ \A d \in live : slotOf'[d] = slotOf[d]
    BY <1>1, <2>1
  <2> HIDE DEF n
  <2>5. n = Len(freeList)
    BY DEF n
  <2>6. SlotInv'
    <3>1. (\A i, j \in 1 .. Len(freeList) : freeList[i] = freeList[j] => i = j)'
      BY <2>2, <2>3, <2>5 DEF SlotInv
    <3>2. (\A d \in live : \A i \in 1 .. Len(freeList) : freeList[i] # slotOf[d])'
      BY <2>2, <2>3, <2>4, <2>5 DEF SlotInv
    <3>3. (\A b, d \in live : slotOf[b] = slotOf[d] /\ slotOf[b] # None => b = d)'
      BY <2>2, <2>4, <2>5 DEF SlotInv
    <3>4. \A s \in Slots : \/ \E i \in 1 .. Len(freeList') : freeList'[i] = s
                           \/ \E d \in live' : slotOf'[d] = s
      <4> SUFFICES ASSUME NEW s \in Slots
                   PROVE  \/ \E i \in 1 .. Len(freeList') : freeList'[i] = s
                          \/ \E d \in live' : slotOf'[d] = s
        OBVIOUS
      <4>1. CASE \E d \in live : slotOf[d] = s
        BY <2>4, <4>1
      <4>2. ASSUME NEW i \in 1 .. n, freeList[i] = s
            PROVE  \/ \E k \in 1 .. Len(freeList') : freeList'[k] = s
                   \/ \E d \in live' : slotOf'[d] = s
        <5>1. CASE i = n
          BY <2>4, <4>2, <5>1
        <5>2. CASE i # n
          BY <2>2, <2>3, <4>2, <5>2
        <5>3. QED BY <5>1, <5>2
      <4>3. QED BY <2>5, <4>1, <4>2 DEF SlotInv
    <3>5. QED BY <3>1, <3>2, <3>3, <3>4 DEF SlotInv
  <2>7. QED BY <1>1, <2>1, <2>2, <2>3, <2>6
<1>4. QED BY <1>2, <1>3

\* ~TcpConnection returns the slot and closes the descriptor of a connection
\* nobody else has them from.
LEMMA DropKeeps ==
    ASSUME ResInv, NEW c \in live, DropReference(c), UNCHANGED <<loop, owner, accLoop>>
    PROVE  FdInv' /\ SlotInv' /\ LoopInv' /\ ObjTypes'
<1>1. /\ slotOf \in [Conns -> Slots \cup {None}] /\ freeList \in Seq(Slots)
      /\ live \subseteq Conns /\ fdOf \in [Conns -> Fds \cup {None}]
      /\ c \in Conns
  BY DEF ResInv, TypeOK
<1>2. UNCHANGED <<loop, owner, accept, acceptFd>>
  BY DEF accLoop
<1>3. LoopInv'
  BY <1>2 DEF ResInv, LoopInv
<1>4. CASE Referenced(c)
  <2>1. UNCHANGED <<openFds, live, fdOf, slotOf, freeList, shut>>
    BY <1>4 DEF DropReference, objects
  <2>2. FdInv' /\ SlotInv'
    BY <1>2, <2>1 DEF ResInv, FdInv, SlotInv
  <2>3. ObjTypes'
    BY <2>1 DEF ObjTypes, ResInv, TypeOK
  <2>4. QED BY <1>3, <2>2, <2>3
<1>5. CASE ~Referenced(c)
  <2>1. /\ live' = live \ {c} /\ openFds' = openFds \ {fdOf[c]}
        /\ freeList' = IF slotOf[c] = None THEN freeList ELSE Append(freeList, slotOf[c])
        /\ fdOf' = [fdOf EXCEPT ![c] = None] /\ slotOf' = [slotOf EXCEPT ![c] = None]
        /\ shut' = shut \ {c}
    BY <1>5 DEF DropReference
  <2>2. \A d \in live' : /\ d \in live /\ d # c
                         /\ fdOf'[d] = fdOf[d] /\ slotOf'[d] = slotOf[d]
    BY <1>1, <2>1
  <2>3. FdInv'
    BY <1>2, <2>1, <2>2 DEF ResInv, FdInv
  <2>4. CASE slotOf[c] = None
    <3>1. freeList' = freeList
      BY <2>1, <2>4
    <3>2. SlotInv'
      BY <2>1, <2>2, <2>4, <3>1, NoneNoSlot DEF ResInv, SlotInv
    <3>3. ObjTypes'
      BY <1>1, <2>1, <3>1 DEF ObjTypes, ResInv, TypeOK
    <3>4. QED BY <1>3, <2>3, <3>2, <3>3
  <2>5. CASE slotOf[c] # None
    <3> DEFINE n == Len(freeList)
    <3>1. slotOf[c] \in Slots
      BY <1>1, <2>5
    <3>2. /\ freeList' \in Seq(Slots) /\ n \in Nat /\ Len(freeList') = n + 1
          /\ freeList'[n + 1] = slotOf[c]
          /\ \A i \in 1 .. n : freeList'[i] = freeList[i]
      BY <1>1, <2>1, <2>5, <3>1
    <3> HIDE DEF n
    <3>3. n = Len(freeList)
      BY DEF n
    <3>4. \A i \in 1 .. n + 1 : i = n + 1 \/ i \in 1 .. n
      BY <3>2
    <3>5. (\A i, j \in 1 .. Len(freeList) : freeList[i] = freeList[j] => i = j)'
      BY <3>2, <3>3, <3>4 DEF ResInv, SlotInv
    <3>6. (\A d \in live : \A i \in 1 .. Len(freeList) : freeList[i] # slotOf[d])'
      BY <2>2, <2>5, <3>2, <3>3, <3>4 DEF ResInv, SlotInv
    <3>7. (\A b, d \in live : slotOf[b] = slotOf[d] /\ slotOf[b] # None => b = d)'
      BY <2>2 DEF ResInv, SlotInv
    <3>8. \A s \in Slots : \/ \E i \in 1 .. Len(freeList') : freeList'[i] = s
                           \/ \E d \in live' : slotOf'[d] = s
      <4> SUFFICES ASSUME NEW s \in Slots
                   PROVE  \/ \E i \in 1 .. Len(freeList') : freeList'[i] = s
                          \/ \E d \in live' : slotOf'[d] = s
        OBVIOUS
      <4>1. CASE s = slotOf[c]
        BY <3>2, <4>1
      <4>2. CASE s # slotOf[c]
        <5>1. ASSUME NEW i \in 1 .. n, freeList[i] = s
              PROVE  \E k \in 1 .. Len(freeList') : freeList'[k] = s
          BY <3>2, <5>1
        <5>2. ASSUME NEW d \in live, slotOf[d] = s
              PROVE  \E b \in live' : slotOf'[b] = s
          BY <2>1, <2>2, <4>2, <5>2
        <5>3. QED BY <3>3, <5>1, <5>2 DEF ResInv, SlotInv
      <4>3. QED BY <4>1, <4>2
    <3>9. SlotInv'
      BY <3>5, <3>6, <3>7, <3>8 DEF SlotInv
    <3>10. ObjTypes'
      BY <1>1, <2>1, <3>2 DEF ObjTypes, ResInv, TypeOK
    <3>11. QED BY <1>3, <2>3, <3>9, <3>10
  <2>6. QED BY <2>4, <2>5
<1>6. QED BY <1>4, <1>5

\* What is left of the connections when c loses a reference.
LEMMA DropFrame ==
    ASSUME TypeOK, NEW c \in live, DropReference(c)
    PROVE  /\ live' = IF Referenced(c) THEN live ELSE live \ {c}
           /\ \A d \in live' : /\ d \in live /\ fdOf'[d] = fdOf[d] /\ slotOf'[d] = slotOf[d]
                               /\ d \in shut <=> d \in shut'
BY DEF DropReference, objects, TypeOK

-----------------------------------------------------------------------------
(* The coroutines and their operations. *)

\* The types of the coroutines and of their operations.
CoroTypes ==
    /\ handler \in [Conns -> Awaits \cup {"none"}]
    /\ evictor \in [Conns -> {"none", "shutdown"}]
    /\ ops \subseteq Op

\* Who resumes with the completion of o: the handler goes on and drops its
\* reference or submits its next operation.
LEMMA GoesOnKeeps ==
    ASSUME ResInv, CoroInv, NEW c \in Conns, NEW o \in OpOf(c, "handler"),
           NEW next \in Awaits \cup {"none"}, o.kind = "shutdown" => o.done,
           HandlerGoesOn(c, o, next)
    PROVE  /\ FdInv' /\ SlotInv' /\ LoopInv' /\ ObjTypes' /\ CoroTypes' /\ CoroInv'
           /\ \A d \in live' : d \in live /\ (Closing(d) => Closing(d)')
<1>1. /\ o \in ops /\ o.conn = c /\ o.who = "handler" /\ o \in Op
      /\ c \in live /\ TypeOK
  BY DEF OpOf, CoroInv, OpsOnOwnSocket, ResInv, TypeOK
<1>2. /\ handler' = [handler EXCEPT ![c] = next] /\ evictor' = evictor
      /\ DropReference(c)
      /\ ops' = (ops \ {o}) \cup (IF next = "none" THEN {} ELSE {Submitted(c, "handler", next)})
      /\ UNCHANGED <<loop, owner, accLoop>>
  BY DEF HandlerGoesOn, server
<1>3. FdInv' /\ SlotInv' /\ LoopInv' /\ ObjTypes'
  BY <1>1, <1>2, DropKeeps
<1>4. /\ live' = IF Referenced(c) THEN live ELSE live \ {c}
      /\ \A d \in live' : /\ d \in live /\ fdOf'[d] = fdOf[d] /\ slotOf'[d] = slotOf[d]
                          /\ d \in shut <=> d \in shut'
  BY <1>1, <1>2, DropFrame
<1>5. /\ handler'[c] = next
      /\ \A d \in Conns : d # c => handler'[d] = handler[d]
      /\ handler' \in [Conns -> Awaits \cup {"none"}]
      /\ evictor' \in [Conns -> {"none", "shutdown"}]
      /\ ops \subseteq Op /\ live \subseteq Conns
  BY <1>1, <1>2 DEF TypeOK
<1>6. "none" \notin Awaits
  BY DEF Awaits
<1>7. Referenced(c) <=> next # "none" \/ evictor[c] = "shutdown"
  BY <1>2, <1>5, <1>6 DEF Referenced
<1>8. ConnInv'
  <2> SUFFICES ASSUME NEW d \in Conns
               PROVE  d \in live' <=> handler'[d] \in Awaits \/ evictor'[d] = "shutdown"
    BY DEF ConnInv
  <2>1. CASE d = c
    BY <1>1, <1>2, <1>4, <1>5, <1>6, <1>7, <2>1
  <2>2. CASE d # c
    BY <1>2, <1>4, <1>5, <2>2 DEF CoroInv, ConnInv
  <2>3. QED BY <2>1, <2>2
<1>9. ASSUME NEW p \in ops, p # o
      PROVE  /\ p.conn \in live' /\ fdOf'[p.conn] = p.fd
             /\ p.slot # None => slotOf'[p.conn] = p.slot
             /\ p.who = "handler" => p.conn # c /\ handler'[p.conn] = p.kind
             /\ p.who = "evictor" => evictor'[p.conn] = "shutdown"
             /\ p.done => p.conn \in shut'
  <2>1. /\ p \in Op /\ p.conn \in Conns /\ p.who \in {"handler", "evictor"}
    BY <1>5 DEF Op
  <2>2. p.conn = c => p.who = "evictor" /\ evictor[c] = "shutdown"
    BY <1>1, <1>9, <2>1 DEF CoroInv, OpInv
  <2>3. p.conn \in live'
    BY <1>4, <1>7, <2>2 DEF CoroInv, OpsOnOwnSocket
  <2>4. QED
    BY <1>2, <1>4, <1>5, <2>1, <2>2, <2>3 DEF CoroInv, OpsOnOwnSocket, OpInv
<1>10. CASE next = "none"
  <2>1. ops' = ops \ {o}
    BY <1>2, <1>10
  <2>2. OpsOnOwnSocket'
    BY <1>9, <2>1 DEF OpsOnOwnSocket
  <2>3. OpInv'
    BY <1>9, <2>1 DEF OpInv, CoroInv
  <2>4. CoroTypes'
    BY <1>5, <2>1 DEF CoroTypes
  <2>5. \A d \in live' : d \in live /\ (Closing(d) => Closing(d)')
    BY <1>1, <1>4, <2>1 DEF Closing, CoroInv, OpInv
  <2>6. QED BY <1>3, <1>8, <2>2, <2>3, <2>4, <2>5 DEF CoroInv
<1>11. CASE next # "none"
  <2> DEFINE S == Submitted(c, "handler", next)
  <2>1. ops' = (ops \ {o}) \cup {S}
    BY <1>2, <1>11
  <2>2. live' = live
    BY <1>4, <1>7, <1>11
  <2>3. fdOf'[c] \in Fds /\ slotOf'[c] \in Slots \cup {None}
    <3>1. fdOf'[c] \in openFds'
      BY <1>1, <1>3, <2>2 DEF FdInv
    <3>2. QED BY <1>3, <3>1 DEF ObjTypes
  <2>4. /\ S \in Op /\ S.conn = c /\ S.who = "handler" /\ S.kind = next /\ S.fd = fdOf'[c]
        /\ S.slot # None => S.slot = slotOf'[c]
        /\ S.done = FALSE
    BY <1>11, <2>3 DEF Submitted, Op
  <2> HIDE DEF S
  <2>5. OpsOnOwnSocket'
    BY <1>1, <1>9, <2>1, <2>2, <2>4 DEF OpsOnOwnSocket
  <2>6. OpInv'
    <3>1. \A p \in ops' : /\ p.who = "handler" => handler'[p.conn] = p.kind
                          /\ p.who = "evictor" => evictor'[p.conn] = "shutdown"
                          /\ p.done => p.conn \in shut'
      BY <1>5, <1>9, <2>1, <2>4
    <3>2. \A p, q \in ops' : p.conn = q.conn /\ p.who = q.who => p = q
      BY <1>9, <2>1, <2>4 DEF CoroInv, OpInv
    <3>3. QED BY <3>1, <3>2 DEF OpInv
  <2>7. CoroTypes'
    BY <1>5, <2>1, <2>4 DEF CoroTypes
  <2>8. \A d \in live' : d \in live /\ (Closing(d) => Closing(d)')
    BY <1>1, <1>4, <2>1 DEF Closing, CoroInv, OpInv
  <2>9. QED BY <1>3, <1>8, <2>5, <2>6, <2>7, <2>8 DEF CoroInv
<1>12. QED BY <1>10, <1>11

\* The coroutine that evicts c is done with it.
LEMMA EvictorKeeps ==
    ASSUME ResInv, CoroInv, NEW c \in Conns, EvictorResumes(c)
    PROVE  /\ FdInv' /\ SlotInv' /\ LoopInv' /\ ObjTypes' /\ CoroTypes' /\ CoroInv'
           /\ \A d \in live' : d \in live /\ (Closing(d) => Closing(d)')
<1>1. PICK o \in OpOf(c, "evictor") : o.done /\ ops' = ops \ {o}
  BY DEF EvictorResumes
<1>2. /\ o \in ops /\ o.conn = c /\ o.who = "evictor" /\ o \in Op
      /\ c \in live /\ TypeOK
  BY DEF OpOf, CoroInv, OpsOnOwnSocket, ResInv, TypeOK
<1>3. /\ evictor' = [evictor EXCEPT ![c] = "none"] /\ handler' = handler
      /\ DropReference(c)
      /\ UNCHANGED <<loop, owner, accLoop>>
  BY DEF EvictorResumes, server
<1>4. FdInv' /\ SlotInv' /\ LoopInv' /\ ObjTypes'
  BY <1>2, <1>3, DropKeeps
<1>5. /\ live' = IF Referenced(c) THEN live ELSE live \ {c}
      /\ \A d \in live' : /\ d \in live /\ fdOf'[d] = fdOf[d] /\ slotOf'[d] = slotOf[d]
                          /\ d \in shut <=> d \in shut'
  BY <1>2, <1>3, DropFrame
<1>6. /\ evictor'[c] = "none"
      /\ \A d \in Conns : d # c => evictor'[d] = evictor[d]
      /\ handler' \in [Conns -> Awaits \cup {"none"}]
      /\ evictor' \in [Conns -> {"none", "shutdown"}]
      /\ ops \subseteq Op /\ live \subseteq Conns
  BY <1>2, <1>3 DEF TypeOK
<1>7. Referenced(c) <=> handler[c] \in Awaits
  BY <1>3, <1>6 DEF Referenced
<1>8. ConnInv'
  <2> SUFFICES ASSUME NEW d \in Conns
               PROVE  d \in live' <=> handler'[d] \in Awaits \/ evictor'[d] = "shutdown"
    BY DEF ConnInv
  <2>1. CASE d = c
    BY <1>2, <1>3, <1>5, <1>6, <1>7, <2>1
  <2>2. CASE d # c
    BY <1>3, <1>5, <1>6, <2>2 DEF CoroInv, ConnInv
  <2>3. QED BY <2>1, <2>2
<1>9. ASSUME NEW p \in ops, p # o
      PROVE  /\ p.conn \in live' /\ fdOf'[p.conn] = p.fd
             /\ p.slot # None => slotOf'[p.conn] = p.slot
             /\ p.who = "handler" => handler'[p.conn] = p.kind
             /\ p.who = "evictor" => evictor'[p.conn] = "shutdown"
             /\ p.done => p.conn \in shut'
  <2>1. /\ p \in Op /\ p.conn \in Conns /\ p.who \in {"handler", "evictor"}
        /\ p.kind \in Awaits
    BY <1>6 DEF Op
  <2>2. p.conn = c => p.who = "handler" /\ handler[c] \in Awaits
    BY <1>2, <1>9, <2>1 DEF CoroInv, OpInv
  <2>3. p.conn \in live'
    BY <1>5, <1>7, <2>2 DEF CoroInv, OpsOnOwnSocket
  <2>4. QED
    BY <1>3, <1>5, <1>6, <2>1, <2>2, <2>3 DEF CoroInv, OpsOnOwnSocket, OpInv
<1>10. OpsOnOwnSocket'
  BY <1>1, <1>9 DEF OpsOnOwnSocket
<1>11. OpInv'
  BY <1>1, <1>9 DEF OpInv, CoroInv
<1>12. CoroTypes'
  BY <1>1, <1>6 DEF CoroTypes
<1>13. \A d \in live' : d \in live /\ (Closing(d) => Closing(d)')
  BY <1>1, <1>2, <1>5 DEF Closing, CoroInv, OpInv
<1>14. QED BY <1>4, <1>8, <1>10, <1>11, <1>12, <1>13 DEF CoroInv

-----------------------------------------------------------------------------
(* The wheel. *)

\* The types of the wheel.
WheelTypes ==
    /\ buckets \in [Buckets -> SUBSET Conns]
    /\ tail \in Buckets
    /\ silent \in [Conns -> 0 .. IdleSeconds]

\* A step that touches no entry of a connection.
LEMMA WheelStill ==
    ASSUME TypeOK, WheelInv, live' \subseteq live, UNCHANGED <<buckets, tail>>,
           silent' \in [Conns -> 0 .. IdleSeconds],
           \A d \in Conns : EntryAlive(d) => silent'[d] = silent[d],
           \A d \in Conns : evictor'[d] = "shutdown" => evictor[d] = "shutdown"
    PROVE  WheelInv' /\ WheelTypes' /\ \A d \in Conns : EntryAlive(d)' <=> EntryAlive(d)
<1>1. \A d \in Conns : EntryAlive(d)' <=> EntryAlive(d)
  BY DEF EntryAlive
<1>2. WheelTypes'
  BY DEF TypeOK, WheelTypes
<1>3. WheelInv'
  <2>1. ASSUME NEW d \in live', EntryAlive(d)'
        PROVE  /\ \E b \in Buckets : d \in buckets'[b] /\ Age(b, tail') = silent'[d]
               /\ \A b \in Buckets : d \in buckets'[b] => Age(b, tail') >= silent'[d]
    <3>1. d \in live /\ d \in Conns /\ EntryAlive(d) /\ silent'[d] = silent[d]
      BY <1>1, <2>1 DEF TypeOK
    <3>2. QED BY <3>1 DEF WheelInv
  <2>2. \A d \in Conns : evictor'[d] = "shutdown" => ~EntryAlive(d)'
    BY <1>1 DEF WheelInv
  <2>3. QED BY <2>1, <2>2 DEF WheelInv, Age
<1>4. QED BY <1>1, <1>2, <1>3

\* register_conn and refresh put the entry of c into the newest bucket.
LEMMA WheelRefresh ==
    ASSUME TypeOK, WheelInv, NEW c \in Conns, live' \subseteq live \cup {c},
           buckets' = Insert(c), tail' = tail, silent' = [silent EXCEPT ![c] = 0],
           \A d \in Conns : evictor'[d] = "shutdown" => evictor[d] = "shutdown" /\ d # c
    PROVE  WheelInv' /\ WheelTypes' /\ \A d \in Conns : EntryAlive(d)' <=> EntryAlive(d) \/ d = c
<1>1. /\ Back \in Buckets /\ Age(Back, tail) = 0
      /\ \A b \in Buckets : Age(b, tail) \in 0 .. IdleSeconds - 1
  BY WheelAges
<1>2. /\ buckets \in [Buckets -> SUBSET Conns] /\ silent \in [Conns -> 0 .. IdleSeconds]
      /\ tail \in Buckets /\ live \subseteq Conns
  BY DEF TypeOK
<1>3. \A b \in Buckets : buckets'[b] = IF b = Back THEN buckets[b] \cup {c} ELSE buckets[b]
  BY <1>1, <1>2 DEF Insert
<1>4. \A d \in Conns : EntryAlive(d)' <=> EntryAlive(d) \/ d = c
  BY <1>1, <1>3 DEF EntryAlive
<1>5. IdleSeconds \in Nat
  BY WorkerAssumption
<1>6. WheelTypes'
  BY <1>1, <1>2, <1>5 DEF WheelTypes, Insert
<1>7. silent'[c] = 0 /\ \A d \in Conns : d # c => silent'[d] = silent[d]
  BY <1>2
<1>8. WheelInv'
  <2>1. ASSUME NEW d \in live', EntryAlive(d)'
        PROVE  /\ \E b \in Buckets : d \in buckets'[b] /\ Age(b, tail) = silent'[d]
               /\ \A b \in Buckets : d \in buckets'[b] => Age(b, tail) >= silent'[d]
    <3>1. CASE d = c
      <4>1. c \in buckets'[Back] /\ Age(Back, tail) = silent'[c]
        BY <1>1, <1>3, <1>7
      <4>2. \A b \in Buckets : Age(b, tail) >= silent'[c]
        BY <1>1, <1>7, <1>5
      <4>3. QED BY <1>1, <3>1, <4>1, <4>2
    <3>2. CASE d # c
      <4>1. d \in live /\ d \in Conns /\ EntryAlive(d) /\ silent'[d] = silent[d]
        BY <1>2, <1>4, <1>7, <2>1, <3>2
      <4>2. \A b \in Buckets : d \in buckets'[b] <=> d \in buckets[b]
        BY <1>3, <3>2
      <4>3. QED BY <4>1, <4>2 DEF WheelInv
    <3>3. QED BY <3>1, <3>2
  <2>2. \A d \in Conns : evictor'[d] = "shutdown" => ~EntryAlive(d)'
    BY <1>4 DEF WheelInv
  <2>3. QED BY <2>1, <2>2 DEF WheelInv, Age
<1>9. QED BY <1>4, <1>6, <1>8

\* A connection with an entry has given data during the last IdleSeconds - 1 ticks.
LEMMA AliveNotIdle ==
    ASSUME TypeOK, WheelInv, NEW c \in live, EntryAlive(c)
    PROVE  silent[c] \in 0 .. IdleSeconds - 1
BY WheelAges DEF WheelInv

\* A tick: entries only the oldest bucket held die, exactly when their connections
\* have been silent for IdleSeconds - 1 ticks before; the other buckets age.
LEMMA WheelTick ==
    ASSUME TypeOK, WheelInv, PushBack, live' = live,
           silent' = [c \in Conns |-> IF c \notin live THEN 0
                                     ELSE IF silent[c] < IdleSeconds THEN silent[c] + 1
                                     ELSE IdleSeconds],
           \A d \in Conns : evictor'[d] = "shutdown" => evictor[d] = "shutdown" \/ d \in Dying
    PROVE  /\ WheelInv' /\ WheelTypes'
           /\ \A d \in Conns : EntryAlive(d)' <=> EntryAlive(d) /\ d \notin Dying
           /\ \A d \in Dying \cap live : silent[d] = IdleSeconds - 1
<1>1. /\ NextIndex(tail) \in Buckets
      /\ Age(tail, tail) = IdleSeconds - 1
      /\ \A b \in Buckets : Age(b, tail) \in 0 .. IdleSeconds - 1
      /\ \A b \in Buckets : Age(b, tail) = IdleSeconds - 1 => b = tail
      /\ \A b \in Buckets \ {tail} : Age(b, NextIndex(tail)) = Age(b, tail) + 1
  BY WheelAges
<1>2. /\ buckets \in [Buckets -> SUBSET Conns] /\ silent \in [Conns -> 0 .. IdleSeconds]
      /\ tail \in Buckets /\ live \subseteq Conns
  BY DEF TypeOK
<1>3. /\ tail' = NextIndex(tail) /\ buckets'[tail] = {}
      /\ \A b \in Buckets \ {tail} : buckets'[b] = buckets[b]
      /\ buckets' \in [Buckets -> SUBSET Conns]
  BY <1>2 DEF PushBack
<1>4. IdleSeconds \in Nat /\ IdleSeconds # 0
  BY WorkerAssumption
<1>5. \A d \in Conns : EntryAlive(d)' <=> EntryAlive(d) /\ d \notin Dying
  BY <1>2, <1>3 DEF EntryAlive, Dying
<1>6. silent' \in [Conns -> 0 .. IdleSeconds]
  <2>1. \A c \in Conns : silent[c] < IdleSeconds => silent[c] + 1 \in 0 .. IdleSeconds
    BY <1>2, <1>4
  <2>2. 0 \in 0 .. IdleSeconds /\ IdleSeconds \in 0 .. IdleSeconds
    BY <1>4
  <2>3. QED BY <2>1, <2>2
<1>7. WheelTypes'
  BY <1>1, <1>3, <1>6 DEF WheelTypes
<1>8. \A d \in Dying \cap live : silent[d] = IdleSeconds - 1
  <2> SUFFICES ASSUME NEW d \in Dying, d \in live
               PROVE  silent[d] = IdleSeconds - 1
    OBVIOUS
  <2>1. d \in buckets[tail] /\ \A b \in Buckets : d \in buckets[b] => b = tail
    BY DEF Dying
  <2>2. EntryAlive(d)
    BY <1>2, <2>1 DEF EntryAlive
  <2>3. QED BY <1>1, <2>1, <2>2 DEF WheelInv
<1>9. WheelInv'
  <2>1. ASSUME NEW d \in live', EntryAlive(d)'
        PROVE  /\ \E b \in Buckets : d \in buckets'[b] /\ Age(b, tail') = silent'[d]
               /\ \A b \in Buckets : d \in buckets'[b] => Age(b, tail') >= silent'[d]
    <3>1. d \in live /\ d \in Conns /\ EntryAlive(d) /\ d \notin Dying
      BY <1>2, <1>5, <2>1
    <3>2. silent[d] \in 0 .. IdleSeconds - 1
      BY <3>1, AliveNotIdle
    <3>3. silent'[d] = silent[d] + 1
      BY <1>4, <3>1, <3>2
    <3>4. PICK b \in Buckets : d \in buckets[b] /\ Age(b, tail) = silent[d]
      BY <3>1 DEF WheelInv
    <3>5. \A a \in Buckets : d \in buckets[a] => Age(a, tail) >= silent[d]
      BY <3>1 DEF WheelInv
    <3>6. PICK a \in Buckets : d \in buckets'[a]
      BY <2>1 DEF EntryAlive
    <3>7. a # tail /\ d \in buckets[a]
      BY <1>3, <3>6
    <3>8. b # tail
      <4>1. Age(a, tail) # IdleSeconds - 1
        BY <1>1, <3>7
      <4>2. Age(a, tail) \in 0 .. IdleSeconds - 1 /\ Age(a, tail) >= silent[d]
        BY <1>1, <3>5, <3>7
      <4>3. silent[d] < IdleSeconds - 1
        BY <1>4, <3>2, <4>1, <4>2
      <4>4. QED BY <1>1, <1>4, <3>2, <3>4, <4>3
    <3>9. d \in buckets'[b] /\ Age(b, tail') = silent'[d]
      BY <1>1, <1>3, <3>3, <3>4, <3>8
    <3>10. ASSUME NEW e \in Buckets, d \in buckets'[e]
           PROVE  Age(e, tail') >= silent'[d]
      <4>1. e # tail /\ d \in buckets[e]
        BY <1>3, <3>10
      <4>2. Age(e, tail') = Age(e, tail) + 1
        BY <1>1, <1>3, <4>1
      <4>3. Age(e, tail) \in 0 .. IdleSeconds - 1 /\ Age(e, tail) >= silent[d]
        BY <1>1, <3>5, <4>1
      <4>4. QED BY <1>4, <3>2, <3>3, <4>2, <4>3
    <3>11. QED BY <3>9, <3>10
  <2>2. \A d \in Conns : evictor'[d] = "shutdown" => ~EntryAlive(d)'
    BY <1>5 DEF WheelInv
  <2>3. QED BY <2>1, <2>2 DEF WheelInv, Age
<1>10. QED BY <1>5, <1>7, <1>8, <1>9

-----------------------------------------------------------------------------
(* The invariant is inductive. *)

\* The rest of the types: the server and the accept coroutine.
ServerTypes ==
    /\ running \in BOOLEAN /\ listening \in BOOLEAN /\ stopTask \in BOOLEAN
    /\ owner \in {"idle", "stopping", "posting", "waiting", "joined", "gone"}
    /\ loop \in {"boot", "running", "ended"}
    /\ accept \in {"none", "kernel", "cqe", "failed", "done"}
    /\ acceptFd \in Fds \cup {None}

\* The type invariant is the types of the parts.
LEMMA Types == TypeOK <=> ServerTypes /\ ObjTypes /\ CoroTypes /\ WheelTypes
BY DEF TypeOK, ServerTypes, ObjTypes, CoroTypes, WheelTypes

\* ... in the next state too.
LEMMA TypesPrime == TypeOK' <=> ServerTypes' /\ ObjTypes' /\ CoroTypes' /\ WheelTypes'
BY DEF TypeOK, ServerTypes, ObjTypes, CoroTypes, WheelTypes

\* When the worker's thread has not yet entered run() the invariant holds.
LEMMA InitInv == ASSUME Init PROVE Inv
<1>1. /\ BufSlots \in Nat /\ IdleSeconds \in Nat /\ IdleSeconds # 0
      /\ freeList = [i \in 1 .. BufSlots |-> BufSlots - i]
  BY WorkerAssumption DEF Init
<1>2. /\ freeList \in Seq(Slots) /\ Len(freeList) = BufSlots
      /\ \A i \in 1 .. BufSlots : freeList[i] = BufSlots - i
  <2>1. \A i \in 1 .. BufSlots : BufSlots - i \in Slots
    BY <1>1 DEF Slots
  <2>2. QED BY <1>1, <2>1
<1>3. TypeOK
  <2>1. 0 \in Buckets /\ 0 \in 0 .. IdleSeconds
    BY <1>1 DEF Buckets
  <2>2. ServerTypes /\ WheelTypes /\ CoroTypes
    BY <2>1 DEF Init, ServerTypes, WheelTypes, CoroTypes
  <2>3. ObjTypes
    BY <1>2 DEF Init, ObjTypes
  <2>4. QED BY <2>2, <2>3, Types
<1>4. SlotInv
  <2>1. \A s \in Slots : \E i \in 1 .. Len(freeList) : freeList[i] = s
    <3> SUFFICES ASSUME NEW s \in Slots
                 PROVE  \E i \in 1 .. Len(freeList) : freeList[i] = s
      OBVIOUS
    <3>1. BufSlots - s \in 1 .. BufSlots /\ BufSlots - (BufSlots - s) = s
      BY <1>1 DEF Slots
    <3>2. QED BY <1>2, <3>1
  <2>2. \A i, j \in 1 .. Len(freeList) : freeList[i] = freeList[j] => i = j
    BY <1>1, <1>2
  <2>3. live = {}
    BY DEF Init
  <2>4. QED BY <2>1, <2>2, <2>3 DEF SlotInv
<1>5. LoopInv /\ FdInv /\ CoroInv /\ EvictInv
  BY DEF Init, LoopInv, FdInv, CoroInv, ConnInv, OpsOnOwnSocket, OpInv, EvictInv, Awaits
<1>6. WheelInv
  BY DEF Init, WheelInv
<1>7. QED BY <1>3, <1>4, <1>5, <1>6 DEF Inv, ResInv

\* The connections, coroutines and the wheel are left alone, and no descriptor
\* is handed over.
LEMMA QuietStep ==
    ASSUME Inv, UNCHANGED <<objects, coros, wheel, silent, acceptFd>>, ServerTypes', LoopInv',
           accept' = "cqe" <=> accept = "cqe"
    PROVE  Inv'
<1>1. UNCHANGED <<openFds, live, fdOf, slotOf, freeList, shut, handler, evictor, ops,
                  buckets, tail, silent, acceptFd>>
  BY DEF objects, coros, wheel
<1>2. ObjTypes' /\ CoroTypes' /\ WheelTypes'
  BY <1>1 DEF Inv, ResInv, TypeOK, ObjTypes, CoroTypes, WheelTypes
<1>3. FdInv' /\ SlotInv'
  BY <1>1 DEF Inv, ResInv, FdInv, SlotInv
<1>4. CoroInv'
  BY <1>1 DEF Inv, CoroInv, ConnInv, OpsOnOwnSocket, OpInv
<1>5. WheelInv' /\ EvictInv'
  BY <1>1 DEF Inv, WheelInv, EvictInv, EntryAlive, Closing, Age
<1>6. QED BY <1>2, <1>3, <1>4, <1>5, TypesPrime DEF Inv, ResInv

\* The steps of stop(), wait() and the loop's begin and end are of that kind.
LEMMA ServerSteps ==
    ASSUME Inv,
           \/ KernelAcceptFails \/ Boot \/ AcceptEnds \/ LoopStops
           \/ Stop \/ StopListening \/ StopPost \/ Wait \/ UNCHANGED vars
    PROVE  Inv'
<1>1. ServerTypes /\ LoopInv
  BY Types DEF Inv, ResInv
<1>2. CASE KernelAcceptFails \/ Boot \/ AcceptEnds
  <2>1. /\ UNCHANGED <<running, owner, listening, stopTask, objects, coros, wheel, silent,
                       acceptFd>>
        /\ loop = "boot" \/ loop = "running"
        /\ loop' = "running"
        /\ accept # "cqe"
        /\ accept' \in {"failed", "kernel", "done"}
    BY <1>1, <1>2 DEF KernelAcceptFails, Boot, AcceptEnds, AwaitAccept, server, LoopInv, wheel
  <2>2. ServerTypes' /\ LoopInv'
    BY <1>1, <2>1 DEF ServerTypes, LoopInv
  <2>3. QED BY <2>1, <2>2, QuietStep
<1>3. CASE LoopStops \/ Stop \/ StopListening \/ StopPost \/ Wait
  <2>1. /\ UNCHANGED <<objects, coros, wheel, silent, accept, acceptFd>>
        /\ running' \in BOOLEAN /\ listening' \in BOOLEAN /\ stopTask' \in BOOLEAN
    BY <1>1, <1>3 DEF LoopStops, Stop, StopListening, StopPost, Wait, accLoop, ServerTypes
  <2>2. /\ owner' \in {"idle", "stopping", "posting", "waiting", "joined"} \cup {owner}
        /\ loop' = loop \/ (loop = "running" /\ loop' = "ended")
        /\ owner' \in {"joined", "gone"} => owner' = owner \/ loop' = "ended"
    BY <1>1, <1>3 DEF LoopStops, Stop, StopListening, StopPost, Wait, ServerTypes
  <2>3. ServerTypes' /\ LoopInv'
    BY <1>1, <2>1, <2>2 DEF ServerTypes, LoopInv
  <2>4. QED BY <2>1, <2>3, QuietStep
<1>4. CASE UNCHANGED vars
  <2>1. UNCHANGED <<running, owner, listening, stopTask, loop, accept, acceptFd, objects,
                    coros, wheel, silent>>
    BY <1>4 DEF vars, server, accLoop
  <2>2. ServerTypes' /\ LoopInv'
    BY <1>1, <2>1 DEF ServerTypes, LoopInv
  <2>3. QED BY <2>1, <2>2, QuietStep
<1>5. QED BY <1>2, <1>3, <1>4

\* The kernel accepts with a descriptor that was not open.
LEMMA KernelAcceptStep == ASSUME Inv, KernelAccept PROVE Inv'
<1>1. PICK f \in Fds \ openFds : acceptFd' = f /\ openFds' = openFds \cup {f}
  BY DEF KernelAccept
<1>2. /\ loop = "running" /\ accept = "kernel" /\ accept' = "cqe"
      /\ UNCHANGED <<running, owner, listening, stopTask, loop, live, fdOf, slotOf, freeList,
                     shut, handler, evictor, ops, buckets, tail, silent>>
  BY DEF KernelAccept, server, coros, wheel
<1>3. ServerTypes' /\ LoopInv'
  BY <1>1, <1>2, Types DEF Inv, ResInv, ServerTypes, LoopInv
<1>4. ObjTypes' /\ CoroTypes' /\ WheelTypes'
  BY <1>1, <1>2 DEF Inv, ResInv, TypeOK, ObjTypes, CoroTypes, WheelTypes
<1>5. FdInv' /\ SlotInv'
  BY <1>1, <1>2 DEF Inv, ResInv, FdInv, SlotInv
<1>6. CoroInv'
  BY <1>2 DEF Inv, CoroInv, ConnInv, OpsOnOwnSocket, OpInv
<1>7. WheelInv' /\ EvictInv'
  BY <1>2 DEF Inv, WheelInv, EvictInv, EntryAlive, Closing, Age
<1>8. QED BY <1>3, <1>4, <1>5, <1>6, <1>7, TypesPrime DEF Inv, ResInv

\* A shutdown reaches the socket of the connection that asked for it.
LEMMA KernelShutdownStep == ASSUME Inv, NEW c \in Conns, KernelShutdown(c) PROVE Inv'
<1>1. PICK o \in ops :
        /\ o.kind = "shutdown"
        /\ ops' = (ops \ {o}) \cup {[o EXCEPT !.done = TRUE]}
        /\ shut' = shut \cup {d \in live : fdOf[d] = o.fd}
  BY DEF KernelShutdown, OpOf
<1> DEFINE q == [o EXCEPT !.done = TRUE]
<1>2. o \in ops /\ o \in Op /\ ops \subseteq Op
  BY DEF Inv, ResInv, TypeOK
<1>3. /\ q \in Op /\ q.conn = o.conn /\ q.who = o.who /\ q.kind = o.kind /\ q.fd = o.fd
      /\ q.slot = o.slot
  BY <1>2 DEF Op
<1>4. ops' = (ops \ {o}) \cup {q}
  BY <1>1
<1> HIDE DEF q
<1>5. UNCHANGED <<running, owner, listening, stopTask, loop, accept, acceptFd, openFds, live,
                  fdOf, slotOf, freeList, handler, evictor, buckets, tail, silent>>
  BY DEF KernelShutdown, server, accLoop, wheel
<1>6. o.conn \in live /\ o.conn \in shut' /\ shut \subseteq shut'
  BY <1>1, <1>2 DEF Inv, CoroInv, OpsOnOwnSocket
<1>7. ServerTypes' /\ LoopInv' /\ WheelTypes' /\ CoroTypes'
  BY <1>2, <1>3, <1>4, <1>5
  DEF Inv, ResInv, TypeOK, LoopInv, ServerTypes, WheelTypes, CoroTypes
<1>8. ObjTypes'
  BY <1>1, <1>5 DEF Inv, ResInv, TypeOK, ObjTypes
<1>9. FdInv' /\ SlotInv'
  BY <1>5 DEF Inv, ResInv, FdInv, SlotInv
<1>10. OpsOnOwnSocket'
  BY <1>2, <1>3, <1>4, <1>5 DEF Inv, CoroInv, OpsOnOwnSocket
<1>11. OpInv'
  <2>1. \A p \in ops' : /\ p.who = "handler" => handler'[p.conn] = p.kind
                        /\ p.who = "evictor" => evictor'[p.conn] = "shutdown"
                        /\ p.done => p.conn \in shut'
    BY <1>2, <1>3, <1>4, <1>5, <1>6 DEF Inv, CoroInv, OpInv
  <2>2. \A p, r \in ops' : p.conn = r.conn /\ p.who = r.who => p = r
    BY <1>2, <1>3, <1>4 DEF Inv, CoroInv, OpInv
  <2>3. QED BY <2>1, <2>2 DEF OpInv
<1>12. ConnInv'
  BY <1>5 DEF Inv, CoroInv, ConnInv
<1>13. WheelInv'
  BY <1>5 DEF Inv, WheelInv, EntryAlive, Age
<1>14. EvictInv'
  BY <1>2, <1>3, <1>4, <1>5, <1>6 DEF Inv, EvictInv, EntryAlive, Closing
<1>15. QED
  BY <1>7, <1>8, <1>9, <1>10, <1>11, <1>12, <1>13, <1>14, TypesPrime DEF Inv, ResInv, CoroInv

\* A completion of the handler's operation, with its entry refreshed or not.
LEMMA HandlerSteps ==
    ASSUME Inv, NEW c \in Conns,
           RecvData(c) \/ RecvEnds(c) \/ SendReturns(c) \/ SubmitReturns(c) \/ ShutdownDone(c)
    PROVE  Inv'
<1>1. PICK o \in OpOf(c, "handler"), next \in Awaits \cup {"none"} :
        HandlerGoesOn(c, o, next) /\ (o.kind = "shutdown" => o.done)
  <2>1. CASE RecvData(c)
    BY <2>1 DEF RecvData
  <2>2. CASE RecvEnds(c)
    BY <2>2 DEF RecvEnds, Awaits
  <2>3. CASE SendReturns(c)
    BY <2>3 DEF SendReturns
  <2>4. CASE ShutdownDone(c)
    BY <2>4 DEF ShutdownDone
  <2>5. CASE SubmitReturns(c)
    BY <2>5 DEF SubmitReturns
  <2>6. QED BY <2>1, <2>2, <2>3, <2>4, <2>5
<1>2. /\ FdInv' /\ SlotInv' /\ LoopInv' /\ ObjTypes' /\ CoroTypes' /\ CoroInv'
      /\ \A d \in live' : d \in live /\ (Closing(d) => Closing(d)')
  BY <1>1, GoesOnKeeps DEF Inv
<1>3. /\ UNCHANGED <<running, owner, listening, stopTask, loop, accept, acceptFd, tail>>
      /\ evictor' = evictor
  BY <1>1 DEF HandlerGoesOn, server, accLoop
<1>4. ServerTypes'
  BY <1>3, Types DEF Inv, ResInv, ServerTypes
<1>5. TypeOK /\ WheelInv /\ live \subseteq Conns /\ silent \in [Conns -> 0 .. IdleSeconds]
  BY DEF Inv, ResInv, TypeOK
<1>6. WheelInv' /\ WheelTypes' /\ \A d \in Conns : EntryAlive(d)' <=> EntryAlive(d)
  <2>1. CASE RecvData(c) /\ EntryAlive(c)
    <3>1. silent' = [silent EXCEPT ![c] = 0] /\ buckets' = Insert(c)
      BY <2>1 DEF RecvData
    <3>2. \A d \in Conns : evictor'[d] = "shutdown" => evictor[d] = "shutdown" /\ d # c
      BY <1>3, <1>5, <2>1 DEF WheelInv
    <3>3. WheelInv' /\ WheelTypes' /\ \A d \in Conns : EntryAlive(d)' <=> EntryAlive(d) \/ d = c
      BY <1>2, <1>3, <1>5, <3>1, <3>2, WheelRefresh
    <3>4. QED BY <2>1, <3>3
  <2>2. CASE ~(RecvData(c) /\ EntryAlive(c))
    <3>1. buckets' = buckets /\ (silent' = silent \/ silent' = [silent EXCEPT ![c] = 0])
      BY <2>2 DEF RecvData, RecvEnds, SendReturns, SubmitReturns, ShutdownDone
    <3>2. EntryAlive(c) => silent' = silent
      BY <2>2 DEF RecvData, RecvEnds, SendReturns, SubmitReturns, ShutdownDone
    <3>3. silent' \in [Conns -> 0 .. IdleSeconds]
      BY <1>5, <3>1, WorkerAssumption
    <3>4. \A d \in Conns : EntryAlive(d) => silent'[d] = silent[d]
      BY <1>5, <3>1, <3>2
    <3>5. QED BY <1>2, <1>3, <1>5, <3>1, <3>3, <3>4, WheelStill
  <2>3. QED BY <2>1, <2>2
<1>7. EvictInv'
  BY <1>2, <1>5, <1>6 DEF Inv, EvictInv
<1>8. QED BY <1>2, <1>4, <1>6, <1>7, TypesPrime DEF Inv, ResInv

\* The coroutine of an eviction ends.
LEMMA EvictorStep == ASSUME Inv, NEW c \in Conns, EvictorResumes(c) PROVE Inv'
<1>1. /\ FdInv' /\ SlotInv' /\ LoopInv' /\ ObjTypes' /\ CoroTypes' /\ CoroInv'
      /\ \A d \in live' : d \in live /\ (Closing(d) => Closing(d)')
  BY EvictorKeeps DEF Inv
<1>2. /\ UNCHANGED <<running, owner, listening, stopTask, loop, accept, acceptFd, buckets,
                     tail, silent>>
      /\ evictor' = [evictor EXCEPT ![c] = "none"]
  BY DEF EvictorResumes, server, accLoop, wheel
<1>3. ServerTypes'
  BY <1>2, Types DEF Inv, ResInv, ServerTypes
<1>4. TypeOK /\ WheelInv /\ live \subseteq Conns /\ silent \in [Conns -> 0 .. IdleSeconds]
  BY DEF Inv, ResInv, TypeOK
<1>5. \A d \in Conns : evictor'[d] = "shutdown" => evictor[d] = "shutdown"
  BY <1>2, <1>4 DEF TypeOK
<1>6. WheelInv' /\ WheelTypes' /\ \A d \in Conns : EntryAlive(d)' <=> EntryAlive(d)
  BY <1>1, <1>2, <1>4, <1>5, WheelStill
<1>7. EvictInv'
  BY <1>1, <1>4, <1>6 DEF Inv, EvictInv
<1>8. QED BY <1>1, <1>3, <1>6, <1>7, TypesPrime DEF Inv, ResInv

\* Entries die: each connection among them that exists gets one coroutine and one
\* shutdown.
LEMMA EvictKeeps ==
    ASSUME Inv, NEW E \in SUBSET Conns, \A c \in E : EntryAlive(c), Evict(E),
           UNCHANGED <<objects, handler>>
    PROVE  /\ CoroTypes' /\ CoroInv'
           /\ \A d \in live : (Closing(d) \/ d \in E) => Closing(d)'
           /\ \A d \in Conns : evictor'[d] = "shutdown" => evictor[d] = "shutdown" \/ d \in E
<1> DEFINE S(c) == Submitted(c, "evictor", "shutdown")
<1>1. /\ ops' = ops \cup {S(c) : c \in E \cap live}
      /\ evictor' = [c \in Conns |-> IF c \in E \cap live THEN "shutdown" ELSE evictor[c]]
      /\ UNCHANGED <<openFds, live, fdOf, slotOf, freeList, shut, handler>>
  BY DEF Evict, objects
<1>2. TypeOK /\ ops \subseteq Op /\ live \subseteq Conns
  BY DEF Inv, ResInv, TypeOK
<1>3. ASSUME NEW c \in E \cap live
      PROVE  /\ S(c) \in Op /\ S(c).conn = c /\ S(c).who = "evictor" /\ S(c).kind = "shutdown"
             /\ S(c).fd = fdOf[c] /\ S(c).slot = None /\ S(c).done = FALSE
  <2>1. fdOf'[c] = fdOf[c] /\ fdOf[c] \in Fds /\ c \in Conns
    BY <1>1, <1>2 DEF Inv, ResInv, FdInv, TypeOK
  <2>2. QED BY <2>1 DEF Submitted, Op, Awaits
<1> HIDE DEF S
<1>4. ASSUME NEW p \in ops', p \notin ops
      PROVE  /\ p \in Op /\ p.conn \in E \cap live /\ p.who = "evictor" /\ p.kind = "shutdown"
             /\ p.fd = fdOf[p.conn] /\ p.slot = None /\ p.done = FALSE
             /\ p = S(p.conn)
  <2>1. PICK c \in E \cap live : p = S(c)
    BY <1>1, <1>4
  <2>2. QED BY <1>3, <2>1
<1>5. \A d \in E : evictor[d] # "shutdown"
  BY DEF Inv, WheelInv
<1>6. \A d \in Conns : evictor'[d] = "shutdown" => evictor[d] = "shutdown" \/ d \in E
  BY <1>1
<1>7. CoroTypes'
  <2>1. evictor' \in [Conns -> {"none", "shutdown"}]
    BY <1>1, <1>2 DEF TypeOK
  <2>2. ops' \subseteq Op
    BY <1>2, <1>4
  <2>3. QED BY <1>1, <1>2, <2>1, <2>2 DEF CoroTypes, TypeOK
<1>8. ConnInv'
  BY <1>1 DEF Inv, CoroInv, ConnInv
<1>9. OpsOnOwnSocket'
  BY <1>1, <1>4 DEF Inv, CoroInv, OpsOnOwnSocket
<1>10. OpInv'
  <2>1. \A p \in ops : p.conn \in Conns
    BY <1>2 DEF Op
  <2>2. \A p \in ops : p.who = "evictor" => p.conn \notin E
    BY <1>5 DEF Inv, CoroInv, OpInv
  <2>3. \A p \in ops' : /\ p.who = "handler" => handler'[p.conn] = p.kind
                        /\ p.who = "evictor" => evictor'[p.conn] = "shutdown"
                        /\ p.done => p.conn \in shut'
    BY <1>1, <1>2, <1>4, <2>1 DEF Inv, CoroInv, OpInv
  <2>4. \A p, q \in ops' : p.conn = q.conn /\ p.who = q.who => p = q
    <3> SUFFICES ASSUME NEW p \in ops', NEW q \in ops', p.conn = q.conn, p.who = q.who
                 PROVE  p = q
      OBVIOUS
    <3>1. CASE p \in ops /\ q \in ops
      BY <3>1 DEF Inv, CoroInv, OpInv
    <3>2. CASE p \notin ops /\ q \notin ops
      BY <1>4, <3>2
    <3>3. CASE p \in ops /\ q \notin ops
      BY <1>4, <2>2, <3>3
    <3>4. CASE p \notin ops /\ q \in ops
      BY <1>4, <2>2, <3>4
    <3>5. QED BY ONLY <3>1, <3>2, <3>3, <3>4
  <2>5. QED BY <2>3, <2>4 DEF OpInv
<1>11. \A d \in live : (Closing(d) \/ d \in E) => Closing(d)'
  <2>1. \A d \in E \cap live : \E p \in ops' : p.conn = d /\ p.kind = "shutdown"
    <3>1. ASSUME NEW d \in E \cap live
          PROVE  \E p \in ops' : p.conn = d /\ p.kind = "shutdown"
      <4>1. S(d) \in ops' /\ S(d).conn = d /\ S(d).kind = "shutdown"
        BY <1>1, <1>3
      <4>2. QED BY ONLY <4>1
    <3>2. QED BY <3>1
  <2>2. ops \subseteq ops' /\ shut' = shut
    BY <1>1
  <2>3. QED BY <2>1, <2>2 DEF Closing
<1>12. QED BY <1>6, <1>7, <1>8, <1>9, <1>10, <1>11 DEF CoroInv

\* tick_coro.
LEMMA TickStep ==
    ASSUME Inv, TickCoro
    PROVE  /\ Inv'
           /\ \A c \in Conns : evictor[c] # "shutdown" /\ evictor'[c] = "shutdown"
                                => silent[c] = IdleSeconds - 1
<1>1. /\ UNCHANGED <<server, loop, accLoop, objects, handler>> /\ Evict(Dying) /\ PushBack
      /\ silent' = [c \in Conns |-> IF c \notin live THEN 0
                                    ELSE IF silent[c] < IdleSeconds THEN silent[c] + 1
                                    ELSE IdleSeconds]
  BY DEF TickCoro
<1>2. UNCHANGED <<running, owner, listening, stopTask, loop, accept, acceptFd, openFds, live,
                  fdOf, slotOf, freeList, shut, handler>>
  BY <1>1 DEF server, accLoop, objects
<1>3. TypeOK /\ WheelInv /\ live \subseteq Conns
  BY DEF Inv, ResInv, TypeOK
<1>4. Dying \in SUBSET Conns /\ \A c \in Dying : EntryAlive(c)
  BY <1>3 DEF Dying, EntryAlive, TypeOK
<1>5. /\ CoroTypes' /\ CoroInv'
      /\ \A d \in live : (Closing(d) \/ d \in Dying) => Closing(d)'
      /\ \A d \in Conns : evictor'[d] = "shutdown" => evictor[d] = "shutdown" \/ d \in Dying
  BY <1>1, <1>4, EvictKeeps
<1>6. /\ WheelInv' /\ WheelTypes'
      /\ \A d \in Conns : EntryAlive(d)' <=> EntryAlive(d) /\ d \notin Dying
      /\ \A d \in Dying \cap live : silent[d] = IdleSeconds - 1
  BY <1>1, <1>2, <1>3, <1>5, WheelTick
<1>7. EvictInv'
  BY <1>2, <1>3, <1>5, <1>6 DEF Inv, EvictInv
<1>8. ServerTypes' /\ LoopInv' /\ ObjTypes'
  BY <1>2 DEF Inv, ResInv, TypeOK, ServerTypes, ObjTypes, LoopInv
<1>9. FdInv' /\ SlotInv'
  BY <1>2 DEF Inv, ResInv, FdInv, SlotInv
<1>10. Inv'
  BY <1>5, <1>6, <1>7, <1>8, <1>9, TypesPrime DEF Inv, ResInv
<1>11. \A c \in Conns : evictor[c] # "shutdown" /\ evictor'[c] = "shutdown" => c \in Dying \cap live
  BY <1>1 DEF Evict
<1>12. QED BY <1>6, <1>10, <1>11

\* ~TcpServer: the entries that are left die on the destroying thread.
LEMMA DestroyStep == ASSUME Inv, DestroyServer PROVE Inv'
<1> DEFINE E == {c \in Conns : EntryAlive(c)}
<1>1. /\ owner = "joined" /\ owner' = "gone"
      /\ UNCHANGED <<running, listening, stopTask, loop, accept, acceptFd, objects, handler,
                     tail, silent>>
      /\ Evict(E) /\ buckets' = [b \in Buckets |-> {}]
  BY DEF DestroyServer, accLoop
<1>2. UNCHANGED <<openFds, live, fdOf, slotOf, freeList, shut>>
  BY <1>1 DEF objects
<1>3. E \in SUBSET Conns /\ \A c \in E : EntryAlive(c)
  OBVIOUS
<1>4. /\ CoroTypes' /\ CoroInv'
      /\ \A d \in live : (Closing(d) \/ d \in E) => Closing(d)'
  BY <1>1, <1>3, EvictKeeps
<1>5. \A d \in Conns : ~EntryAlive(d)'
  BY <1>1 DEF EntryAlive
<1>6. WheelInv' /\ WheelTypes'
  BY <1>1, <1>2, <1>5 DEF Inv, ResInv, TypeOK, WheelInv, WheelTypes
<1>7. EvictInv'
  <2>1. \A d \in live : d \in E \/ Closing(d)
    BY DEF Inv, ResInv, TypeOK, EvictInv
  <2>2. QED BY <1>2, <1>4, <2>1 DEF EvictInv
<1>8. ServerTypes' /\ LoopInv' /\ ObjTypes'
  BY <1>1, <1>2 DEF Inv, ResInv, TypeOK, ServerTypes, ObjTypes, LoopInv
<1>9. FdInv' /\ SlotInv'
  BY <1>1, <1>2 DEF Inv, ResInv, FdInv, SlotInv
<1>10. QED
  BY <1>4, <1>6, <1>7, <1>8, <1>9, TypesPrime DEF Inv, ResInv

\* An accepted connection: its descriptor, slot, entry and first operation.
LEMMA AcceptStep == ASSUME Inv, AcceptResumes PROVE Inv'
<1>1. PICK c \in Conns, next \in Awaits \cup {"none"} : NewConnection(c, next)
  BY DEF AcceptResumes
<1>2. /\ loop = "running" /\ accept = "cqe" /\ acceptFd' = None
      /\ accept' \in {"kernel", "done"}
      /\ UNCHANGED <<running, owner, listening, stopTask, loop, tail>>
  BY DEF AcceptResumes, AwaitAccept, server
<1>3. /\ c \notin live /\ ~EntryAlive(c)
      /\ fdOf' = [fdOf EXCEPT ![c] = IF next = "none" THEN None ELSE acceptFd]
      /\ buckets' = Insert(c) /\ silent' = [silent EXCEPT ![c] = 0]
      /\ handler' = [handler EXCEPT ![c] = next]
      /\ UNCHANGED <<evictor, shut>>
  BY <1>1 DEF NewConnection
<1>4. /\ TypeOK /\ WheelInv /\ SlotInv /\ FdInv /\ live \subseteq Conns /\ ops \subseteq Op
      /\ fdOf \in [Conns -> Fds \cup {None}] /\ handler \in [Conns -> Awaits \cup {"none"}]
      /\ slotOf \in [Conns -> Slots \cup {None}]
      /\ acceptFd \in openFds /\ openFds \subseteq Fds
  BY <1>2 DEF Inv, ResInv, FdInv, TypeOK
<1>5. ServerTypes' /\ LoopInv'
  BY <1>2 DEF Inv, ResInv, TypeOK, ServerTypes, LoopInv
<1>6. evictor[c] # "shutdown" /\ handler[c] \notin Awaits
  BY <1>3 DEF Inv, CoroInv, ConnInv
<1>7. "none" \notin Awaits
  BY DEF Awaits
<1>8. /\ handler'[c] = next /\ \A d \in Conns : d # c => handler'[d] = handler[d]
      /\ \A d \in live : d # c /\ fdOf'[d] = fdOf[d]
  BY <1>3, <1>4
<1>9. \A d \in Conns : evictor'[d] = "shutdown" => evictor[d] = "shutdown" /\ d # c
  BY <1>3, <1>6
<1>10. \A p \in ops : p.conn \in live /\ p.conn # c /\ p.conn \in Conns
  BY <1>3, <1>4 DEF Inv, CoroInv, OpsOnOwnSocket
<1>11. CASE next = "none"
  <2>1. UNCHANGED <<slotOf, freeList, live, ops>> /\ openFds' = openFds \ {acceptFd}
    BY <1>1, <1>11 DEF NewConnection
  <2>2. ObjTypes' /\ CoroTypes'
    BY <1>3, <1>4, <1>11, <2>1 DEF ObjTypes, CoroTypes, TypeOK
  <2>3. FdInv'
    BY <1>2, <1>4, <1>8, <2>1 DEF FdInv
  <2>4. SlotInv'
    BY <1>4, <2>1 DEF SlotInv
  <2>5. ConnInv'
    BY <1>3, <1>6, <1>7, <1>8, <1>11, <2>1 DEF Inv, CoroInv, ConnInv
  <2>6. OpsOnOwnSocket' /\ OpInv'
    BY <1>3, <1>8, <1>10, <2>1 DEF Inv, CoroInv, OpsOnOwnSocket, OpInv
  <2>7. WheelInv' /\ WheelTypes' /\ \A d \in Conns : EntryAlive(d)' <=> EntryAlive(d) \/ d = c
    BY <1>2, <1>3, <1>4, <1>9, <2>1, WheelRefresh
  <2>8. EvictInv'
    BY <1>3, <1>4, <2>1, <2>7 DEF Inv, EvictInv, Closing
  <2>9. QED
    BY <1>5, <2>2, <2>3, <2>4, <2>5, <2>6, <2>7, <2>8, TypesPrime DEF Inv, ResInv, CoroInv
<1>12. CASE next # "none"
  <2> DEFINE S == Submitted(c, "handler", next)
  <2>1. Acquire(c) /\ live' = live \cup {c} /\ openFds' = openFds /\ ops' = ops \cup {S}
    BY <1>1, <1>12 DEF NewConnection
  <2>2. SlotInv' /\ slotOf' \in [Conns -> Slots \cup {None}] /\ freeList' \in Seq(Slots)
    BY <1>3, <1>4, <2>1, AcquireKeeps
  <2>3. fdOf'[c] = acceptFd /\ acceptFd \in Fds /\ \A d \in live : slotOf'[d] = slotOf[d]
    BY <1>3, <1>4, <1>12, <2>1 DEF Acquire
  <2>4. /\ S \in Op /\ S.conn = c /\ S.who = "handler" /\ S.kind = next /\ S.fd = fdOf'[c]
        /\ S.slot # None => S.slot = slotOf'[c]
        /\ S.done = FALSE
    BY <1>12, <2>2, <2>3 DEF Submitted, Op
  <2> HIDE DEF S
  <2>5. ObjTypes' /\ CoroTypes'
    BY <1>3, <1>4, <1>12, <2>1, <2>2, <2>4 DEF ObjTypes, CoroTypes, TypeOK
  <2>6. FdInv'
    BY <1>2, <1>4, <1>8, <2>1, <2>3 DEF FdInv
  <2>7. ConnInv'
    BY <1>3, <1>8, <1>12, <2>1 DEF Inv, CoroInv, ConnInv
  <2>8. OpsOnOwnSocket'
    BY <1>8, <1>10, <2>1, <2>3, <2>4 DEF Inv, CoroInv, OpsOnOwnSocket
  <2>9. OpInv'
    <3>1. \A p \in ops' : /\ p.who = "handler" => handler'[p.conn] = p.kind
                          /\ p.who = "evictor" => evictor'[p.conn] = "shutdown"
                          /\ p.done => p.conn \in shut'
      BY <1>3, <1>8, <1>10, <2>1, <2>4 DEF Inv, CoroInv, OpInv
    <3>2. \A p, q \in ops' : p.conn = q.conn /\ p.who = q.who => p = q
      BY <1>10, <2>1, <2>4 DEF Inv, CoroInv, OpInv
    <3>3. QED BY <3>1, <3>2 DEF OpInv
  <2>10. WheelInv' /\ WheelTypes' /\ \A d \in Conns : EntryAlive(d)' <=> EntryAlive(d) \/ d = c
    BY <1>2, <1>3, <1>4, <1>9, <2>1, WheelRefresh
  <2>11. EvictInv'
    BY <1>3, <1>4, <2>1, <2>10 DEF Inv, EvictInv, Closing
  <2>12. QED
    BY <1>5, <2>2, <2>5, <2>6, <2>7, <2>8, <2>9, <2>10, <2>11, TypesPrime
    DEF Inv, ResInv, CoroInv
<1>13. QED BY <1>11, <1>12

\* Every step preserves the invariant.
LEMMA StepInv == Inv /\ [Next]_vars => Inv'
<1> SUFFICES ASSUME Inv, [Next]_vars PROVE Inv'
  OBVIOUS
<1>1. ASSUME NEW c \in Conns,
             KernelShutdown(c) \/ RecvData(c) \/ RecvEnds(c) \/ SendReturns(c)
                 \/ SubmitReturns(c) \/ ShutdownDone(c) \/ EvictorResumes(c)
      PROVE  Inv'
  BY <1>1, KernelShutdownStep, HandlerSteps, EvictorStep
<1>2. CASE Kernel \/ Worker \/ Owner \/ UNCHANGED vars
  BY <1>2, ServerSteps, KernelAcceptStep, AcceptStep, TickStep, DestroyStep
  DEF Kernel, Worker, Owner
<1>3. QED BY <1>1, <1>2 DEF Next

\* Every reachable state satisfies the invariant.
THEOREM Invariant == Spec => []Inv
<1>1. Init => Inv
  BY InitInv
<1>2. QED BY <1>1, StepInv, PTL DEF Spec

-----------------------------------------------------------------------------
(* The properties. *)

\* Slots owned once, counted.
LEMMA SlotCounted ==
    ASSUME Inv, NEW s \in Slots
    PROVE  Cardinality({i \in DOMAIN freeList : freeList[i] = s})
             + Cardinality({c \in live : slotOf[c] = s}) = 1
<1> DEFINE Free == {i \in DOMAIN freeList : freeList[i] = s}
           Held == {c \in live : slotOf[c] = s}
<1>1. DOMAIN freeList = 1 .. Len(freeList) /\ s # None
  BY NoneNoSlot DEF Inv, ResInv, TypeOK
<1>2. CASE \E i \in 1 .. Len(freeList) : freeList[i] = s
  <2>1. PICK i \in 1 .. Len(freeList) : freeList[i] = s
    BY <1>2
  <2>2. Free = {i}
    BY <1>1, <2>1 DEF Inv, ResInv, SlotInv
  <2>3. Held = {}
    BY <2>1 DEF Inv, ResInv, SlotInv
  <2> HIDE DEF Free, Held
  <2>4. Cardinality(Free) = 1 /\ Cardinality(Held) = 0
    BY <2>2, <2>3, FS_Singleton, FS_EmptySet, Zenon
  <2>5. QED BY <2>4 DEF Free, Held
<1>3. CASE ~\E i \in 1 .. Len(freeList) : freeList[i] = s
  <2>1. PICK c \in live : slotOf[c] = s
    BY <1>3 DEF Inv, ResInv, SlotInv
  <2>2. Held = {c}
    BY <1>1, <2>1 DEF Inv, ResInv, SlotInv
  <2>3. Free = {}
    BY <1>1, <1>3
  <2> HIDE DEF Free, Held
  <2>4. Cardinality(Held) = 1 /\ Cardinality(Free) = 0
    BY <2>2, <2>3, FS_Singleton, FS_EmptySet, Zenon
  <2>5. QED BY <2>4 DEF Free, Held
<1>4. QED BY <1>2, <1>3

\* However connections end, by their handlers, by eviction or both at once: no
\* descriptor and no registered slot is leaked, shared or returned twice.
THEOREM ResourcesHaveOneOwner == Spec => []ResourcesOwnedOnce
<1>1. Inv => ResourcesOwnedOnce
  <2> SUFFICES ASSUME Inv PROVE ResourcesOwnedOnce
    OBVIOUS
  <2>1. TypeOK /\ FdInv
    BY DEF Inv, ResInv
  <2>2. openFds = {fdOf[c] : c \in live} \cup (IF accept = "cqe" THEN {acceptFd} ELSE {})
    BY <2>1 DEF FdInv
  <2>3. /\ \A c \in live : accept = "cqe" => fdOf[c] # acceptFd
        /\ \A c, d \in live : c # d => fdOf[c] # fdOf[d]
    BY <2>1 DEF FdInv
  <2>4. \A s \in Slots : Cardinality({i \in DOMAIN freeList : freeList[i] = s})
                             + Cardinality({c \in live : slotOf[c] = s}) = 1
    BY SlotCounted
  <2>5. QED BY <2>1, <2>2, <2>3, <2>4 DEF ResourcesOwnedOnce
<1>2. QED BY <1>1, Invariant, PTL

\* The kernel never works on a descriptor or a slot that was given to another
\* connection meanwhile.
THEOREM KernelUsesOwnSocket == Spec => []OpsOnOwnSocket
<1>1. Inv => OpsOnOwnSocket BY DEF Inv, CoroInv
<1>2. QED BY <1>1, Invariant, PTL

\* The wheel evicts in time: after IdleSeconds silent ticks a connection is shut
\* down or being shut down.
THEOREM IdleEvicted == Spec => []IdleIsEvicted
<1>1. ASSUME Inv PROVE IdleIsEvicted
  <2>1. TypeOK /\ WheelInv
    BY <1>1 DEF Inv, ResInv
  <2>2. \A c \in live : EntryAlive(c) => silent[c] # IdleSeconds
    <3>1. ASSUME NEW c \in live, EntryAlive(c) PROVE silent[c] # IdleSeconds
      <4>1. silent[c] \in 0 .. IdleSeconds - 1
        BY <2>1, <3>1, AliveNotIdle
      <4>2. QED BY <4>1, WorkerAssumption
    <3>2. QED BY <3>1
  <2>3. QED BY <1>1, <2>2 DEF Inv, EvictInv, IdleIsEvicted, Closing
<1>2. QED BY <1>1, Invariant, PTL

\* ... and never early: what the running wheel shuts down has been silent since
\* before the last IdleSeconds - 1 ticks.
THEOREM NeverEvictedEarly == Spec => NoEarlyEviction
<1> DEFINE InTime == \A c \in Conns :
                        loop = "running" /\ evictor[c] = "none" /\ evictor'[c] = "shutdown"
                            => silent[c] = IdleSeconds - 1
<1>1. ASSUME Inv, [Next]_vars PROVE [InTime]_vars
  <2> SUFFICES ASSUME NEW c \in Conns, loop = "running", evictor[c] = "none",
                      evictor'[c] = "shutdown"
               PROVE  silent[c] = IdleSeconds - 1
    OBVIOUS
  <2>1. CASE TickCoro
    BY <1>1, <2>1, TickStep
  <2>2. CASE DestroyServer
    BY <1>1, <2>2 DEF DestroyServer, Inv, ResInv, LoopInv
  <2>3. ASSUME NEW d \in Conns, EvictorResumes(d) PROVE FALSE
    <3>1. evictor' = [evictor EXCEPT ![d] = "none"] /\ evictor \in [Conns -> {"none", "shutdown"}]
      BY <1>1, <2>3 DEF EvictorResumes, Inv, ResInv, TypeOK
    <3>2. QED BY <3>1
  <2>4. evictor' # evictor
    OBVIOUS
  <2>5. CASE AcceptResumes
    BY <2>4, <2>5 DEF AcceptResumes, NewConnection
  <2>6. CASE \/ KernelAcceptFails \/ KernelAccept \/ Boot \/ AcceptEnds \/ LoopStops
             \/ Stop \/ StopListening \/ StopPost \/ Wait \/ UNCHANGED vars
    BY <2>4, <2>6 DEF KernelAcceptFails, KernelAccept, Boot, AcceptEnds, LoopStops, Stop,
                      StopListening, StopPost, Wait, vars, coros
  <2>7. ASSUME NEW d \in Conns,
               KernelShutdown(d) \/ RecvData(d) \/ RecvEnds(d) \/ SendReturns(d) \/ SubmitReturns(d) \/ ShutdownDone(d)
        PROVE  FALSE
    BY <2>4, <2>7 DEF KernelShutdown, RecvData, RecvEnds, SendReturns, SubmitReturns, ShutdownDone,
                      HandlerGoesOn
  <2>8. QED
    BY <1>1, <2>1, <2>2, <2>3, <2>5, <2>6, <2>7 DEF Next, Kernel, Worker, Owner
<1>2. Inv /\ [Next]_vars => [InTime]_vars
  BY <1>1
<1>3. QED BY <1>2, Invariant, PTL DEF Spec, NoEarlyEviction
=============================================================================
