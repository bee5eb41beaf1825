-------------------------- MODULE AsyncLoggerProofs ---------------------------
(***************************************************************************)
(* Proofs about AsyncLogger, for any number of threads and lines and any   *)
(* buffer size and backlog.                                                *)
(***************************************************************************)
EXTENDS AsyncLogger, WellFoundedInduction, SequenceTheorems, TLAPS

\* The backend is in its loop.
Looping == {"top", "lock", "wait", "write", "recycle"}

\* A round ends with two spares: if next_ was used up, a full buffer was queued,
\* and comes back as a spare with the one that was current_.
SpareInv ==
    /\ bpc \in {"top", "lock", "wait"} => newBuf1 /\ newBuf2
    /\ bpc \in Looping \cup {"final"} => current # Null
    /\ bpc \in Looping => next \/ buffers # <<>>
    /\ bpc \in {"write", "recycle"} =>
          ~newBuf1 /\ toWrite # <<>> /\ (newBuf2 \/ Len(toWrite) >= 2)
    /\ ~started => bpc = "off"

\* A line is appended once, by one thread.
LineInv ==
    /\ \A t \in Threads : tpc[t] = "append" => line[t] \in Lines /\ line[t] \notin ToSet(accepted)
    /\ \A t, u \in Threads :
          tpc[t] = "append" /\ tpc[u] = "append" /\ t # u => line[t] # line[u]
    /\ \A i, j \in 1 .. Len(accepted) : accepted[i] = accepted[j] => i = j

BufferInv == TypeOK /\ SpareInv /\ LineInv

\* Without races: threads log only while the backend loops, and stop it alone.
LifeInv ==
    /\ running => started /\ ~terminating /\ ~Stopping /\ bpc \in Looping
    /\ started /\ ~terminating /\ ~Stopping => running
    /\ \A t \in Threads : tpc[t] = "append" => running
    /\ \A t \in Threads : tpc[t] = "exitJoin" => terminating
    /\ \A t, u \in Threads : tpc[t] \in Stops /\ u # t => tpc[u] = "idle"

\* A backend that has ended has left nothing behind.
EmptyInv ==
    /\ bpc \in {"drain", "ended", "off"} => current \in {Null, <<>>}
    /\ bpc \in {"ended", "off"} => buffers = <<>> /\ disk = file

\* Only accepted lines are dropped, or owed to a stop.
HistoryInv == dropped \subseteq ToSet(accepted) /\ owed \subseteq ToSet(accepted)

FlowInv == LifeInv /\ EmptyInv /\ HistoryInv /\ NoLineLost

-----------------------------------------------------------------------------
(* Buffers in a row: what FlattenSeq computes. *)

\* A set of naturals has a least element: this is what inductions rest on.
LEMMA LeastNatural ==
    ASSUME NEW T \in SUBSET Nat, T # {}
    PROVE  \E m \in T : \A k \in T : m <= k
<1> DEFINE R == OpToRel(<, Nat)
<1>1. IsWellFoundedOn(R, Nat)
  BY NatLessThanWellFounded
<1>2. \A a, b \in Nat : <<a, b>> \in R <=> a < b
  BY DEF OpToRel
<1> HIDE DEF R
<1>3. PICK m \in T : \A k \in T : ~(<<k, m>> \in R)
  BY <1>1, WFMin
<1>4. \A k \in T : k \in Nat /\ m \in Nat /\ ~(k < m)
  BY <1>2, <1>3
<1>5. \A k \in T : m <= k
  BY <1>4
<1>6. QED BY <1>3, <1>5

\* The i-th value is what the first i sequences of s are in a row.
Rows(s, n, f) == \A i \in 1 .. n : f[i] = IF i = 1 THEN s[i] ELSE f[i - 1] \o s[i]

\* There is such a function ...
LEMMA RowsExist ==
    ASSUME NEW S, NEW s \in Seq(Seq(S)), NEW n \in 0 .. Len(s)
    PROVE  \E f \in [1 .. n -> Seq(S)] : Rows(s, n, f)
<1> DEFINE Good(k) == \E f \in [1 .. k -> Seq(S)] : Rows(s, k, f)
           T == {k \in 0 .. Len(s) : ~Good(k)}
<1>1. Len(s) \in Nat /\ \A i \in 1 .. Len(s) : s[i] \in Seq(S)
  BY LenProperties, ElementOfSeq
<1>2. SUFFICES T = {}
  OBVIOUS
<1>3. SUFFICES ASSUME T # {} PROVE FALSE
  OBVIOUS
<1>4. T \in SUBSET Nat
  OBVIOUS
<1> HIDE DEF T, Good
<1>5. PICK m \in T : \A k \in T : m <= k
  BY <1>3, <1>4, LeastNatural
<1>6. m \in 0 .. Len(s) /\ ~Good(m)
  BY DEF T
<1>7. CASE m = 0
  <2>1. [i \in 1 .. 0 |-> <<>>] \in [1 .. 0 -> Seq(S)] /\ Rows(s, 0, [i \in 1 .. 0 |-> <<>>])
    BY DEF Rows
  <2>2. QED BY <1>6, <1>7, <2>1 DEF Good
<1>8. CASE m # 0
  <2>1. m - 1 \in 0 .. Len(s) /\ m \in 1 .. Len(s) /\ ~(m <= m - 1)
    BY <1>1, <1>6, <1>8
  <2>2. Good(m - 1)
    BY <1>5, <2>1 DEF T
  <2>3. PICK f \in [1 .. m - 1 -> Seq(S)] : Rows(s, m - 1, f)
    BY <2>2 DEF Good
  <2> DEFINE g == [i \in 1 .. m |-> IF i < m THEN f[i] ELSE IF m = 1 THEN s[m] ELSE f[m - 1] \o s[m]]
  <2>4. m # 1 => m - 1 \in 1 .. m - 1 /\ f[m - 1] \in Seq(S)
    BY <2>1, <2>3
  <2>5. s[m] \in Seq(S) /\ (m # 1 => f[m - 1] \o s[m] \in Seq(S))
    BY <1>1, <2>1, <2>4, ConcatProperties
  <2>6. ASSUME NEW i \in 1 .. m PROVE g[i] \in Seq(S)
    <3>1. CASE i < m
      BY <2>1, <2>3, <3>1
    <3>2. CASE ~(i < m)
      BY <2>5, <3>2
    <3>3. QED BY <3>1, <3>2
  <2>7. Rows(s, m, g)
    <3> SUFFICES ASSUME NEW i \in 1 .. m PROVE g[i] = IF i = 1 THEN s[i] ELSE g[i - 1] \o s[i]
      BY DEF Rows
    <3>1. i # 1 => i - 1 \in 1 .. m /\ i - 1 < m /\ g[i - 1] = f[i - 1]
      BY <2>1
    <3>2. CASE i < m
      <4>1. i \in 1 .. m - 1
        BY <2>1, <3>2
      <4>2. g[i] = f[i] /\ f[i] = IF i = 1 THEN s[i] ELSE f[i - 1] \o s[i]
        BY <2>3, <3>2, <4>1 DEF Rows
      <4>3. QED BY <3>1, <4>2
    <3>3. CASE ~(i < m)
      <4>1. i = m
        BY <2>1, <3>3
      <4>2. QED BY <3>1, <4>1
    <3>4. QED BY <3>2, <3>3
  <2>8. g \in [1 .. m -> Seq(S)]
    BY <2>6
  <2> HIDE DEF g
  <2>9. QED BY <1>6, <2>7, <2>8 DEF Good
<1>9. QED BY <1>7, <1>8

\* ... and no other.
LEMMA RowsUnique ==
    ASSUME NEW s, NEW n \in Nat, NEW f, NEW g, Rows(s, n, f), Rows(s, n, g)
    PROVE  \A i \in 1 .. n : f[i] = g[i]
<1> DEFINE T == {i \in 1 .. n : f[i] # g[i]}
<1>1. SUFFICES ASSUME T # {} PROVE FALSE
  OBVIOUS
<1>2. T \in SUBSET Nat
  OBVIOUS
<1> HIDE DEF T
<1>3. PICK m \in T : \A k \in T : m <= k
  BY <1>1, <1>2, LeastNatural
<1>4. m \in 1 .. n /\ f[m] # g[m]
  BY DEF T
<1>5. m # 1 => m - 1 \in 1 .. n /\ ~(m <= m - 1)
  BY <1>4
<1>6. m # 1 => f[m - 1] = g[m - 1]
  BY <1>3, <1>5 DEF T
<1>7. /\ f[m] = IF m = 1 THEN s[m] ELSE f[m - 1] \o s[m]
      /\ g[m] = IF m = 1 THEN s[m] ELSE g[m - 1] \o s[m]
  BY <1>4 DEF Rows
<1>8. QED BY <1>4, <1>6, <1>7

\* FlattenSeq is its last value.
LEMMA FlattenIsRow ==
    ASSUME NEW S, NEW s \in Seq(Seq(S)), s # <<>>
    PROVE  \E f \in [1 .. Len(s) -> Seq(S)] : Rows(s, Len(s), f) /\ FlattenSeq(s) = f[Len(s)]
<1> DEFINE Def(g) == [i \in 1 .. Len(s) |-> IF i = 1 THEN s[i] ELSE g[i - 1] \o s[i]]
           f == CHOOSE g : g = Def(g)
<1>1. Len(s) \in Nat /\ Len(s) # 0 /\ Len(s) \in 0 .. Len(s)
  BY LenProperties, EmptySeq
<1>2. FlattenSeq(s) = f[Len(s)]
  BY <1>1 DEF FlattenSeq
<1>3. PICK h \in [1 .. Len(s) -> Seq(S)] : Rows(s, Len(s), h)
  BY <1>1, RowsExist
<1>4. h = Def(h)
  BY <1>3 DEF Rows
<1>5. f = Def(f)
  BY <1>4
<1>6. Rows(s, Len(s), f)
  BY <1>5 DEF Rows
<1> HIDE DEF f
<1>7. \A i \in 1 .. Len(s) : f[i] = h[i]
  BY <1>1, <1>3, <1>6, RowsUnique
<1>8. f[Len(s)] = h[Len(s)]
  BY <1>1, <1>7
<1>9. QED BY <1>2, <1>3, <1>8

\* No buffers hold no lines.
LEMMA FlattenEmpty == FlattenSeq(<<>>) = <<>>
BY DEF FlattenSeq

\* Queueing a buffer puts its lines behind all others.
LEMMA FlattenAppend ==
    ASSUME NEW S, NEW s \in Seq(Seq(S)), NEW x \in Seq(S)
    PROVE  FlattenSeq(s) \in Seq(S) /\ FlattenSeq(Append(s, x)) = FlattenSeq(s) \o x
<1> DEFINE t == Append(s, x)
<1>1. PICK n \in Nat : n = Len(s)
  BY LenProperties
<1>2. /\ t \in Seq(Seq(S)) /\ Len(t) = n + 1 /\ t[n + 1] = x /\ t # <<>>
      /\ \A i \in 1 .. n : t[i] = s[i]
  BY <1>1, AppendProperties
<1> HIDE DEF t
<1>3. PICK g \in [1 .. n + 1 -> Seq(S)] : Rows(t, n + 1, g) /\ FlattenSeq(t) = g[n + 1]
  BY <1>2, FlattenIsRow
<1>4. CASE s = <<>>
  <2>1. n = 0
    BY <1>1, <1>4, EmptySeq
  <2>2. 1 \in 1 .. n + 1 /\ n + 1 = 1
    BY <2>1
  <2>3. g[1] = t[1]
    BY <1>3, <2>2 DEF Rows
  <2>4. FlattenSeq(t) = x
    BY <1>2, <1>3, <2>2, <2>3
  <2>5. FlattenSeq(s) = <<>>
    BY <1>4, FlattenEmpty
  <2>6. QED BY <2>4, <2>5, ConcatEmptySeq, EmptySeq DEF t
<1>5. CASE s # <<>>
  <2>1. n # 0
    BY <1>1, <1>5, EmptySeq
  <2>2. PICK f \in [1 .. n -> Seq(S)] : Rows(s, n, f) /\ FlattenSeq(s) = f[n]
    BY <1>1, <1>5, FlattenIsRow
  <2>3. Rows(s, n, g)
    <3>1. n \in Nat /\ Rows(t, n + 1, g) /\ \A i \in 1 .. n : t[i] = s[i]
      BY <1>2, <1>3
    <3>2. \A i \in 1 .. n : i \in 1 .. n + 1
      BY <3>1
    <3>3. QED BY <3>1, <3>2 DEF Rows
  <2>4. \A i \in 1 .. n : g[i] = f[i]
    <3>1. Rows(s, n, f)
      BY <2>2
    <3>2. QED BY ONLY <2>3, <3>1, RowsUnique
  <2>5. n \in 1 .. n /\ n + 1 \in 1 .. n + 1 /\ n + 1 # 1 /\ (n + 1) - 1 = n
    BY <1>2, <2>1
  <2>6. g[n + 1] = g[n] \o t[n + 1]
    BY <1>3, <2>5 DEF Rows
  <2>7. FlattenSeq(t) = f[n] \o x /\ f[n] \in Seq(S)
    BY <1>2, <1>3, <2>2, <2>4, <2>5, <2>6
  <2>8. QED BY <2>2, <2>7 DEF t
<1>6. QED BY <1>4, <1>5

\* Two queues of buffers in a row hold the lines of the one, then those of the
\* other: if that is so, it is so with one buffer more.
LEMMA FlattenLonger ==
    ASSUME NEW S, NEW s \in Seq(Seq(S)), NEW v \in Seq(Seq(S)), NEW x \in Seq(S),
           FlattenSeq(s \o v) = FlattenSeq(s) \o FlattenSeq(v)
    PROVE  FlattenSeq(s \o Append(v, x)) = FlattenSeq(s) \o FlattenSeq(Append(v, x))
<1>1. PICK a \in Seq(S) : a = FlattenSeq(s)
  BY FlattenAppend, EmptySeq
<1>2. PICK b \in Seq(S) : b = FlattenSeq(v) /\ FlattenSeq(Append(v, x)) = b \o x
  BY FlattenAppend
<1>3. (a \o b) \o x = a \o (b \o x)
  BY ConcatAssociative
<1>4. s \o v \in Seq(Seq(S)) /\ s \o Append(v, x) = Append(s \o v, x)
  <2>1. s \o v \in Seq(Seq(S))
    BY ConcatProperties
  <2>2. s \o Append(v, x) = Append(s \o v, x)
    BY <2>1
  <2>3. QED BY <2>1, <2>2
<1>5. FlattenSeq(Append(s \o v, x)) = FlattenSeq(s \o v) \o x
  BY <1>4, FlattenAppend
<1>6. QED BY <1>1, <1>2, <1>3, <1>4, <1>5, Zenon

\* ... so it is for any two queues.
LEMMA FlattenConcat ==
    ASSUME NEW S, NEW s \in Seq(Seq(S)), NEW t \in Seq(Seq(S))
    PROVE  FlattenSeq(s \o t) = FlattenSeq(s) \o FlattenSeq(t)
<1> DEFINE Good(u) == FlattenSeq(s \o u) = FlattenSeq(s) \o FlattenSeq(u)
           T == {n \in Nat : \E u \in Seq(Seq(S)) : Len(u) = n /\ ~Good(u)}
<1>1. SUFFICES ASSUME T # {} PROVE FALSE
  BY LenProperties
<1>2. T \in SUBSET Nat
  OBVIOUS
<1> HIDE DEF T, Good
<1>3. PICK m \in T : \A k \in T : m <= k
  BY <1>1, <1>2, LeastNatural
<1>4. PICK u \in Seq(Seq(S)) : Len(u) = m /\ ~Good(u) /\ m \in Nat
  BY DEF T
<1>5. FlattenSeq(s) \in Seq(S)
  BY FlattenAppend, EmptySeq
<1>6. CASE u = <<>>
  <2>1. s \o u = s /\ FlattenSeq(u) = <<>> /\ FlattenSeq(s) \o <<>> = FlattenSeq(s)
    BY <1>5, <1>6, ConcatEmptySeq, FlattenEmpty
  <2>2. QED BY <1>4, <2>1 DEF Good
<1>7. CASE u # <<>>
  <2>1. PICK v \in Seq(Seq(S)), x \in Seq(S) : u = Append(v, x)
    BY <1>7, SequenceEmptyOrAppend
  <2>2. Len(u) = Len(v) + 1 /\ Len(v) \in Nat
    BY <2>1, AppendProperties, LenProperties
  <2>3. Good(v)
    <3>1. ~(m <= Len(v))
      BY <1>4, <2>2
    <3>2. Len(v) \notin T
      BY <1>3, <3>1
    <3>3. QED BY <2>2, <3>2 DEF T
  <2>4. Good(u)
    BY <2>1, <2>3, FlattenLonger DEF Good
  <2>5. QED BY <1>4, <2>4
<1>8. QED BY <1>6, <1>7

\* A buffer is a short sequence of lines.
LEMMA BuffersAreShort ==
    /\ \A b \in Buffers : b \in Seq(Lines) /\ Len(b) <= BufferLines
    /\ \A b \in Seq(Lines) : Len(b) <= BufferLines => b \in Buffers
    /\ \A q \in Seq(Buffers) : q \in Seq(Seq(Lines))
    /\ <<>> \in Buffers /\ BufferLines \in Nat /\ BufferLines > 0
<1>1. BufferLines \in Nat /\ BufferLines > 0
  BY LoggerAssumption
<1>2. ASSUME NEW b \in Buffers PROVE b \in Seq(Lines) /\ Len(b) <= BufferLines
  <2>1. PICK n \in 0 .. BufferLines : b \in [1 .. n -> Lines]
    BY DEF Buffers
  <2>2. b \in Seq(Lines) /\ Len(b) = n
    BY <1>1, <2>1, IsASeq
  <2>3. QED BY <1>1, <2>1, <2>2
<1>3. ASSUME NEW b \in Seq(Lines), Len(b) <= BufferLines PROVE b \in Buffers
  <2>1. Len(b) \in 0 .. BufferLines /\ b \in [1 .. Len(b) -> Lines]
    BY <1>1, <1>3, LenProperties
  <2>2. QED BY <2>1 DEF Buffers
<1>4. Buffers \subseteq Seq(Lines)
  BY <1>2
<1>5. \A q \in Seq(Buffers) : q \in Seq(Seq(Lines))
  <2> SUFFICES ASSUME NEW q \in Seq(Buffers) PROVE q \in Seq(Seq(Lines))
    OBVIOUS
  <2>1. QED BY ONLY <1>4, SeqMonotonic, Zenon
<1>6. <<>> \in Buffers
  <2>1. <<>> \in Seq(Lines) /\ Len(<<>>) <= BufferLines
    BY <1>1, EmptySeq
  <2>2. QED BY <1>3, <2>1, Zenon
<1>7. QED BY <1>1, <1>2, <1>3, <1>5, <1>6

\* The lines of a queue with one more.
LEMMA AppendToSet ==
    ASSUME NEW S, NEW s \in Seq(S), NEW x \in S
    PROVE  /\ ToSet(Append(s, x)) = ToSet(s) \cup {x}
           /\ Append(s, x) \in Seq(S)
<1>1. /\ Append(s, x) \in Seq(S) /\ Len(Append(s, x)) = Len(s) + 1
      /\ Append(s, x)[Len(s) + 1] = x
      /\ \A i \in 1 .. Len(s) : Append(s, x)[i] = s[i]
  BY AppendProperties
<1>2. /\ DOMAIN s = 1 .. Len(s) /\ DOMAIN Append(s, x) = 1 .. Len(s) + 1 /\ Len(s) \in Nat
  BY <1>1, LenProperties
<1> DEFINE a == Append(s, x)
<1> HIDE DEF a
<1>3. ASSUME NEW i \in 1 .. Len(s) + 1 PROVE i = Len(s) + 1 \/ i \in 1 .. Len(s)
  BY <1>2
<1>4. ASSUME NEW i \in 1 .. Len(s) PROVE i \in 1 .. Len(s) + 1
  BY <1>2
<1>5. Len(s) + 1 \in 1 .. Len(s) + 1
  BY <1>2
<1>6. QED BY <1>1, <1>2, <1>3, <1>4, <1>5 DEF ToSet

-----------------------------------------------------------------------------
(* The buffers, whatever races there are. *)

\* Nothing is buffered before the first init().
LEMMA InitBuffers == Init => BufferInv
<1> SUFFICES ASSUME Init PROVE BufferInv
  OBVIOUS
<1>1. TypeOK
  <2>1. /\ current \in Buffers \cup {Null} /\ buffers \in Seq(Buffers) /\ toWrite \in Seq(Buffers)
        /\ file \in Seq(Lines) /\ disk \in Seq(Lines) /\ accepted \in Seq(Lines)
    BY EmptySeq DEF Init
  <2>2. starts \in 0 .. MaxStarts
    BY LoggerAssumption DEF Init
  <2>3. /\ tpc \in [Threads -> {"idle", "append", "crashed", "aborted"} \cup Stops]
        /\ line \in [Threads -> Lines \cup {Null}]
        /\ bpc \in BackendPcs \cup {"ended"}
    BY DEF Init, BackendPcs
  <2>4. /\ next \in BOOLEAN /\ started \in BOOLEAN /\ running \in BOOLEAN /\ terminating \in BOOLEAN
        /\ newBuf1 \in BOOLEAN /\ newBuf2 \in BOOLEAN
        /\ errs \subseteq Lines /\ dropped \subseteq Lines /\ owed \subseteq Lines
    BY DEF Init
  <2>5. QED BY <2>1, <2>2, <2>3, <2>4 DEF TypeOK
<1>2. SpareInv
  BY DEF Init, SpareInv, Looping
<1>3. LineInv
  BY DEF Init, LineInv
<1>4. QED BY <1>1, <1>2, <1>3 DEF BufferInv

\* append() under the lock: the line goes to current_ or to the buffer that takes
\* its place.
LEMMA AppendKeepsBuffers ==
    ASSUME BufferInv, NEW t \in Threads, AppendLocked(t)
    PROVE  BufferInv'
<1> USE DEF BufferInv
<1>1. /\ line[t] \in Lines /\ line[t] \notin ToSet(accepted) /\ tpc[t] = "append"
      /\ UNCHANGED <<started, running, terminating, bpc, newBuf1, newBuf2, toWrite, file, disk,
                     dropped, errs, owed, starts>>
      /\ line' = [line EXCEPT ![t] = Null]
  BY DEF AppendLocked, LineInv, flags, backend
<1>2. /\ line' \in [Threads -> Lines \cup {Null}]
      /\ \A u \in Threads : u # t => line'[u] = line[u]
  BY <1>1 DEF TypeOK
<1>3. CASE current = Null
  <2>1. /\ tpc' = [tpc EXCEPT ![t] = "crashed"]
        /\ UNCHANGED <<current, next, buffers, accepted>>
    BY <1>3 DEF AppendLocked
  <2>2. TypeOK'
    BY <1>1, <1>2, <2>1 DEF TypeOK
  <2>3. SpareInv'
    BY <1>1, <2>1 DEF SpareInv
  <2>4. \A u \in Threads : tpc'[u] = "append" => u # t /\ tpc[u] = "append"
    BY <2>1 DEF TypeOK
  <2>5. LineInv'
    BY <1>2, <2>1, <2>4 DEF LineInv
  <2>6. QED BY <2>2, <2>3, <2>5
<1>4. CASE current # Null
  <2>1. /\ tpc' = [tpc EXCEPT ![t] = "idle"] /\ accepted' = Append(accepted, line[t])
        /\ \/ Len(current) < BufferLines /\ current' = Append(current, line[t]) /\ UNCHANGED <<buffers, next>>
           \/ buffers' = Append(buffers, current) /\ current' = <<line[t]>> /\ next' = FALSE
    BY <1>4 DEF AppendLocked
  <2>2. current \in Buffers /\ buffers \in Seq(Buffers) /\ accepted \in Seq(Lines)
    BY <1>4 DEF TypeOK
  <2>3. current' \in Buffers /\ buffers' \in Seq(Buffers) /\ (buffers = <<>> \/ buffers' # <<>>)
    <3>1. CASE Len(current) < BufferLines /\ current' = Append(current, line[t]) /\ buffers' = buffers
      <4>1. current \in Seq(Lines) /\ Len(current) \in Nat /\ BufferLines \in Nat
        BY <2>2, BuffersAreShort, LenProperties
      <4>2. current' \in Seq(Lines) /\ Len(current') = Len(current) + 1
        BY <1>1, <3>1, <4>1, AppendProperties
      <4>3. Len(current') <= BufferLines
        BY <3>1, <4>1, <4>2
      <4>4. QED BY <2>2, <3>1, <4>2, <4>3, BuffersAreShort
    <3>2. CASE buffers' = Append(buffers, current) /\ current' = <<line[t]>>
      <4>1. current' \in Seq(Lines) /\ Len(current') <= BufferLines
        BY <1>1, <3>2, BuffersAreShort
      <4>2. current' \in Buffers
        BY <4>1, BuffersAreShort
      <4>3. buffers' \in Seq(Buffers) /\ buffers' # <<>>
        BY <2>2, <3>2, AppendProperties
      <4>4. QED BY <4>2, <4>3
    <3>3. QED BY <2>1, <3>1, <3>2
  <2>4. accepted' \in Seq(Lines) /\ ToSet(accepted') = ToSet(accepted) \cup {line[t]}
    BY <1>1, <2>1, <2>2, AppendToSet
  <2>5. TypeOK'
    <3>1. next' \in BOOLEAN
      BY <2>1 DEF TypeOK
    <3>2. tpc' \in [Threads -> {"idle", "append", "crashed", "aborted"} \cup Stops]
      BY <2>1 DEF TypeOK
    <3>3. QED BY <1>1, <1>2, <2>3, <2>4, <3>1, <3>2 DEF TypeOK
  <2>6. SpareInv'
    <3>1. current' # Null
      BY <2>3, NullAssumption
    <3>2. next' \/ buffers' # <<>> \/ ~(next \/ buffers # <<>>)
      BY <2>1, <2>3, <2>2, AppendProperties
    <3>3. QED BY <1>1, <3>1, <3>2 DEF SpareInv
  <2>7. LineInv'
    <3>1. \A u \in Threads : tpc'[u] = "append" => u # t /\ tpc[u] = "append"
      BY <2>1 DEF TypeOK
    <3>2. \A u \in Threads : tpc'[u] = "append" => line'[u] \in Lines /\ line'[u] \notin ToSet(accepted')
      BY <1>1, <1>2, <2>4, <3>1 DEF LineInv
    <3>3. \A u, v \in Threads :
             tpc'[u] = "append" /\ tpc'[v] = "append" /\ u # v => line'[u] # line'[v]
      BY <1>2, <3>1 DEF LineInv
    <3>4. \A i, j \in 1 .. Len(accepted') : accepted'[i] = accepted'[j] => i = j
      <4> SUFFICES ASSUME NEW i \in 1 .. Len(accepted'), NEW j \in 1 .. Len(accepted'),
                          accepted'[i] = accepted'[j]
                   PROVE  i = j
        OBVIOUS
      <4>1. /\ DOMAIN accepted = 1 .. Len(accepted) /\ Len(accepted) \in Nat
            /\ Len(accepted') = Len(accepted) + 1 /\ accepted'[Len(accepted) + 1] = line[t]
            /\ \A k \in 1 .. Len(accepted) : accepted'[k] = accepted[k]
        BY <1>1, <2>1, <2>2, <2>4, LenProperties, AppendProperties
      <4>2. \A k \in 1 .. Len(accepted) : accepted'[k] # line[t]
        BY <1>1, <4>1 DEF ToSet
      <4>3. /\ i = Len(accepted) + 1 \/ i \in 1 .. Len(accepted)
            /\ j = Len(accepted) + 1 \/ j \in 1 .. Len(accepted)
        BY <4>1
      <4>4. CASE i = Len(accepted) + 1
        BY <4>1, <4>2, <4>3, <4>4
      <4>5. CASE i \in 1 .. Len(accepted)
        <5>1. j \in 1 .. Len(accepted)
          BY <4>1, <4>2, <4>3, <4>5
        <5>2. QED BY <4>1, <4>5, <5>1 DEF LineInv
      <4>6. QED BY <4>3, <4>4, <4>5
    <3>5. QED BY <3>2, <3>3, <3>4 DEF LineInv
  <2>8. QED BY <2>5, <2>6, <2>7
<1>5. QED BY <1>3, <1>4

\* The end of a round's critical section: the spares take the place of what is
\* taken away.
LEMMA SwapKeepsBuffers ==
    ASSUME BufferInv, bpc \in {"lock", "wait"}, SwapOut
    PROVE  BufferInv'
<1> USE DEF BufferInv
<1>1. /\ newBuf1 /\ newBuf2 /\ current # Null /\ (next \/ buffers # <<>>)
  BY DEF SpareInv, Looping
<1>2. current \in Buffers /\ buffers \in Seq(Buffers)
  BY <1>1 DEF TypeOK
<1>3. /\ toWrite' = Append(buffers, current) /\ buffers' = <<>> /\ current' = <<>>
      /\ newBuf1' = FALSE /\ next' = TRUE /\ newBuf2' = next /\ bpc' = "write"
      /\ UNCHANGED <<started, running, terminating, tpc, line, file, disk, errs, accepted, dropped,
                     owed, starts>>
  BY <1>1 DEF SwapOut, flags, TypeOK
<1>4. /\ toWrite' \in Seq(Buffers) /\ Len(toWrite') = Len(buffers) + 1 /\ Len(buffers) \in Nat
      /\ toWrite' # <<>>
  BY <1>2, <1>3, AppendProperties, LenProperties
<1>5. buffers # <<>> => Len(toWrite') >= 2
  BY <1>2, <1>4, EmptySeq
<1>6. TypeOK'
  <2>1. current' \in Buffers /\ buffers' \in Seq(Buffers)
    BY <1>3, BuffersAreShort, EmptySeq
  <2>2. QED BY <1>3, <1>4, <2>1 DEF TypeOK, BackendPcs
<1>7. SpareInv'
  <2>1. current' # Null
    BY <1>3, BuffersAreShort, NullAssumption
  <2>2. newBuf2' \/ Len(toWrite') >= 2
    BY <1>1, <1>3, <1>5
  <2>3. started
    BY DEF SpareInv
  <2>4. QED BY <1>3, <1>4, <2>1, <2>2, <2>3 DEF SpareInv, Looping
<1>8. LineInv'
  BY <1>3 DEF LineInv, ToSet
<1>9. QED BY <1>6, <1>7, <1>8

\* A thread that starts the backend, stops it, waits for it or is about to append
\* leaves the lines in the buffers alone.
LEMMA ThreadsKeepBuffers ==
    ASSUME BufferInv, NEW t \in Threads,
           \/ InitLogger(t) \/ Shutdown(t) \/ FlushAndStop(t) \/ Destroy(t) \/ Joined(t)
           \/ \E l \in Lines : AppendBegin(t, l)
    PROVE  BufferInv'
<1> USE DEF BufferInv
<1>1. CASE InitLogger(t)
  <2>1. /\ current' = <<>> /\ next' = TRUE /\ started' = TRUE /\ running' = TRUE /\ bpc' = "top"
        /\ newBuf1' = TRUE /\ newBuf2' = TRUE /\ starts' = starts + 1 /\ starts < MaxStarts
        /\ UNCHANGED <<buffers, terminating, tpc, line, toWrite, file, disk, errs, accepted, dropped,
                       owed>>
    BY <1>1 DEF InitLogger
  <2>2. current' \in Buffers /\ current' # Null
    BY <2>1, BuffersAreShort, NullAssumption
  <2>3. starts' \in 0 .. MaxStarts
    BY <2>1, LoggerAssumption DEF TypeOK
  <2>4. TypeOK'
    BY <2>1, <2>2, <2>3 DEF TypeOK, BackendPcs
  <2>5. SpareInv'
    BY <2>1, <2>2 DEF SpareInv, Looping
  <2>6. LineInv'
    BY <2>1 DEF LineInv, ToSet
  <2>7. QED BY <2>4, <2>5, <2>6
<1>2. CASE \E l \in Lines : AppendBegin(t, l)
  <2>1. PICK l \in Lines : AppendBegin(t, l)
    BY <1>2
  <2>2. /\ l \notin ToSet(accepted) /\ \A u \in Threads : line[u] # l
        /\ UNCHANGED <<current, next, buffers, started, running, terminating, bpc, newBuf1, newBuf2,
                       toWrite, file, disk, dropped, accepted, owed, starts>>
    BY <2>1 DEF AppendBegin, Logged, flags, backend
  <2>3. CASE errs' = errs \cup {l} /\ UNCHANGED <<tpc, line>>
    <3>1. TypeOK'
      BY <2>2, <2>3 DEF TypeOK
    <3>2. SpareInv' /\ LineInv'
      BY <2>2, <2>3 DEF SpareInv, LineInv, ToSet
    <3>3. QED BY <3>1, <3>2
  <2>4. CASE tpc' = [tpc EXCEPT ![t] = "append"] /\ line' = [line EXCEPT ![t] = l] /\ errs' = errs
    <3>1. /\ tpc' \in [Threads -> {"idle", "append", "crashed", "aborted"} \cup Stops]
          /\ line' \in [Threads -> Lines \cup {Null}]
          /\ line'[t] = l /\ \A u \in Threads : u # t => line'[u] = line[u] /\ tpc'[u] = tpc[u]
      BY <2>4 DEF TypeOK
    <3>2. TypeOK'
      BY <2>2, <2>4, <3>1 DEF TypeOK
    <3>3. SpareInv'
      BY <2>2 DEF SpareInv
    <3>4. \A u \in Threads : tpc'[u] = "append" => line'[u] \in Lines /\ line'[u] \notin ToSet(accepted)
      BY <2>2, <3>1 DEF LineInv
    <3>5. \A u, v \in Threads :
             tpc'[u] = "append" /\ tpc'[v] = "append" /\ u # v => line'[u] # line'[v]
      BY <2>2, <3>1 DEF LineInv
    <3>6. LineInv'
      BY <2>2, <3>4, <3>5 DEF LineInv, ToSet
    <3>7. QED BY <3>2, <3>3, <3>6
  <2>5. QED BY <2>1, <2>3, <2>4 DEF AppendBegin
<1>3. ASSUME NEW pc \in Stops \cup {"idle", "aborted"}, tpc' = [tpc EXCEPT ![t] = pc],
             UNCHANGED <<current, next, buffers, line, newBuf1, newBuf2, toWrite, file, disk, errs,
                         accepted, dropped, starts>>,
             \/ bpc' = bpc /\ started' = started
             \/ bpc' = "off" /\ started' \in BOOLEAN,
             running' \in BOOLEAN, terminating' \in BOOLEAN, owed' \subseteq Lines
      PROVE  BufferInv'
  <2>1. /\ tpc' \in [Threads -> {"idle", "append", "crashed", "aborted"} \cup Stops]
        /\ \A u \in Threads : tpc'[u] = "append" => u # t /\ tpc[u] = "append"
    <3>1. pc # "append"
      BY DEF Stops
    <3>2. QED BY <1>3, <3>1 DEF TypeOK
  <2>2. bpc' \in BackendPcs \cup {"ended"} /\ started' \in BOOLEAN
    BY <1>3 DEF TypeOK, BackendPcs
  <2>3. TypeOK'
    BY <1>3, <2>1, <2>2 DEF TypeOK
  <2>4. SpareInv'
    BY <1>3 DEF SpareInv, Looping
  <2>5. LineInv'
    BY <1>3, <2>1 DEF LineInv, ToSet
  <2>6. QED BY <2>3, <2>4, <2>5
<1>4. ASSUME NEW pc \in Stops, StopAs(t, pc), terminating' \in BOOLEAN PROVE BufferInv'
  <2>1. ToSet(accepted) \subseteq Lines
    BY ElementOfSeq, LenProperties DEF TypeOK, ToSet
  <2>2. owed' \subseteq Lines
    BY <1>4, <2>1 DEF StopAs, TypeOK
  <2>3. QED BY <1>3, <1>4, <2>2 DEF StopAs, backend, TypeOK
<1>5. CASE Shutdown(t)
  BY <1>4, <1>5 DEF Shutdown, Stops, TypeOK
<1>6. CASE FlushAndStop(t)
  BY <1>4, <1>6 DEF FlushAndStop, Stops, TypeOK
<1>7. CASE Destroy(t)
  <2>1. CASE started
    BY <1>4, <1>7, <2>1 DEF Destroy, Stops
  <2>2. CASE ~started
    <3>1. /\ terminating' = TRUE
          /\ UNCHANGED <<current, next, buffers, started, running, tpc, line, bpc, newBuf1, newBuf2,
                         toWrite, file, disk, dropped, errs, accepted, owed, starts>>
      BY <1>7, <2>2 DEF Destroy, backend
    <3>2. TypeOK'
      BY <3>1 DEF TypeOK
    <3>3. SpareInv' /\ LineInv'
      BY <3>1 DEF SpareInv, LineInv, ToSet
    <3>4. QED BY <3>2, <3>3
  <2>3. QED BY <2>1, <2>2
<1>8. CASE Joined(t)
  <2>1. PICK pc \in Stops \cup {"idle", "aborted"} : tpc' = [tpc EXCEPT ![t] = pc]
    BY <1>8 DEF Joined
  <2>2. started' \in BOOLEAN /\ running' \in BOOLEAN /\ terminating' \in BOOLEAN /\ owed' \subseteq Lines
    BY <1>8 DEF Joined, TypeOK
  <2>3. QED BY <1>3, <1>8, <2>1, <2>2 DEF Joined
<1>9. QED BY <1>1, <1>2, <1>5, <1>6, <1>7, <1>8

\* The lines written, dropped and recycled by the backend.
LEMMA BackendKeepsBuffers ==
    ASSUME BufferInv, Backend
    PROVE  BufferInv'
<1> USE DEF BufferInv
<1>1. CASE LoopTop
  <2>1. TypeOK'
    BY <1>1 DEF LoopTop, TypeOK, BackendPcs, flags
  <2>2. SpareInv' /\ LineInv'
    BY <1>1 DEF LoopTop, SpareInv, LineInv, ToSet, Looping, flags
  <2>3. QED BY <2>1, <2>2
<1>2. CASE LockAndTest
  <2>1. CASE SwapOut
    BY <1>2, <2>1, SwapKeepsBuffers DEF LockAndTest
  <2>2. CASE ~SwapOut
    <3>1. TypeOK'
      BY <1>2, <2>2 DEF LockAndTest, TypeOK, BackendPcs, flags
    <3>2. SpareInv' /\ LineInv'
      BY <1>2, <2>2 DEF LockAndTest, SpareInv, LineInv, ToSet, Looping, flags
    <3>3. QED BY <3>1, <3>2
  <2>3. QED BY <2>1, <2>2
<1>3. CASE WaitEnds
  BY <1>3, SwapKeepsBuffers DEF WaitEnds
<1>4. CASE WriteOut
  <2>1. PICK k : /\ k = IF Len(toWrite) > Backlog THEN SubSeq(toWrite, 1, 2) ELSE toWrite
                 /\ toWrite' = k /\ file' = file \o FlattenSeq(k)
                 /\ dropped' = dropped \cup (ToSet(FlattenSeq(toWrite)) \ ToSet(FlattenSeq(k)))
    BY <1>4 DEF WriteOut
  <2>2. /\ bpc = "write" /\ bpc' = "recycle"
        /\ UNCHANGED <<current, next, buffers, started, running, terminating, tpc, line, newBuf1,
                       newBuf2, disk, errs, accepted, owed, starts>>
    BY <1>4 DEF WriteOut, flags
  <2>3. /\ ~newBuf1 /\ toWrite # <<>> /\ (newBuf2 \/ Len(toWrite) >= 2)
        /\ toWrite \in Seq(Buffers) /\ Len(toWrite) \in Nat
    BY <2>2, LenProperties DEF SpareInv, TypeOK
  <2>4. k \in Seq(Buffers) /\ k # <<>> /\ (newBuf2 \/ Len(k) >= 2)
    <3>1. CASE Len(toWrite) > Backlog
      <4>1. Len(toWrite) >= 2
        BY <2>3, <3>1, LoggerAssumption
      <4>2. k = SubSeq(toWrite, 1, 2)
        BY <2>1, <3>1
      <4>3. k \in Seq(Buffers) /\ Len(k) = 2
        BY <2>3, <4>1, <4>2, SubSeqProperties
      <4>4. k # <<>> /\ Len(k) >= 2
        BY <4>3
      <4>5. QED BY <4>3, <4>4
    <3>2. CASE ~(Len(toWrite) > Backlog)
      BY <2>1, <2>3, <3>2
    <3>3. QED BY <3>1, <3>2
  <2>5. FlattenSeq(k) \in Seq(Lines) /\ FlattenSeq(toWrite) \in Seq(Lines)
    BY <2>3, <2>4, BuffersAreShort, FlattenAppend, EmptySeq
  <2>6. file' \in Seq(Lines)
    BY <2>1, <2>5, ConcatProperties DEF TypeOK
  <2>7. dropped' \subseteq Lines
    <3>1. ToSet(FlattenSeq(toWrite)) \subseteq Lines
      BY <2>5, ElementOfSeq, LenProperties DEF ToSet
    <3>2. QED BY <2>1, <3>1 DEF TypeOK
  <2>8. TypeOK'
    BY <2>1, <2>2, <2>4, <2>6, <2>7 DEF TypeOK, BackendPcs
  <2>9. SpareInv'
    BY <2>1, <2>2, <2>3, <2>4 DEF SpareInv, Looping
  <2>10. LineInv'
    BY <2>2 DEF LineInv, ToSet
  <2>11. QED BY <2>8, <2>9, <2>10
<1>5. CASE Recycle
  <2>1. /\ bpc = "recycle" /\ bpc' = "top" /\ newBuf1' = TRUE /\ toWrite' = <<>> /\ disk' = file
        /\ newBuf2' = (newBuf2 \/ Len(toWrite) - (IF newBuf1 THEN 0 ELSE 1) > 0)
        /\ UNCHANGED <<current, next, buffers, started, running, terminating, tpc, line, file, errs,
                       accepted, dropped, owed, starts>>
    BY <1>5 DEF Recycle, flags
  <2>2. newBuf2' = TRUE
    BY <2>1, LenProperties DEF SpareInv, TypeOK
  <2>3. TypeOK'
    BY <2>1, <2>2, EmptySeq DEF TypeOK, BackendPcs
  <2>4. SpareInv'
    BY <2>1, <2>2 DEF SpareInv, Looping
  <2>5. LineInv'
    BY <2>1 DEF LineInv, ToSet
  <2>6. QED BY <2>3, <2>4, <2>5
<1>6. CASE FinalLock
  <2>1. /\ bpc = "final" /\ bpc' = "drain"
        /\ UNCHANGED <<next, started, running, terminating, tpc, line, newBuf1, newBuf2, toWrite,
                       file, disk, errs, accepted, dropped, owed, starts>>
    BY <1>6 DEF FinalLock, flags
  <2>2. current' \in Buffers \cup {Null} /\ buffers' \in Seq(Buffers)
    <3>1. CASE current \notin {Null, <<>>}
      <4>1. current \in Buffers /\ buffers \in Seq(Buffers)
        BY <3>1 DEF TypeOK
      <4>2. QED BY <1>6, <3>1, <4>1, AppendProperties DEF FinalLock
    <3>2. CASE current \in {Null, <<>>}
      BY <1>6, <3>2 DEF FinalLock, TypeOK
    <3>3. QED BY <3>1, <3>2
  <2>3. TypeOK'
    BY <2>1, <2>2 DEF TypeOK, BackendPcs
  <2>4. SpareInv' /\ LineInv'
    BY <2>1 DEF SpareInv, Looping, LineInv, ToSet
  <2>5. QED BY <2>3, <2>4
<1>7. CASE FinalDrain
  <2>1. /\ bpc = "drain" /\ bpc' = "ended" /\ file' = file \o FlattenSeq(buffers) /\ disk' = file'
        /\ buffers' = <<>>
        /\ UNCHANGED <<current, next, started, running, terminating, tpc, line, newBuf1, newBuf2,
                       toWrite, errs, accepted, dropped, owed, starts>>
    BY <1>7 DEF FinalDrain, flags
  <2>2. FlattenSeq(buffers) \in Seq(Lines)
    BY BuffersAreShort, FlattenAppend, EmptySeq DEF TypeOK
  <2>3. file' \in Seq(Lines) /\ buffers' \in Seq(Buffers)
    BY <2>1, <2>2, ConcatProperties, EmptySeq DEF TypeOK
  <2>4. TypeOK'
    BY <2>1, <2>3 DEF TypeOK
  <2>5. SpareInv' /\ LineInv'
    BY <2>1 DEF SpareInv, Looping, LineInv, ToSet
  <2>6. QED BY <2>4, <2>5
<1>8. QED BY <1>1, <1>2, <1>3, <1>4, <1>5, <1>6, <1>7 DEF Backend

\* Every step keeps what is known of the buffers.
LEMMA BuffersStep == BufferInv /\ [Next]_vars => BufferInv'
<1> SUFFICES ASSUME BufferInv, [Next]_vars PROVE BufferInv'
  OBVIOUS
<1>1. CASE Next
  BY <1>1, AppendKeepsBuffers, ThreadsKeepBuffers, BackendKeepsBuffers DEF Next
<1>2. CASE UNCHANGED vars
  BY <1>2 DEF vars, BufferInv, TypeOK, SpareInv, LineInv, ToSet
<1>3. QED BY <1>1, <1>2

\* In every state, races or not, the buffers are in order.
THEOREM BuffersInvariant == Spec => []BufferInv
<1>1. BufferInv /\ [Next]_vars => BufferInv'
  BY BuffersStep
<1>2. QED BY InitBuffers, <1>1, PTL DEF Spec

\* The double buffering of thread_func never runs out of spares, and current_ is
\* never null while the backend loops, whoever logs or stops when.
THEOREM DoubleBuffering == Spec => []SparesAtTop
<1>1. BufferInv => SparesAtTop
  BY DEF BufferInv, SpareInv, SparesAtTop, Looping, BackendPcs
<1>2. QED BY BuffersInvariant, <1>1, PTL

-----------------------------------------------------------------------------
(* Lines in order. *)

\* p holds lines of a, in the order of a.
InOrder(p, a) ==
    \A i, j \in 1 .. Len(p) :
        i < j => \E m, n \in 1 .. Len(a) : m < n /\ a[m] = p[i] /\ a[n] = p[j]

Distinct(s) == \A i, j \in 1 .. Len(s) : s[i] = s[j] => i = j

\* The lines of two sequences in a row.
LEMMA ConcatToSet ==
    ASSUME NEW S, NEW s \in Seq(S), NEW t \in Seq(S)
    PROVE  s \o t \in Seq(S) /\ ToSet(s \o t) = ToSet(s) \cup ToSet(t)
<1>1. PICK m \in Nat, n \in Nat : m = Len(s) /\ n = Len(t)
  BY LenProperties
<1>2. PICK u \in Seq(S) : u = s \o t
  BY ConcatProperties
<1>3. /\ DOMAIN s = 1 .. m /\ DOMAIN t = 1 .. n /\ DOMAIN u = 1 .. m + n
      /\ \A i \in 1 .. m + n : u[i] = IF i <= m THEN s[i] ELSE t[i - m]
  BY <1>1, <1>2, LenProperties, ConcatProperties
<1>4. \A i \in 1 .. m : i \in 1 .. m + n /\ u[i] = s[i]
  BY <1>3
<1>5. \A i \in 1 .. n : m + i \in 1 .. m + n /\ u[m + i] = t[i]
  BY <1>3
<1>6. \A i \in 1 .. m + n : \/ i \in 1 .. m /\ u[i] = s[i]
                            \/ i - m \in 1 .. n /\ u[i] = t[i - m]
  <2> SUFFICES ASSUME NEW i \in 1 .. m + n
               PROVE  (i \in 1 .. m /\ u[i] = s[i]) \/ (i - m \in 1 .. n /\ u[i] = t[i - m])
    OBVIOUS
  <2>1. u[i] = IF i <= m THEN s[i] ELSE t[i - m]
    BY <1>3
  <2>2. i <= m => i \in 1 .. m
    OBVIOUS
  <2>3. ~(i <= m) => i - m \in 1 .. n
    OBVIOUS
  <2>4. CASE i <= m
    BY <2>1, <2>2, <2>4
  <2>5. CASE ~(i <= m)
    BY <2>1, <2>3, <2>5
  <2>6. QED BY <2>4, <2>5
<1>7. ToSet(u) = ToSet(s) \cup ToSet(t)
  <2>1. /\ ToSet(u) = {u[i] : i \in 1 .. m + n} /\ ToSet(s) = {s[i] : i \in 1 .. m}
        /\ ToSet(t) = {t[i] : i \in 1 .. n}
    BY <1>3 DEF ToSet
  <2>2. ToSet(s) \subseteq ToSet(u)
    BY <1>4, <2>1
  <2>3. ToSet(t) \subseteq ToSet(u)
    BY <1>5, <2>1
  <2>4. ToSet(u) \subseteq ToSet(s) \cup ToSet(t)
    BY <1>6, <2>1
  <2>5. QED BY <2>2, <2>3, <2>4
<1>8. QED BY <1>2, <1>7

\* Appended at both ends, a new line keeps the order.
LEMMA OrderAppend ==
    ASSUME NEW S, NEW p \in Seq(S), NEW a \in Seq(S), NEW x \in S,
           InOrder(p, a), ToSet(p) \subseteq ToSet(a)
    PROVE  InOrder(Append(p, x), Append(a, x))
<1>1. PICK k \in Nat, n \in Nat : k = Len(p) /\ n = Len(a)
  BY LenProperties
<1>2. PICK q \in Seq(S), b \in Seq(S) : q = Append(p, x) /\ b = Append(a, x)
  BY AppendProperties
<1>3. /\ Len(q) = k + 1 /\ q[k + 1] = x /\ \A i \in 1 .. k : q[i] = p[i]
      /\ Len(b) = n + 1 /\ b[n + 1] = x /\ \A i \in 1 .. n : b[i] = a[i]
      /\ DOMAIN p = 1 .. k /\ DOMAIN a = 1 .. n
  BY <1>1, <1>2, LenProperties, AppendProperties
<1>4. SUFFICES InOrder(q, b)
  BY <1>2
<1> SUFFICES ASSUME NEW i \in 1 .. Len(q), NEW j \in 1 .. Len(q), i < j
             PROVE  \E m, l \in 1 .. Len(b) : m < l /\ b[m] = q[i] /\ b[l] = q[j]
  BY DEF InOrder
<1>5. i \in 1 .. k /\ j \in 1 .. k + 1
  BY <1>3
<1>6. CASE j = k + 1
  <2>1. p[i] \in ToSet(a)
    BY <1>3, <1>5 DEF ToSet
  <2>2. PICK m \in 1 .. n : a[m] = p[i]
    BY <1>3, <2>1 DEF ToSet
  <2>3. m \in 1 .. n + 1 /\ n + 1 \in 1 .. n + 1 /\ m < n + 1
    OBVIOUS
  <2>4. QED BY <1>3, <1>5, <1>6, <2>2, <2>3
<1>7. CASE j # k + 1
  <2>1. j \in 1 .. k
    BY <1>5, <1>7
  <2>2. PICK m \in 1 .. n, l \in 1 .. n : m < l /\ a[m] = p[i] /\ a[l] = p[j]
    BY <1>1, <1>5, <2>1 DEF InOrder
  <2>3. m \in 1 .. n + 1 /\ l \in 1 .. n + 1
    OBVIOUS
  <2>4. QED BY <1>3, <1>5, <2>1, <2>2, <2>3
<1>8. QED BY <1>6, <1>7

\* A sequence in the order of one without repetitions has none.
LEMMA OrderDistinct ==
    ASSUME NEW S, NEW p \in Seq(S), NEW a \in Seq(S), InOrder(p, a), Distinct(a)
    PROVE  Distinct(p)
<1>1. PICK k \in Nat, n \in Nat : Len(p) = k /\ Len(a) = n
  BY LenProperties
<1>2. ASSUME NEW i \in 1 .. k, NEW j \in 1 .. k, i < j PROVE p[i] # p[j]
  <2>1. PICK m \in 1 .. n, l \in 1 .. n : m < l /\ a[m] = p[i] /\ a[l] = p[j]
    BY <1>1, <1>2 DEF InOrder
  <2>2. m # l
    BY <2>1
  <2>3. QED BY <1>1, <2>1, <2>2 DEF Distinct
<1>3. ASSUME NEW i \in 1 .. k, NEW j \in 1 .. k, i # j PROVE i < j \/ j < i
  BY <1>3
<1>4. \A i, j \in 1 .. k : i # j => p[i] # p[j]
  BY <1>2, <1>3, Zenon
<1>5. QED BY <1>1, <1>4 DEF Distinct

\* Lines cut out of the middle leave the others in order, and were not among them.
LEMMA CutMiddle ==
    ASSUME NEW S, NEW a \in Seq(S), NEW x \in Seq(S), NEW r \in Seq(S), NEW y \in Seq(S),
           InOrder((x \o r) \o y, a), Distinct(a)
    PROVE  InOrder(x \o y, a) /\ ToSet(r) \cap (ToSet(x) \cup ToSet(y)) = {}
<1>1. PICK k \in Nat, m \in Nat, n \in Nat : k = Len(x) /\ m = Len(r) /\ n = Len(y)
  BY LenProperties
<1>2. PICK p \in Seq(S), q \in Seq(S) : p = (x \o r) \o y /\ q = x \o y
  BY ConcatProperties
<1>3. /\ DOMAIN x = 1 .. k /\ DOMAIN r = 1 .. m /\ DOMAIN y = 1 .. n
      /\ Len(q) = k + n
      /\ \A i \in 1 .. k + n : q[i] = IF i <= k THEN x[i] ELSE y[i - k]
  BY <1>1, <1>2, LenProperties, ConcatProperties
<1>4. PICK z \in Seq(S) : z = x \o r
  BY ConcatProperties
<1>5. Len(z) = k + m /\ \A i \in 1 .. k + m : z[i] = IF i <= k THEN x[i] ELSE r[i - k]
  BY <1>1, <1>4, ConcatProperties
<1>6. /\ Len(p) = k + m + n
      /\ \A i \in 1 .. k + m + n : p[i] = IF i <= k + m THEN z[i] ELSE y[i - (k + m)]
  BY <1>1, <1>2, <1>4, <1>5, LenProperties, ConcatProperties
<1>7. \A i \in 1 .. k : i \in 1 .. k + m + n /\ p[i] = x[i]
  BY <1>5, <1>6
<1>8. \A i \in 1 .. m : k + i \in 1 .. k + m + n /\ p[k + i] = r[i]
  BY <1>5, <1>6
<1>9. \A i \in 1 .. n : k + m + i \in 1 .. k + m + n /\ p[k + m + i] = y[i]
  <2> SUFFICES ASSUME NEW i \in 1 .. n PROVE k + m + i \in 1 .. k + m + n /\ p[k + m + i] = y[i]
    OBVIOUS
  <2>1. k + m + i \in 1 .. k + m + n /\ ~(k + m + i <= k + m) /\ (k + m + i) - (k + m) = i
    OBVIOUS
  <2>2. QED BY <1>6, <2>1
<1>10. Distinct(p) /\ InOrder(p, a)
  BY <1>2, OrderDistinct
<1>11. InOrder(q, a)
  <2> DEFINE h(i) == IF i <= k THEN i ELSE i + m
  <2>1. \A i \in 1 .. k + n : h(i) \in 1 .. k + m + n /\ p[h(i)] = q[i]
    <3> SUFFICES ASSUME NEW i \in 1 .. k + n PROVE h(i) \in 1 .. k + m + n /\ p[h(i)] = q[i]
      OBVIOUS
    <3>1. CASE i <= k
      BY <1>3, <1>7, <3>1
    <3>2. CASE ~(i <= k)
      <4>1. i - k \in 1 .. n /\ k + m + (i - k) = i + m
        BY <3>2
      <4>2. i + m \in 1 .. k + m + n /\ p[i + m] = y[i - k]
        BY <1>9, <4>1
      <4>3. q[i] = y[i - k]
        BY <1>3, <3>2
      <4>4. QED BY <3>2, <4>2, <4>3
    <3>3. QED BY <3>1, <3>2
  <2>2. \A i, j \in 1 .. k + n : i < j => h(i) < h(j)
    OBVIOUS
  <2> HIDE DEF h
  <2> SUFFICES ASSUME NEW i \in 1 .. Len(q), NEW j \in 1 .. Len(q), i < j
               PROVE  \E u, v \in 1 .. Len(a) : u < v /\ a[u] = q[i] /\ a[v] = q[j]
    BY DEF InOrder
  <2>3. h(i) < h(j) /\ h(i) \in 1 .. Len(p) /\ h(j) \in 1 .. Len(p) /\ p[h(i)] = q[i] /\ p[h(j)] = q[j]
    BY <1>3, <1>6, <2>1, <2>2
  <2>4. QED BY <1>10, <2>3 DEF InOrder
<1>12. ASSUME NEW i \in 1 .. m, NEW j \in 1 .. k PROVE r[i] # x[j]
  <2>1. k + i # j
    OBVIOUS
  <2>2. /\ k + i \in 1 .. Len(p) /\ p[k + i] = r[i]
        /\ j \in 1 .. Len(p) /\ p[j] = x[j]
    BY <1>6, <1>7, <1>8
  <2>3. QED BY <1>10, <2>1, <2>2 DEF Distinct
<1>13. ASSUME NEW i \in 1 .. m, NEW j \in 1 .. n PROVE r[i] # y[j]
  <2>1. k + i # k + m + j
    OBVIOUS
  <2>2. QED BY <1>6, <1>8, <1>9, <1>10, <2>1 DEF Distinct
<1>14. ToSet(r) \cap (ToSet(x) \cup ToSet(y)) = {}
  BY <1>3, <1>12, <1>13 DEF ToSet
<1>15. QED BY <1>2, <1>11, <1>14

-----------------------------------------------------------------------------
(* The lines, in a program that does not log or stop while a stop is going on. *)

\* Such a program appends only to a backend that runs.
LEMMA LifeStep ==
    ASSUME ~Racy, TypeOK, LifeInv, [Next]_vars
    PROVE  LifeInv'
<1> USE DEF TypeOK
<1>1. ASSUME NEW t \in Threads, NEW pc, tpc' = [tpc EXCEPT ![t] = pc]
      PROVE  tpc'[t] = pc /\ \A u \in Threads : u # t => tpc'[u] = tpc[u]
  BY <1>1
<1>2. ASSUME NEW t \in Threads, InitLogger(t) PROVE LifeInv'
  <2>1. /\ \A u \in Threads : tpc[u] = "idle"
        /\ running' = TRUE /\ started' = TRUE /\ bpc' = "top" /\ terminating' = FALSE /\ tpc' = tpc
    BY <1>2 DEF InitLogger, MayStop
  <2>2. QED BY <2>1 DEF LifeInv, Stopping, Stops, Looping
<1>3. ASSUME NEW t \in Threads, NEW l \in Lines, AppendBegin(t, l) PROVE LifeInv'
  <2>1. ~Stopping /\ UNCHANGED <<started, running, terminating, bpc>>
    BY <1>3 DEF AppendBegin, MayLog, flags, backend
  <2>2. CASE tpc' = tpc
    BY <2>1, <2>2 DEF LifeInv, Stopping
  <2>3. CASE started /\ ~terminating /\ tpc' = [tpc EXCEPT ![t] = "append"]
    <3>1. tpc'[t] = "append" /\ \A u \in Threads : u # t => tpc'[u] = tpc[u]
      BY <1>1, <2>3
    <3>2. running /\ bpc \in Looping
      BY <2>1, <2>3 DEF LifeInv
    <3>3. \A u \in Threads : tpc'[u] \notin Stops
      BY <2>1, <3>1 DEF Stopping, Stops
    <3>4. QED BY <2>1, <2>3, <3>2, <3>3 DEF LifeInv, Stopping, Stops
  <2>4. QED BY <1>3, <2>2, <2>3 DEF AppendBegin
<1>4. ASSUME NEW t \in Threads, AppendLocked(t) PROVE LifeInv'
  <2>1. running /\ started /\ ~terminating /\ bpc \in Looping /\ UNCHANGED <<started, running, terminating, bpc>>
    BY <1>4 DEF AppendLocked, LifeInv, flags, backend
  <2>2. \A u \in Threads : tpc[u] \notin Stops
    BY <2>1 DEF LifeInv, Stopping
  <2>3. PICK pc \in {"idle", "crashed"} : tpc' = [tpc EXCEPT ![t] = pc]
    BY <1>4 DEF AppendLocked
  <2>4. \A u \in Threads : tpc'[u] \notin Stops
    BY <1>1, <2>2, <2>3 DEF Stops
  <2>5. QED BY <2>1, <2>4 DEF LifeInv, Stopping, Stops
<1>5. ASSUME NEW t \in Threads, NEW pc \in Stops, MayStop(t), StopAs(t, pc), terminating' \in BOOLEAN,
             pc = "exitJoin" => terminating'
      PROVE  LifeInv'
  <2>1. /\ \A u \in Threads : tpc[u] = "idle"
        /\ running' = FALSE /\ tpc' = [tpc EXCEPT ![t] = pc]
    BY <1>5 DEF MayStop, StopAs
  <2>2. tpc'[t] = pc /\ \A u \in Threads : u # t => tpc'[u] = "idle"
    BY <1>1, <2>1
  <2>3. QED BY <1>5, <2>1, <2>2 DEF LifeInv, Stopping, Stops
<1>6. ASSUME NEW t \in Threads, Shutdown(t) PROVE LifeInv'
  BY <1>5, <1>6 DEF Shutdown, Stops
<1>7. ASSUME NEW t \in Threads, FlushAndStop(t) PROVE LifeInv'
  BY <1>5, <1>7 DEF FlushAndStop, Stops
<1>8. ASSUME NEW t \in Threads, Destroy(t) PROVE LifeInv'
  <2>1. CASE started
    BY <1>5, <1>8, <2>1 DEF Destroy, Stops
  <2>2. CASE ~started
    BY <1>8, <2>2 DEF Destroy, LifeInv, Stopping, Stops, backend
  <2>3. QED BY <2>1, <2>2
<1>9. ASSUME NEW t \in Threads, Joined(t) PROVE LifeInv'
  <2>1. /\ tpc[t] \in Stops /\ ~running /\ running' = FALSE /\ terminating' = terminating
        /\ \A u \in Threads : u # t => tpc[u] = "idle"
        /\ started' = IF tpc[t] = "exitJoin" THEN started ELSE FALSE
    BY <1>9 DEF Joined, LifeInv, Stopping
  <2>2. PICK pc \in {"idle", "aborted"} : tpc' = [tpc EXCEPT ![t] = pc]
    BY <1>9 DEF Joined
  <2>3. \A u \in Threads : tpc'[u] \in {"idle", "aborted"}
    BY <1>1, <2>1, <2>2
  <2>4. started' => terminating'
    BY <2>1 DEF LifeInv
  <2>5. QED BY <2>1, <2>3, <2>4 DEF LifeInv, Stopping, Stops
<1>10. CASE Backend
  <2>1. UNCHANGED <<started, running, terminating, tpc>>
    BY <1>10 DEF Backend, LoopTop, LockAndTest, WaitEnds, WriteOut, Recycle, FinalLock, FinalDrain,
                 SwapOut, flags
  <2>2. running /\ bpc \in Looping => bpc' \in Looping
    BY <1>10 DEF Backend, LoopTop, LockAndTest, WaitEnds, WriteOut, Recycle, FinalLock, FinalDrain,
                 SwapOut, Looping
  <2>3. QED BY <2>1, <2>2 DEF LifeInv, Stopping
<1>11. CASE UNCHANGED vars
  BY <1>11 DEF vars, LifeInv, Stopping
<1>12. QED BY <1>2, <1>3, <1>4, <1>6, <1>7, <1>8, <1>9, <1>10, <1>11 DEF Next

\* What the backend leaves behind: when a stop may return, all is on disk.
LEMMA EmptyStep ==
    ASSUME SpareInv, LifeInv, EmptyInv, [Next]_vars
    PROVE  EmptyInv'
<1>1. ASSUME NEW t \in Threads, InitLogger(t) PROVE EmptyInv'
  BY <1>1 DEF InitLogger, EmptyInv
<1>2. ASSUME NEW t \in Threads, AppendLocked(t) PROVE EmptyInv'
  BY <1>2 DEF AppendLocked, LifeInv, EmptyInv, Looping, backend
<1>3. ASSUME NEW t \in Threads, Joined(t) PROVE EmptyInv'
  BY <1>3 DEF Joined, EmptyInv
<1>4. CASE /\ \/ \E t \in Threads : Shutdown(t) \/ FlushAndStop(t) \/ Destroy(t)
              \/ \E t \in Threads, l \in Lines : AppendBegin(t, l)
              \/ UNCHANGED vars
  <2>1. UNCHANGED <<bpc, current, buffers, disk, file>>
    BY <1>4 DEF Shutdown, FlushAndStop, Destroy, StopAs, AppendBegin, vars, backend
  <2>2. QED BY <2>1 DEF EmptyInv
<1>5. CASE Backend
  <2>1. CASE LoopTop \/ LockAndTest \/ WaitEnds \/ WriteOut \/ Recycle
    <3>1. bpc' \in Looping \cup {"final"}
      BY <2>1 DEF LoopTop, LockAndTest, WaitEnds, WriteOut, Recycle, SwapOut, Looping
    <3>2. QED BY <3>1 DEF EmptyInv, Looping
  <2>2. CASE FinalLock
    BY <2>2 DEF FinalLock, EmptyInv
  <2>3. CASE FinalDrain
    BY <2>3 DEF FinalDrain, EmptyInv
  <2>4. QED BY <1>5, <2>1, <2>2, <2>3 DEF Backend
<1>6. QED BY <1>1, <1>2, <1>3, <1>4, <1>5 DEF Next

\* What a step may do to the lines under way: one more is accepted, none is
\* touched, or some are cut out of the middle and counted as dropped.
Accepts(x) ==
    /\ x \notin ToSet(accepted) \cup dropped
    /\ accepted' = Append(accepted, x) /\ Pipeline' = Append(Pipeline, x) /\ dropped' = dropped
Keeps == accepted' = accepted /\ Pipeline' = Pipeline /\ dropped' = dropped
Cuts(x, r, y) ==
    /\ accepted' = accepted /\ Pipeline = (x \o r) \o y /\ Pipeline' = x \o y
    /\ \E k \in SUBSET ToSet(x) : dropped' = dropped \cup (ToSet(r) \ k)

\* Where a row of lines is cut in two does not matter.
LEMMA LinesInARow == \A a, b, c \in Seq(Lines) : (a \o b) \o c = a \o (b \o c)
<1> TAKE a, b, c \in Seq(Lines)
<1> QED BY ConcatAssociative

\* A row of lines with some in the middle, and without them.
Middle(f, u, r, q, c) ==
    /\ ((f \o (u \o r)) \o q) \o c = ((f \o u) \o r) \o (q \o c)
    /\ (((f \o u) \o <<>>) \o q) \o c = (f \o u) \o (q \o c)

\* It does not matter how the row is put together.
LEMMA RowWithMiddle ==
    ASSUME NEW f \in Seq(Lines), NEW u \in Seq(Lines), NEW r \in Seq(Lines),
           NEW q \in Seq(Lines), NEW c \in Seq(Lines)
    PROVE  Middle(f, u, r, q, c)
<1>1. f \o (u \o r) = (f \o u) \o r
  BY LinesInARow, Zenon
<1>2. PICK x \in Seq(Lines) : x = f \o u
  BY ConcatProperties
<1>3. PICK z \in Seq(Lines) : z = x \o r
  BY ConcatProperties
<1>4. (z \o q) \o c = z \o (q \o c)
  BY LinesInARow, Zenon
<1>5. (x \o q) \o c = x \o (q \o c)
  BY LinesInARow, Zenon
<1>6. x \o <<>> = x
  BY ConcatEmptySeq
<1>7. QED BY <1>1, <1>2, <1>3, <1>4, <1>5, <1>6, Zenon DEF Middle

\* The parts of the pipeline are sequences of lines.
LEMMA PartsOfPipeline ==
    ASSUME TypeOK
    PROVE  /\ file \in Seq(Lines) /\ FlattenSeq(buffers) \in Seq(Lines) /\ FlattenSeq(toWrite) \in Seq(Lines)
           /\ current # Null => current \in Seq(Lines)
           /\ Pipeline \in Seq(Lines)
<1>1. buffers \in Seq(Seq(Lines)) /\ toWrite \in Seq(Seq(Lines)) /\ (current # Null => current \in Seq(Lines))
  BY BuffersAreShort DEF TypeOK
<1>2. FlattenSeq(buffers) \in Seq(Lines) /\ FlattenSeq(toWrite) \in Seq(Lines) /\ file \in Seq(Lines)
  BY <1>1, FlattenAppend, EmptySeq DEF TypeOK
<1>3. PICK p \in Seq(Lines) : p = IF bpc = "write" THEN FlattenSeq(toWrite) ELSE <<>>
  BY <1>2, EmptySeq
<1>4. PICK c \in Seq(Lines) : c = IF current = Null THEN <<>> ELSE current
  BY <1>1, EmptySeq
<1>5. Pipeline = ((file \o p) \o FlattenSeq(buffers)) \o c
  BY <1>3, <1>4 DEF Pipeline
<1>6. file \o p \in Seq(Lines)
  BY <1>2, ConcatProperties
<1>7. (file \o p) \o FlattenSeq(buffers) \in Seq(Lines)
  BY <1>2, <1>6, ConcatProperties
<1>8. Pipeline \in Seq(Lines)
  BY <1>5, <1>7, ConcatProperties
<1>9. QED BY <1>1, <1>2, <1>8

\* append() under the lock puts its line behind all others.
LEMMA AppendAccepts ==
    ASSUME BufferInv, LifeInv, HistoryInv, NEW t \in Threads, AppendLocked(t)
    PROVE  \E x \in Lines : Accepts(x)
<1> USE DEF BufferInv
<1>1. /\ line[t] \in Lines /\ line[t] \notin ToSet(accepted) \cup dropped
      /\ bpc' = bpc /\ file' = file /\ toWrite' = toWrite /\ dropped' = dropped
      /\ bpc \in Looping /\ current # Null
  BY DEF AppendLocked, LineInv, LifeInv, HistoryInv, SpareInv, backend
<1>2. PICK x \in Lines : x = line[t]
  BY <1>1
<1>3. /\ accepted' = Append(accepted, x)
      /\ \/ current' = Append(current, x) /\ buffers' = buffers
         \/ buffers' = Append(buffers, current) /\ current' = <<x>>
  BY <1>1, <1>2 DEF AppendLocked
<1>4. PICK p \in Seq(Lines) : p = IF bpc = "write" THEN FlattenSeq(toWrite) ELSE <<>>
  BY PartsOfPipeline, EmptySeq
<1>5. PICK f \in Seq(Lines) : f = file \o p
  BY PartsOfPipeline, ConcatProperties
<1>6. PICK q \in Seq(Lines), c \in Seq(Lines) : q = FlattenSeq(buffers) /\ c = current
  BY <1>1, PartsOfPipeline
<1>7. Pipeline = (f \o q) \o c
  BY <1>1, <1>4, <1>5, <1>6 DEF Pipeline
<1>8. f \o q \in Seq(Lines) /\ (f \o q) \o c \in Seq(Lines)
  BY ConcatProperties
<1>9. Pipeline' = Append(Pipeline, x)
  <2>1. CASE current' = Append(current, x) /\ buffers' = buffers
    <3>1. Append(c, x) # Null
      <4>1. current' \in Buffers \cup {Null}
        BY AppendKeepsBuffers DEF TypeOK
      <4>2. current' # Null
        BY <1>1, AppendKeepsBuffers DEF SpareInv
      <4>3. QED BY <1>6, <2>1, <4>2
    <3>2. Pipeline' = (f \o q) \o Append(c, x)
      BY <1>1, <1>4, <1>5, <1>6, <2>1, <3>1 DEF Pipeline
    <3>3. (f \o q) \o Append(c, x) = Append((f \o q) \o c, x)
      <4>1. PICK d \in Seq(Lines) : d = f \o q
        BY <1>8
      <4>2. <<x>> \in Seq(Lines) /\ Append(c, x) = c \o <<x>> /\ Append(d \o c, x) = (d \o c) \o <<x>>
        BY <1>8, <4>1, AppendIsConcat
      <4>3. (d \o c) \o <<x>> = d \o (c \o <<x>>)
        BY <4>2, LinesInARow, Zenon
      <4>4. QED BY <4>1, <4>2, <4>3
    <3>4. QED BY <1>7, <3>2, <3>3
  <2>2. CASE buffers' = Append(buffers, current) /\ current' = <<x>>
    <3>1. current' # Null
      BY <1>1, AppendKeepsBuffers DEF SpareInv
    <3>2. FlattenSeq(buffers') = q \o c
      <4>1. buffers \in Seq(Seq(Lines)) /\ current \in Seq(Lines)
        BY <1>6, BuffersAreShort DEF TypeOK
      <4>2. QED BY <1>6, <2>2, <4>1, FlattenAppend
    <3>3. Pipeline' = (f \o (q \o c)) \o <<x>>
      BY <1>1, <1>4, <1>5, <2>2, <3>1, <3>2 DEF Pipeline
    <3>4. f \o (q \o c) = (f \o q) \o c
      BY LinesInARow, Zenon
    <3>5. Append((f \o q) \o c, x) = ((f \o q) \o c) \o <<x>>
      BY <1>8, AppendIsConcat
    <3>6. QED BY <1>7, <3>3, <3>4, <3>5
  <2>3. QED BY <1>3, <2>1, <2>2
<1>10. Accepts(x)
  BY <1>1, <1>2, <1>3, <1>9 DEF Accepts
<1>11. QED BY <1>10

\* Swapping the buffers out moves no line past another.
LEMMA SwapKeepsLines ==
    ASSUME BufferInv, bpc \in {"lock", "wait"}, SwapOut
    PROVE  Keeps
<1> USE DEF BufferInv
<1>1. /\ newBuf1 /\ current # Null
  BY DEF SpareInv, Looping
<1>2. /\ toWrite' = Append(buffers, current) /\ buffers' = <<>> /\ current' = <<>> /\ bpc' = "write"
      /\ UNCHANGED <<file, accepted, dropped>>
  BY <1>1 DEF SwapOut
<1>3. PICK f \in Seq(Lines), q \in Seq(Lines), c \in Seq(Lines) :
         f = file /\ q = FlattenSeq(buffers) /\ c = current
  BY <1>1, PartsOfPipeline
<1>4. Pipeline = ((f \o <<>>) \o q) \o c
  BY <1>1, <1>3 DEF Pipeline
<1>5. FlattenSeq(toWrite') = q \o c /\ FlattenSeq(buffers') = <<>>
  <2>1. buffers \in Seq(Seq(Lines)) /\ current \in Seq(Lines)
    BY <1>3, BuffersAreShort DEF TypeOK
  <2>2. QED BY <1>2, <1>3, <2>1, FlattenAppend, FlattenEmpty
<1>6. current' # Null
  BY <1>2, BuffersAreShort, NullAssumption
<1>7. Pipeline' = ((f \o (q \o c)) \o <<>>) \o <<>>
  BY <1>2, <1>3, <1>5, <1>6 DEF Pipeline
<1>8. PICK d \in Seq(Lines) : d = f \o (q \o c)
  BY ConcatProperties
<1>9. (d \o <<>>) \o <<>> = d /\ f \o <<>> = f
  BY ConcatEmptySeq
<1>10. (f \o q) \o c = f \o (q \o c)
  BY LinesInARow, Zenon
<1>11. QED BY <1>2, <1>4, <1>7, <1>8, <1>9, <1>10 DEF Keeps

\* A round writes what it took, or the first two buffers of it.
LEMMA WriteKeepsOrCuts ==
    ASSUME BufferInv, WriteOut
    PROVE  Keeps \/ \E x, r, y \in Seq(Lines) : Cuts(x, r, y)
<1> USE DEF BufferInv
<1>1. PICK k : /\ k = IF Len(toWrite) > Backlog THEN SubSeq(toWrite, 1, 2) ELSE toWrite
               /\ toWrite' = k /\ file' = file \o FlattenSeq(k)
               /\ dropped' = dropped \cup (ToSet(FlattenSeq(toWrite)) \ ToSet(FlattenSeq(k)))
  BY DEF WriteOut
<1>2. bpc = "write" /\ bpc' = "recycle" /\ UNCHANGED <<current, buffers, accepted>>
  BY DEF WriteOut
<1>3. PICK f \in Seq(Lines), q \in Seq(Lines) : f = file /\ q = FlattenSeq(buffers)
  BY PartsOfPipeline
<1>4. PICK c \in Seq(Lines) : c = IF current = Null THEN <<>> ELSE current
  BY PartsOfPipeline, EmptySeq
<1>5. PICK w \in Seq(Lines) : w = FlattenSeq(toWrite)
  BY PartsOfPipeline
<1>6. Pipeline = ((f \o w) \o q) \o c
  BY <1>2, <1>3, <1>4, <1>5 DEF Pipeline
<1>7. Pipeline' = (((f \o FlattenSeq(k)) \o <<>>) \o q) \o c
  BY <1>1, <1>2, <1>3, <1>4 DEF Pipeline
<1>8. CASE k = toWrite
  <2>1. PICK d \in Seq(Lines) : d = f \o w
    BY ConcatProperties
  <2>2. d \o <<>> = d
    BY ConcatEmptySeq
  <2>3. Pipeline' = Pipeline
    BY <1>5, <1>6, <1>7, <1>8, <2>1, <2>2
  <2>4. dropped' = dropped
    BY <1>1, <1>8
  <2>5. QED BY <1>2, <2>3, <2>4 DEF Keeps
<1>9. CASE k # toWrite
  <2>1. Len(toWrite) > Backlog /\ k = SubSeq(toWrite, 1, 2)
    BY <1>1, <1>9
  <2>2. PICK s \in Seq(Seq(Lines)) : s = toWrite
    BY BuffersAreShort DEF TypeOK
  <2>3. PICK n \in Nat : n = Len(s) /\ n >= 2
    BY <2>1, <2>2, LenProperties, LoggerAssumption
  <2>4. PICK a \in Seq(Seq(Lines)), b \in Seq(Seq(Lines)) : a = k /\ s = a \o b
    <3>1. \A i \in 1 .. n : s[i] \in Seq(Lines)
      BY <2>3, ElementOfSeq
    <3>2. SubSeq(s, 1, 2) \in Seq(Seq(Lines)) /\ SubSeq(s, 3, n) \in Seq(Seq(Lines))
      <4>1. \A i \in 1 .. 2 : s[i] \in Seq(Lines)
        BY <2>3, <3>1
      <4>2. \A i \in 3 .. n : s[i] \in Seq(Lines)
        BY <2>3, <3>1
      <4>3. SubSeq(s, 1, 2) \in Seq(Seq(Lines))
        BY <4>1, SubSeqProperties
      <4>4. SubSeq(s, 3, n) \in Seq(Seq(Lines))
        BY <4>2, SubSeqProperties
      <4>5. QED BY <4>3, <4>4
    <3>3. SubSeq(s, 1, 2) \o SubSeq(s, 3, n) = SubSeq(s, 1, n)
      <4>1. 1 \in 1 .. Len(s) + 1 /\ 2 \in 1 - 1 .. Len(s) /\ n \in 2 .. Len(s) /\ 2 + 1 = 3
        BY <2>3
      <4>2. QED BY <4>1, ConcatAdjacentSubSeq
    <3>4. SubSeq(s, 1, n) = s
      BY <2>3, SubSeqFull
    <3>5. QED BY <2>1, <2>2, <3>2, <3>3, <3>4
  <2>5. PICK u \in Seq(Lines), r \in Seq(Lines) : u = FlattenSeq(a) /\ r = FlattenSeq(b)
    BY FlattenAppend, EmptySeq
  <2>6. w = u \o r
    BY <1>5, <2>2, <2>4, <2>5, FlattenConcat
  <2>7. PICK x \in Seq(Lines), y \in Seq(Lines) : x = f \o u /\ y = q \o c
    BY ConcatProperties
  <2>8. Pipeline = (x \o r) \o y /\ Pipeline' = x \o y
    <3>1. Middle(f, u, r, q, c)
      BY RowWithMiddle
    <3>2. /\ ((f \o (u \o r)) \o q) \o c = ((f \o u) \o r) \o (q \o c)
          /\ (((f \o u) \o <<>>) \o q) \o c = (f \o u) \o (q \o c)
      BY <3>1 DEF Middle
    <3>3. FlattenSeq(k) = u
      BY <2>4, <2>5
    <3>4. Pipeline = (x \o r) \o y
      BY <1>6, <2>6, <2>7, <3>2, Zenon
    <3>5. Pipeline' = x \o y
      BY <1>7, <2>7, <3>2, <3>3, Zenon
    <3>6. QED BY <3>4, <3>5
  <2>9. ToSet(w) = ToSet(u) \cup ToSet(r) /\ ToSet(x) = ToSet(f) \cup ToSet(u)
    BY <2>6, <2>7, ConcatToSet
  <2>10. dropped' = dropped \cup (ToSet(r) \ ToSet(u)) /\ ToSet(u) \in SUBSET ToSet(x)
    <3>1. dropped' = dropped \cup (ToSet(w) \ ToSet(u))
      BY <1>1, <1>5, <2>4, <2>5
    <3>2. QED BY <2>9, <3>1
  <2>11. Cuts(x, r, y)
    BY <1>2, <2>8, <2>10 DEF Cuts
  <2>12. QED BY <2>11
<1>10. QED BY <1>8, <1>9

\* Leaving the loop, the backend moves no line past another.
LEMMA FinalKeepsLines ==
    ASSUME BufferInv, FinalLock \/ FinalDrain
    PROVE  Keeps
<1> USE DEF BufferInv
<1>1. PICK f \in Seq(Lines), q \in Seq(Lines) : f = file /\ q = FlattenSeq(buffers)
  BY PartsOfPipeline
<1>2. PICK c \in Seq(Lines) : c = IF current = Null THEN <<>> ELSE current
  BY PartsOfPipeline, EmptySeq
<1>3. bpc # "write" /\ bpc' # "write" /\ accepted' = accepted /\ dropped' = dropped
  BY DEF FinalLock, FinalDrain
<1>4. Pipeline = ((f \o <<>>) \o q) \o c
  BY <1>1, <1>2, <1>3 DEF Pipeline
<1>5. CASE FinalLock
  <2>1. CASE current \in {Null, <<>>}
    <3>1. UNCHANGED <<current, buffers, file>>
      BY <1>5, <2>1 DEF FinalLock
    <3>2. QED BY <1>3, <3>1 DEF Keeps, Pipeline
  <2>2. CASE current \notin {Null, <<>>}
    <3>1. buffers' = Append(buffers, current) /\ current' = Null /\ file' = file
      BY <1>5, <2>2 DEF FinalLock
    <3>2. FlattenSeq(buffers') = q \o c
      <4>1. buffers \in Seq(Seq(Lines)) /\ current = c
        BY <1>2, <2>2, BuffersAreShort DEF TypeOK
      <4>2. QED BY <1>1, <3>1, <4>1, FlattenAppend
    <3>3. Pipeline' = ((f \o <<>>) \o (q \o c)) \o <<>>
      BY <1>1, <1>3, <3>1, <3>2 DEF Pipeline
    <3>4. f \o <<>> = f /\ (f \o q) \o c = f \o (q \o c)
      <4>1. (f \o q) \o c = f \o (q \o c)
        BY LinesInARow, Zenon
      <4>2. QED BY <4>1, ConcatEmptySeq
    <3>5. PICK d \in Seq(Lines) : d = f \o (q \o c)
      BY ConcatProperties
    <3>6. d \o <<>> = d
      BY ConcatEmptySeq
    <3>7. Pipeline' = Pipeline
      BY <1>4, <3>3, <3>4, <3>5, <3>6, Zenon
    <3>8. QED BY <1>3, <3>7 DEF Keeps
  <2>3. QED BY <2>1, <2>2
<1>6. CASE FinalDrain
  <2>1. file' = file \o FlattenSeq(buffers) /\ buffers' = <<>> /\ current' = current
    BY <1>6 DEF FinalDrain
  <2>2. Pipeline' = (((f \o q) \o <<>>) \o <<>>) \o c
    BY <1>1, <1>2, <1>3, <2>1, FlattenEmpty DEF Pipeline
  <2>3. PICK d \in Seq(Lines) : d = f \o q
    BY ConcatProperties
  <2>4. d \o <<>> = d /\ f \o <<>> = f
    BY ConcatEmptySeq
  <2>5. Pipeline' = Pipeline
    BY <1>4, <2>2, <2>3, <2>4, Zenon
  <2>6. QED BY <1>3, <2>5 DEF Keeps
<1>7. QED BY <1>5, <1>6

\* What any step does to the lines under way.
LEMMA StepOfLines ==
    ASSUME BufferInv, FlowInv, [Next]_vars
    PROVE  \/ \E x \in Lines : Accepts(x)
           \/ Keeps
           \/ \E x, r, y \in Seq(Lines) : Cuts(x, r, y)
<1> USE DEF FlowInv
<1>1. ASSUME NEW t \in Threads, InitLogger(t) PROVE Keeps
  <2>1. /\ bpc = "off" /\ current' = <<>> /\ bpc' = "top"
        /\ UNCHANGED <<buffers, file, accepted, dropped>>
    BY <1>1 DEF InitLogger, BufferInv, SpareInv
  <2>2. current \in {Null, <<>>}
    BY <2>1 DEF EmptyInv
  <2>3. <<>> # Null
    BY BuffersAreShort, NullAssumption
  <2>4. QED BY <2>1, <2>2, <2>3 DEF Keeps, Pipeline
<1>2. ASSUME NEW t \in Threads, AppendLocked(t) PROVE \E x \in Lines : Accepts(x)
  BY <1>2, AppendAccepts
<1>3. CASE \/ \E t \in Threads : Shutdown(t) \/ FlushAndStop(t) \/ Destroy(t)
           \/ \E t \in Threads, l \in Lines : AppendBegin(t, l)
           \/ UNCHANGED vars
  <2>1. UNCHANGED <<bpc, current, buffers, toWrite, file, accepted, dropped>>
    BY <1>3 DEF Shutdown, FlushAndStop, Destroy, StopAs, AppendBegin, vars, backend
  <2>2. QED BY <2>1 DEF Keeps, Pipeline
<1>4. CASE \/ \E t \in Threads : Joined(t)
           \/ LoopTop \/ Recycle \/ (LockAndTest /\ ~SwapOut)
  <2>1. bpc # "write" /\ bpc' # "write" /\ UNCHANGED <<current, buffers, file, accepted, dropped>>
    BY <1>4 DEF Joined, LoopTop, Recycle, LockAndTest
  <2>2. QED BY <2>1 DEF Keeps, Pipeline
<1>5. CASE (LockAndTest /\ SwapOut) \/ WaitEnds
  BY <1>5, SwapKeepsLines DEF LockAndTest, WaitEnds
<1>6. CASE WriteOut
  BY <1>6, WriteKeepsOrCuts
<1>7. CASE FinalLock \/ FinalDrain
  BY <1>7, FinalKeepsLines
<1>8. QED BY <1>1, <1>2, <1>3, <1>4, <1>5, <1>6, <1>7, Zenon DEF Next, Backend

\* Whatever a step does to the lines under way, none is lost and the order stays.
LEMMA LinesStep ==
    ASSUME BufferInv, FlowInv, [Next]_vars
    PROVE  NoLineLost' /\ dropped' \subseteq ToSet(accepted')
<1>1. /\ accepted \in Seq(Lines) /\ dropped \subseteq ToSet(accepted) /\ Distinct(accepted)
  BY DEF BufferInv, TypeOK, FlowInv, HistoryInv, LineInv, Distinct
<1>2. Pipeline \in Seq(Lines)
  BY PartsOfPipeline DEF BufferInv
<1>3. ToSet(Pipeline) = ToSet(accepted) \ dropped /\ InOrder(Pipeline, accepted)
  BY DEF FlowInv, NoLineLost, InOrder
<1>4. SUFFICES /\ ToSet(Pipeline') = ToSet(accepted') \ dropped' /\ InOrder(Pipeline', accepted')
               /\ dropped' \subseteq ToSet(accepted')
  BY DEF NoLineLost, InOrder
<1>5. ASSUME NEW x \in Lines, Accepts(x)
      PROVE  /\ ToSet(Pipeline') = ToSet(accepted') \ dropped' /\ InOrder(Pipeline', accepted')
             /\ dropped' \subseteq ToSet(accepted')
  <2>1. ToSet(Pipeline') = ToSet(Pipeline) \cup {x} /\ ToSet(accepted') = ToSet(accepted) \cup {x}
    BY <1>1, <1>2, <1>5, AppendToSet DEF Accepts
  <2>2. InOrder(Append(Pipeline, x), Append(accepted, x))
    BY <1>1, <1>2, <1>3, OrderAppend
  <2>3. InOrder(Pipeline', accepted') /\ dropped' = dropped /\ x \notin dropped
    BY <1>5, <2>2 DEF Accepts
  <2>4. QED BY <1>1, <1>3, <2>1, <2>3
<1>6. ASSUME Keeps
      PROVE  /\ ToSet(Pipeline') = ToSet(accepted') \ dropped' /\ InOrder(Pipeline', accepted')
             /\ dropped' \subseteq ToSet(accepted')
  BY <1>1, <1>3, <1>6 DEF Keeps
<1>7. ASSUME NEW x \in Seq(Lines), NEW r \in Seq(Lines), NEW y \in Seq(Lines), Cuts(x, r, y)
      PROVE  /\ ToSet(Pipeline') = ToSet(accepted') \ dropped' /\ InOrder(Pipeline', accepted')
             /\ dropped' \subseteq ToSet(accepted')
  <2>1. /\ accepted' = accepted /\ Pipeline = (x \o r) \o y /\ Pipeline' = x \o y
    BY <1>7 DEF Cuts
  <2>2. PICK k \in SUBSET ToSet(x) : dropped' = dropped \cup (ToSet(r) \ k)
    BY <1>7 DEF Cuts
  <2>3. InOrder((x \o r) \o y, accepted)
    BY <1>3, <2>1
  <2>4. InOrder(x \o y, accepted) /\ ToSet(r) \cap (ToSet(x) \cup ToSet(y)) = {}
    BY <1>1, <2>3, CutMiddle
  <2>5. PICK z \in Seq(Lines) : z = x \o r /\ ToSet(z) = ToSet(x) \cup ToSet(r)
    BY ConcatToSet
  <2>6. ToSet(z \o y) = ToSet(z) \cup ToSet(y)
    BY ConcatToSet
  <2>7. ToSet(x \o y) = ToSet(x) \cup ToSet(y)
    BY ConcatToSet
  <2>8. dropped' = dropped \cup ToSet(r)
    BY <2>2, <2>4
  <2>9. ToSet(Pipeline) = ToSet(x) \cup ToSet(r) \cup ToSet(y)
    BY <2>1, <2>5, <2>6
  <2>10. ToSet(Pipeline') = ToSet(x) \cup ToSet(y) /\ InOrder(Pipeline', accepted')
    BY <2>1, <2>4, <2>7
  <2>11. ToSet(r) \subseteq ToSet(accepted)
    BY <1>3, <2>9
  <2>12. ToSet(accepted') = ToSet(accepted)
    BY <2>1
  <2>13. ToSet(Pipeline') = ToSet(accepted) \ dropped'
    BY <1>3, <2>4, <2>8, <2>9, <2>10
  <2>14. QED BY <1>1, <2>8, <2>10, <2>11, <2>12, <2>13
<1>8. QED BY <1>5, <1>6, <1>7, StepOfLines

\* A step keeps the whole of it.
LEMMA FlowStep == ~Racy => (BufferInv /\ FlowInv /\ [Next]_vars => FlowInv')
<1> SUFFICES ASSUME ~Racy, BufferInv, FlowInv, [Next]_vars PROVE FlowInv'
  OBVIOUS
<1>1. LifeInv'
  BY LifeStep DEF BufferInv, FlowInv
<1>2. EmptyInv'
  BY EmptyStep DEF BufferInv, FlowInv
<1>3. NoLineLost' /\ dropped' \subseteq ToSet(accepted')
  BY LinesStep
<1>4. ToSet(accepted) \subseteq ToSet(accepted')
  <2>1. ASSUME NEW x \in Lines, Accepts(x) PROVE ToSet(accepted) \subseteq ToSet(accepted')
    BY <2>1, AppendToSet DEF Accepts, BufferInv, TypeOK
  <2>2. accepted' = accepted => ToSet(accepted) \subseteq ToSet(accepted')
    OBVIOUS
  <2>3. QED BY <2>1, <2>2, StepOfLines DEF Keeps, Cuts
<1>5. owed' \in {owed, ToSet(accepted)}
  <2>1. CASE \E t \in Threads : Shutdown(t) \/ FlushAndStop(t) \/ Destroy(t)
    BY <2>1 DEF Shutdown, FlushAndStop, Destroy, StopAs
  <2>2. CASE \/ \E t \in Threads : InitLogger(t) \/ AppendLocked(t) \/ Joined(t)
             \/ \E t \in Threads, l \in Lines : AppendBegin(t, l)
             \/ UNCHANGED vars
    BY <2>2 DEF InitLogger, AppendLocked, Joined, AppendBegin, vars
  <2>3. CASE Backend
    BY <2>3 DEF Backend, LoopTop, LockAndTest, WaitEnds, WriteOut, Recycle, FinalLock, FinalDrain,
                SwapOut
  <2>4. QED BY <2>1, <2>2, <2>3 DEF Next
<1>6. owed \subseteq ToSet(accepted)
  BY DEF FlowInv, HistoryInv
<1>7. HistoryInv'
  BY <1>3, <1>4, <1>5, <1>6 DEF HistoryInv
<1>8. QED BY <1>1, <1>2, <1>3, <1>7 DEF FlowInv

\* Before the first init() nothing is under way.
LEMMA InitFlow == Init => FlowInv
<1> SUFFICES ASSUME Init PROVE FlowInv
  OBVIOUS
<1>1. LifeInv /\ EmptyInv
  BY DEF Init, LifeInv, EmptyInv, Stopping, Stops
<1>2. HistoryInv
  BY DEF Init, HistoryInv
<1>3. Pipeline = <<>> /\ accepted = <<>> /\ dropped = {}
  <2>1. <<>> \o <<>> = <<>>
    BY ConcatEmptySeq, EmptySeq
  <2>2. QED BY <2>1, FlattenEmpty DEF Init, Pipeline
<1>4. Len(<<>>) = 0 /\ ToSet(<<>>) = {}
  BY EmptySeq DEF ToSet
<1>5. NoLineLost
  BY <1>3, <1>4 DEF NoLineLost
<1>6. QED BY <1>1, <1>2, <1>5 DEF FlowInv

\* A program that does not log or stop while a stop is going on loses no line: each
\* accepted line is in a buffer, with the backend, in the file or was dropped, once
\* and in order, for any number of threads, lines, buffers and restarts.
THEOREM LinesKept ==
    ASSUME ~Racy
    PROVE  Spec => []NoLineLost
<1>1. BufferInv /\ FlowInv /\ [Next]_vars => FlowInv'
  BY FlowStep
<1>2. FlowInv => NoLineLost
  BY DEF FlowInv
<1>3. QED BY BuffersInvariant, InitFlow, <1>1, <1>2, PTL DEF Spec

\* In such a program a stop returns only when every line accepted before it was
\* called is on disk, or was dropped by the backpressure limit.
THEOREM StopsFlush ==
    ASSUME ~Racy
    PROVE  Spec => StopFlushes
<1>1. BufferInv /\ FlowInv /\ [Next]_vars => FlowInv'
  BY FlowStep
<1>2. BufferInv /\ FlowInv /\ [Next]_vars =>
         [\A t \in Threads : tpc[t] \in Stops /\ tpc'[t] \notin Stops =>
              owed \subseteq ToSet(disk) \cup dropped]_vars
  <2> SUFFICES ASSUME BufferInv, FlowInv, Next, NEW t \in Threads, tpc[t] \in Stops, tpc'[t] \notin Stops
               PROVE  owed \subseteq ToSet(disk) \cup dropped
    OBVIOUS
  <2>1. bpc \in {"ended", "off"}
    <3>1. ASSUME NEW u \in Threads, tpc[u] \notin Stops, NEW pc, tpc' = [tpc EXCEPT ![u] = pc] PROVE FALSE
      BY <3>1 DEF BufferInv, TypeOK
    <3>2. ASSUME tpc' = tpc PROVE FALSE
      BY <3>2
    <3>3. ASSUME NEW u \in Threads, AppendLocked(u) PROVE FALSE
      BY <3>1, <3>3 DEF AppendLocked, Stops
    <3>4. ASSUME NEW u \in Threads, NEW l \in Lines, AppendBegin(u, l) PROVE FALSE
      BY <3>1, <3>2, <3>4 DEF AppendBegin, MayLog, Stops
    <3>5. ASSUME NEW u \in Threads, InitLogger(u) PROVE FALSE
      BY <3>2, <3>5 DEF InitLogger
    <3>6. ASSUME NEW u \in Threads, NEW pc, MayStop(u), StopAs(u, pc) PROVE FALSE
      BY <3>1, <3>6 DEF MayStop, StopAs, Stops
    <3>7. ASSUME NEW u \in Threads, Shutdown(u) \/ FlushAndStop(u) \/ Destroy(u) PROVE FALSE
      BY <3>2, <3>6, <3>7 DEF Shutdown, FlushAndStop, Destroy
    <3>8. ASSUME Backend PROVE FALSE
      BY <3>2, <3>8 DEF Backend, LoopTop, LockAndTest, WaitEnds, WriteOut, Recycle, FinalLock,
                        FinalDrain, SwapOut
    <3>9. PICK u \in Threads : Joined(u)
      BY <3>3, <3>4, <3>5, <3>7, <3>8, Zenon DEF Next
    <3>10. QED BY <3>9 DEF Joined
  <2>2. buffers = <<>> /\ disk = file /\ current \in {Null, <<>>} /\ bpc # "write"
    BY <2>1 DEF FlowInv, EmptyInv
  <2>3. disk \in Seq(Lines)
    BY DEF BufferInv, TypeOK
  <2>4. Pipeline = ((disk \o <<>>) \o <<>>) \o <<>>
    BY <2>2, FlattenEmpty DEF Pipeline
  <2>5. Pipeline = disk
    <3>1. disk \o <<>> = disk
      BY <2>3, ConcatEmptySeq
    <3>2. QED BY <2>4, <3>1, Zenon
  <2>6. owed \subseteq ToSet(accepted) /\ ToSet(disk) = ToSet(accepted) \ dropped
    BY <2>5 DEF FlowInv, HistoryInv, NoLineLost
  <2>7. QED BY <2>6
<1>3. QED BY BuffersInvariant, InitFlow, <1>1, <1>2, PTL DEF Spec, StopFlushes

\* In such a program append() never meets the null current_ that a stopping backend
\* leaves behind: the crash that the model checker finds needs a race.
THEOREM AppendSafeWithoutRaces ==
    ASSUME ~Racy
    PROVE  Spec => []AppendIsSafe
<1>1. BufferInv /\ FlowInv /\ [Next]_vars => FlowInv'
  BY FlowStep
<1>2. Init => AppendIsSafe
  BY DEF Init, AppendIsSafe
<1>3. BufferInv /\ FlowInv /\ AppendIsSafe /\ [Next]_vars => AppendIsSafe'
  <2> SUFFICES ASSUME BufferInv, FlowInv, AppendIsSafe, [Next]_vars PROVE AppendIsSafe'
    OBVIOUS
  <2>1. ASSUME NEW t \in Threads, NEW pc, pc # "crashed", tpc' = [tpc EXCEPT ![t] = pc]
        PROVE  AppendIsSafe'
    BY <2>1 DEF AppendIsSafe, BufferInv, TypeOK
  <2>2. ASSUME tpc' = tpc PROVE AppendIsSafe'
    BY <2>2 DEF AppendIsSafe
  <2>3. ASSUME NEW t \in Threads, AppendLocked(t) PROVE AppendIsSafe'
    <3>1. current # Null
      BY <2>3 DEF AppendLocked, FlowInv, LifeInv, BufferInv, SpareInv
    <3>2. QED BY <2>1, <2>3, <3>1 DEF AppendLocked
  <2>4. ASSUME NEW t \in Threads, NEW l \in Lines, AppendBegin(t, l) PROVE AppendIsSafe'
    BY <2>1, <2>2, <2>4 DEF AppendBegin
  <2>5. ASSUME NEW t \in Threads, InitLogger(t) PROVE AppendIsSafe'
    BY <2>2, <2>5 DEF InitLogger
  <2>6. ASSUME NEW t \in Threads, Shutdown(t) \/ FlushAndStop(t) \/ Destroy(t) PROVE AppendIsSafe'
    BY <2>1, <2>2, <2>6 DEF Shutdown, FlushAndStop, Destroy, StopAs
  <2>7. ASSUME NEW t \in Threads, Joined(t) PROVE AppendIsSafe'
    <3>1. PICK pc \in {"idle", "aborted"} : tpc' = [tpc EXCEPT ![t] = pc]
      BY <2>7 DEF Joined
    <3>2. QED BY <2>1, <3>1
  <2>8. ASSUME Backend PROVE AppendIsSafe'
    BY <2>2, <2>8 DEF Backend, LoopTop, LockAndTest, WaitEnds, WriteOut, Recycle, FinalLock,
                      FinalDrain, SwapOut
  <2>9. CASE UNCHANGED vars
    BY <2>2, <2>9 DEF vars
  <2>10. QED BY <2>3, <2>4, <2>5, <2>6, <2>7, <2>8, <2>9, Zenon DEF Next
<1>4. QED BY BuffersInvariant, InitFlow, <1>1, <1>2, <1>3, PTL DEF Spec
=============================================================================
