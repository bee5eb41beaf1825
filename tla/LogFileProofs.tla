----------------------------- MODULE LogFileProofs ----------------------------
(***************************************************************************)
(* Proofs about LogFile, for any sizes, intervals and length of a day, and  *)
(* any movement of the clock.                                               *)
(***************************************************************************)
EXTENDS LogFile, WellFoundedInduction, SequenceTheorems, TLAPS

\* There is always a last file.
FilesInv ==
    /\ names \in Seq(Nat \X Nat) /\ disk \in Seq(Seq(Nat))
    /\ Len(disk) > 0

Precedes(a, b) == a[1] < b[1] \/ (a[1] = b[1] /\ a[2] < b[2])

\* While nobody sets the clock back, names only grow, and the last one is that of
\* the last roll.
NameInv ==
    ~setBack =>
        /\ lastRoll <= now
        /\ names[Len(names)] = <<lastRoll, sameSecondSeq>>
        /\ \A i, j \in 1 .. Len(names) : i < j => Precedes(names[i], names[j])

\* Every append that leaves something overdue brings the next check nearer.
LateInv == late <= count

Inv == TypeOK /\ FilesInv /\ NameInv /\ LateInv /\ OutgrownOnlyBehind

-----------------------------------------------------------------------------
(* Periods, and the AppendFile. *)

\* Days follow each other as seconds do.
LEMMA PeriodMonotone ==
    ASSUME NEW s \in Nat, NEW t \in Nat, s <= t
    PROVE  Period(s) <= Period(t) /\ Period(s) \in Nat /\ Period(t) \in Nat
<1>1. Day \in Nat /\ Day > 0 BY LogFileAssumption
<1>2. PICK p \in Nat, a \in 0 .. Day - 1 : s = p * Day + a /\ s \div Day = p
  BY <1>1
<1>3. PICK q \in Nat, b \in 0 .. Day - 1 : t = q * Day + b /\ t \div Day = q
  BY <1>1
<1>4. p <= q
  <2>1. SUFFICES ASSUME p >= q + 1 PROVE FALSE
    BY <1>2, <1>3
  <2>2. p * Day >= (q + 1) * Day
    BY <1>1, <1>2, <1>3, <2>1
  <2>3. (q + 1) * Day = q * Day + Day
    BY <1>1, <1>3
  <2> QED BY <1>1, <1>2, <1>3, <2>2, <2>3
<1>5. p * Day <= q * Day /\ p * Day \in Nat /\ q * Day \in Nat
  BY <1>1, <1>2, <1>3, <1>4
<1> QED BY <1>2, <1>3, <1>5 DEF Period

\* Adding to the last file leaves the others as they are.
LEMMA LastFile ==
    ASSUME NEW d \in Seq(Seq(Nat)), Len(d) > 0, NEW s \in Seq(Nat)
    PROVE  /\ [d EXCEPT ![Len(d)] = @ \o s] \in Seq(Seq(Nat))
           /\ Len([d EXCEPT ![Len(d)] = @ \o s]) = Len(d)
<1>1. Len(d) \in 1 .. Len(d) /\ d[Len(d)] \in Seq(Nat)
  BY LenProperties, ElementOfSeq
<1>2. d[Len(d)] \o s \in Seq(Nat)
  BY <1>1, ConcatProperties
<1> QED BY <1>1, <1>2, ExceptSeq

\* However many of the lines reach the last file, the files stay files.
LEMMA WrittenTyped ==
    ASSUME NEW d \in Seq(Seq(Nat)), Len(d) > 0, NEW n \in Nat, NEW ls \in Seq(1 .. n),
           NEW k \in 0 .. Len(ls)
    PROVE  Written(d, ls, k) \in Seq(Seq(Nat)) /\ Len(Written(d, ls, k)) = Len(d)
<1>1. Len(ls) \in Nat /\ \A i \in 1 .. Len(ls) : ls[i] \in 1 .. n
  BY LenProperties, ElementOfSeq
<1>2. 1 \in Int /\ k \in Int /\ \A i \in 1 .. k : ls[i] \in Nat
  BY <1>1
<1>3. SubSeq(ls, 1, k) \in Seq(Nat)
  BY ONLY <1>2, SubSeqProperties, Zenon
<1> QED BY <1>3, LastFile DEF Written

\* Wherever the FILE's buffer spills, or is dropped, the files stay files.
LEMMA SpillsTyped ==
    ASSUME FilesInv, NEW n \in Nat, NEW all \in Seq(1 .. n), NEW w \in Nat, NEW f \in Spills(all, w)
    PROVE  /\ f.disk \in Seq(Seq(Nat)) /\ Len(f.disk) = Len(disk)
           /\ f.buffer \in Seq(1 .. n) /\ f.written = w
<1>1. PICK k \in 0 .. Len(all) :
        f = [disk |-> Written(disk, all, k), buffer |-> SubSeq(all, k + 1, Len(all)), written |-> w]
  BY DEF Spills
<1>2. Len(all) \in Nat /\ \A i \in 1 .. Len(all) : all[i] \in 1 .. n
  BY LenProperties, ElementOfSeq
<1>3. SubSeq(all, k + 1, Len(all)) \in Seq(1 .. n)
  <2>1. k + 1 \in Int /\ Len(all) \in Int /\ \A i \in k + 1 .. Len(all) : all[i] \in 1 .. n
    BY <1>2
  <2> QED BY ONLY <2>1, SubSeqProperties, Zenon
<1> QED BY <1>1, <1>3, WrittenTyped DEF FilesInv

\* What append() leaves of the AppendFile.
LEMMA AppendLineTyped ==
    ASSUME TypeOK, FilesInv, NEW len \in Lengths, NEW f \in AppendLine(len)
    PROVE  /\ f.disk \in Seq(Seq(Nat)) /\ Len(f.disk) = Len(disk)
           /\ f.buffer \in Seq(1 .. lines + 1) /\ f.written \in Nat
<1>1. /\ lines \in Nat /\ lines + 1 \in Nat /\ written \in Nat /\ len \in Nat
      /\ buffer \in Seq(1 .. lines + 1)
  <2>1. lines \in Nat /\ lines + 1 \in Nat /\ written \in Nat /\ len \in Nat
    BY LogFileAssumption DEF TypeOK
  <2>2. 1 .. lines \subseteq 1 .. lines + 1
    BY <2>1
  <2>3. buffer \in Seq(1 .. lines + 1)
    BY <2>2 DEF TypeOK
  <2> QED BY <2>1, <2>3
<1>2. Append(buffer, lines + 1) \in Seq(1 .. lines + 1)
  <2>1. lines + 1 \in 1 .. lines + 1 BY <1>1
  <2> QED BY ONLY <1>1, <2>1, AppendProperties, Zenon
<1>3. CASE f \in Spills(Append(buffer, lines + 1), written + len)
  <2>1. written + len \in Nat BY <1>1
  <2>2. /\ f.disk \in Seq(Seq(Nat)) /\ Len(f.disk) = Len(disk)
        /\ f.buffer \in Seq(1 .. lines + 1) /\ f.written = written + len
    <3> DEFINE n == lines + 1  all == Append(buffer, n)  w == written + len
    <3>1. n \in Nat /\ all \in Seq(1 .. n) /\ w \in Nat /\ f \in Spills(all, w)
      BY <1>1, <1>2, <1>3, <2>1
    <3> HIDE DEF n, all, w
    <3>2. /\ f.disk \in Seq(Seq(Nat)) /\ Len(f.disk) = Len(disk)
          /\ f.buffer \in Seq(1 .. n) /\ f.written = w
      BY <3>1, SpillsTyped
    <3> QED BY <3>2 DEF n, w
  <2> QED BY <2>1, <2>2
<1>4. CASE f \in Failures
  <2>1. PICK k \in 0 .. Len(buffer) :
          f = [disk |-> Written(disk, buffer, k), buffer |-> <<>>, written |-> written]
    BY <1>4 DEF Failures
  <2>2. Written(disk, buffer, k) \in Seq(Seq(Nat)) /\ Len(Written(disk, buffer, k)) = Len(disk)
    BY <1>1, WrittenTyped DEF FilesInv
  <2> QED BY <1>1, <2>1, <2>2
<1>5. CASE f = [disk |-> disk, buffer |-> buffer, written |-> written]
  BY <1>1, <1>5 DEF FilesInv
<1> QED BY <1>3, <1>4, <1>5 DEF AppendLine

\* fflush() and fclose() keep the files, whether they fail or not.
LEMMA FlushesTyped ==
    ASSUME NEW f, f.disk \in Seq(Seq(Nat)), Len(f.disk) > 0, NEW n \in Nat, f.buffer \in Seq(1 .. n),
           NEW d \in Flushes(f)
    PROVE  d \in Seq(Seq(Nat)) /\ Len(d) = Len(f.disk)
<1>1. Len(f.buffer) \in Nat
  BY LenProperties
<1>2. PICK k \in 0 .. Len(f.buffer) : d = Written(f.disk, f.buffer, k)
  BY <1>1 DEF Flushes
<1> QED BY <1>2, WrittenTyped

-----------------------------------------------------------------------------
(* append(). *)

\* What roll_file may do.
Rolls ==
    /\ lastRoll <= now /\ lastRoll' = now /\ lastFlush' = now /\ startOfPeriod' = Period(now)
    /\ names' = Append(names, <<now, MakeFilename>>) /\ sameSecondSeq' = MakeFilename
    /\ fp' \in BOOLEAN /\ written' = 0 /\ Len(disk') = Len(disk) + 1

Keeps == UNCHANGED <<startOfPeriod, lastRoll, fp, names>> /\ Len(disk') = Len(disk)

\* An append rolls; or wants to, behind the last roll; or flushes; or finds nothing to
\* do; or does not look.
LEMMA AppendCases ==
    ASSUME TypeOK, FilesInv, NEW len \in Lengths, AppendLog(len)
    PROVE  /\ disk' \in Seq(Seq(Nat)) /\ buffer' \in Seq(1 .. lines + 1) /\ written' \in Nat
           /\ \/ Rolls /\ count' \in {0, count}
              \/ /\ now < lastRoll /\ Keeps /\ UNCHANGED lastFlush /\ count' \in {0, count}
                 /\ sameSecondSeq' = 0
              \/ /\ Period(now) = startOfPeriod /\ lastFlush' = now /\ now - lastFlush > FlushInterval
                 /\ Keeps /\ UNCHANGED sameSecondSeq /\ count' = 0 /\ written' <= RollSize
              \/ /\ Period(now) = startOfPeriod /\ now - lastFlush <= FlushInterval
                 /\ Keeps /\ UNCHANGED <<sameSecondSeq, lastFlush>> /\ count' = 0
                 /\ written' <= RollSize
              \/ /\ count + 1 < CheckEveryN /\ count' = count + 1 /\ written' <= RollSize
                 /\ Keeps /\ UNCHANGED <<sameSecondSeq, lastFlush>>
<1>1. PICK f \in AppendLine(len) :
        \/ f.written > RollSize /\ RollFile(f) /\ count' = count
        \/ f.written <= RollSize /\ CheckDue /\ Upkeep(f) /\ count' = 0
        \/ /\ f.written <= RollSize /\ ~CheckDue
           /\ KeepFile(f) /\ UNCHANGED sameSecondSeq /\ count' = count + 1
  BY DEF AppendLog
<1>2. /\ f.disk \in Seq(Seq(Nat)) /\ Len(f.disk) = Len(disk)
      /\ f.buffer \in Seq(1 .. lines + 1) /\ f.written \in Nat
  BY AppendLineTyped
<1>3. now \in Nat /\ lastRoll \in Nat /\ lines + 1 \in Nat /\ count \in Nat /\ CheckEveryN \in Nat
  BY LogFileAssumption DEF TypeOK
<1>4. \A d \in Flushes(f) : d \in Seq(Seq(Nat)) /\ Len(d) = Len(disk)
  <2>1. Len(f.disk) > 0 BY <1>2 DEF FilesInv
  <2> QED BY <1>2, <1>3, <2>1, FlushesTyped
<1>5. <<>> \in Seq(Nat) /\ <<>> \in Seq(1 .. lines + 1)
  OBVIOUS
<1>6. \A d \in Flushes(f) : Append(d, <<>>) \in Seq(Seq(Nat)) /\ Len(Append(d, <<>>)) = Len(disk) + 1
  BY <1>4, <1>5, AppendProperties
<1>7. ASSUME RollFile(f)
      PROVE  /\ disk' \in Seq(Seq(Nat)) /\ buffer' \in Seq(1 .. lines + 1) /\ written' \in Nat
             /\ \/ Rolls
                \/ now < lastRoll /\ Keeps /\ UNCHANGED lastFlush /\ sameSecondSeq' = 0
  <2>1. CASE ~RollAllowed /\ KeepFile(f) /\ sameSecondSeq' = MakeFilename
    <3>1. now < lastRoll BY <1>3, <2>1 DEF RollAllowed
    <3>2. sameSecondSeq' = 0 BY <1>3, <2>1, <3>1 DEF MakeFilename
    <3> QED BY <1>2, <2>1, <3>1, <3>2 DEF KeepFile, Keeps
  <2>2. CASE /\ RollAllowed /\ sameSecondSeq' = MakeFilename
             /\ lastRoll' = now /\ lastFlush' = now /\ startOfPeriod' = Period(now)
             /\ names' = Append(names, <<now, MakeFilename>>)
             /\ fp' \in BOOLEAN /\ written' = 0
             /\ disk' \in {Append(d, <<>>) : d \in Flushes(f)} /\ buffer' = <<>>
    <3>1. lastRoll <= now BY <1>3, <2>2 DEF RollAllowed
    <3>2. disk' \in Seq(Seq(Nat)) /\ Len(disk') = Len(disk) + 1 /\ buffer' \in Seq(1 .. lines + 1)
      BY <1>5, <1>6, <2>2
    <3>3. written' \in Nat BY <2>2
    <3>4. Rolls BY ONLY <2>2, <3>1, <3>2 DEF Rolls
    <3> QED BY <3>2, <3>3, <3>4
  <2> QED BY <1>7, <2>1, <2>2 DEF RollFile
<1>8. CASE f.written > RollSize /\ RollFile(f) /\ count' = count
  BY <1>7, <1>8
<1>9. CASE f.written <= RollSize /\ CheckDue /\ Upkeep(f) /\ count' = 0
  <2>1. CASE RollFile(f) BY <1>7, <1>9, <2>1
  <2>2. CASE /\ Period(now) = startOfPeriod /\ now - lastFlush > FlushInterval
             /\ lastFlush' = now /\ disk' \in Flushes(f) /\ buffer' = <<>> /\ written' = f.written
             /\ UNCHANGED <<sameSecondSeq, startOfPeriod, lastRoll, fp, names>>
    BY <1>2, <1>4, <1>5, <1>9, <2>2 DEF Keeps
  <2>3. CASE /\ Period(now) = startOfPeriod /\ now - lastFlush <= FlushInterval
             /\ KeepFile(f) /\ UNCHANGED sameSecondSeq
    BY <1>2, <1>9, <2>3 DEF Keeps, KeepFile
  <2> QED BY <1>9, <2>1, <2>2, <2>3 DEF Upkeep
<1>10. CASE /\ f.written <= RollSize /\ ~CheckDue
            /\ KeepFile(f) /\ UNCHANGED sameSecondSeq /\ count' = count + 1
  <2>1. count + 1 < CheckEveryN BY <1>3, <1>10 DEF CheckDue
  <2> QED BY <1>2, <1>10, <2>1 DEF Keeps, KeepFile
<1> QED BY <1>1, <1>8, <1>9, <1>10

\* append() keeps the types and the relations between the dates.
LEMMA AppendType ==
    ASSUME Inv, NEW len \in Lengths, AppendLog(len) PROVE TypeOK' /\ FilesInv'
<1>0. TypeOK /\ FilesInv /\ now \in 1 .. MaxTime /\ UNCHANGED <<now, setBack, faulty>>
  BY DEF Inv, TypeOK, AppendLog, clock
<1>1. /\ disk' \in Seq(Seq(Nat)) /\ buffer' \in Seq(1 .. lines + 1) /\ written' \in Nat
      /\ lines' = lines + 1 /\ lines' \in 0 .. MaxLines
  BY <1>0, AppendCases, LogFileAssumption DEF TypeOK, AppendLog
<1>2. late' \in Nat /\ behind' \in BOOLEAN /\ setBack' \in BOOLEAN /\ faulty' \in BOOLEAN
  <2>1. late' = late + 1 \/ late' = 0 BY DEF AppendLog
  <2>2. late' \in Nat BY <1>0, <2>1 DEF TypeOK
  <2>3. behind' = (now < lastRoll) BY DEF AppendLog
  <2>4. behind' \in BOOLEAN BY ONLY <2>3
  <2>5. setBack' \in BOOLEAN /\ faulty' \in BOOLEAN BY <1>0 DEF TypeOK
  <2> QED BY <2>2, <2>4, <2>5
<1>3. /\ count' \in 0 .. CheckEveryN - 1 /\ sameSecondSeq' \in Nat
  <2>1. count' \in {0, count} \/ (count' = count + 1 /\ count + 1 < CheckEveryN)
    BY <1>0, AppendCases
  <2>2. sameSecondSeq' \in {0, sameSecondSeq, MakeFilename}
    BY <1>0, AppendCases DEF Rolls
  <2>3. MakeFilename \in Nat
    BY <1>0 DEF TypeOK, MakeFilename
  <2> QED BY <1>0, <2>1, <2>2, <2>3, LogFileAssumption DEF TypeOK
<1>4. /\ lastRoll' \in 1 .. MaxTime /\ lastFlush' \in lastRoll' .. MaxTime
      /\ startOfPeriod' = Period(lastRoll')
  <2>1. CASE Rolls
    BY <1>0, <2>1, LogFileAssumption DEF Rolls
  <2>2. CASE Keeps /\ UNCHANGED lastFlush
    BY <1>0, <2>2 DEF Keeps, TypeOK
  <2>3. CASE Keeps /\ lastFlush' = now /\ now - lastFlush > FlushInterval
    BY <1>0, <2>3, LogFileAssumption DEF Keeps, TypeOK
  <2> QED BY <1>0, <2>1, <2>2, <2>3, AppendCases
<1>5. /\ names' \in Seq(Nat \X Nat) /\ Len(names') = Len(disk') /\ Len(disk') > 0
      /\ fp' \in BOOLEAN
  <2>1. CASE Rolls
    <3>1. <<now, MakeFilename>> \in Nat \X Nat
      BY <1>0 DEF TypeOK, MakeFilename
    <3>2. names' \in Seq(Nat \X Nat) /\ Len(names') = Len(names) + 1
      BY <1>0, <2>1, <3>1, AppendProperties DEF Rolls, FilesInv
    <3>3. Len(disk') = Len(disk) + 1 /\ Len(names) = Len(disk) /\ Len(disk) > 0 /\ Len(disk) \in Nat
      BY <1>0, <2>1 DEF Rolls, TypeOK, FilesInv
    <3>4. fp' \in BOOLEAN BY <2>1 DEF Rolls
    <3> QED BY <3>2, <3>3, <3>4
  <2>2. CASE Keeps
    BY <1>0, <2>2 DEF Keeps, TypeOK, FilesInv
  <2> QED BY <1>0, <2>1, <2>2, AppendCases
<1>6. TypeOK'
  BY <1>0, <1>1, <1>2, <1>3, <1>4, <1>5 DEF TypeOK
<1> QED BY <1>1, <1>5, <1>6 DEF FilesInv

\* Names stay apart over append().
LEMMA AppendNames ==
    ASSUME Inv, NEW len \in Lengths, AppendLog(len) PROVE NameInv'
<1>0. TypeOK /\ FilesInv /\ NameInv /\ UNCHANGED <<now, setBack>>
  BY DEF Inv, AppendLog, clock
<1> SUFFICES ASSUME ~setBack
             PROVE  /\ lastRoll' <= now
                    /\ names'[Len(names')] = <<lastRoll', sameSecondSeq'>>
                    /\ \A i, j \in 1 .. Len(names') : i < j => Precedes(names'[i], names'[j])
  BY <1>0 DEF NameInv
<1>1. /\ lastRoll <= now /\ names[Len(names)] = <<lastRoll, sameSecondSeq>>
      /\ \A i, j \in 1 .. Len(names) : i < j => Precedes(names[i], names[j])
      /\ now \in Nat /\ lastRoll \in Nat /\ sameSecondSeq \in Nat
      /\ Len(names) \in Nat /\ Len(names) > 0
  BY <1>0 DEF NameInv, TypeOK, FilesInv
<1>2. CASE Rolls
  <2> DEFINE new == <<now, MakeFilename>>
  <2>1. new \in Nat \X Nat /\ new[1] = now /\ new[2] = MakeFilename
    BY <1>1 DEF MakeFilename
  <2>2. lastRoll' = now /\ sameSecondSeq' = MakeFilename /\ names' = Append(names, new)
    BY <1>2 DEF Rolls
  <2>3. Precedes(names[Len(names)], new)
    BY <1>1, <2>1 DEF Precedes, MakeFilename
  <2> HIDE DEF new
  <2>4. /\ Len(names') = Len(names) + 1 /\ names'[Len(names) + 1] = new
        /\ \A i \in 1 .. Len(names) : names'[i] = names[i]
    BY <1>0, <2>1, <2>2, AppendProperties DEF FilesInv
  <2>5. \A i \in 1 .. Len(names) : names[i] \in Nat \X Nat
    BY <1>0, ElementOfSeq DEF FilesInv
  <2>6. \A i \in 1 .. Len(names) : Precedes(names[i], new)
    <3> SUFFICES ASSUME NEW i \in 1 .. Len(names), i # Len(names) PROVE Precedes(names[i], new)
      BY <2>3
    <3>1. Precedes(names[i], names[Len(names)])
      BY <1>1
    <3>2. /\ names[i][1] \in Nat /\ names[i][2] \in Nat /\ new[1] \in Nat /\ new[2] \in Nat
          /\ names[Len(names)][1] \in Nat /\ names[Len(names)][2] \in Nat
      BY <1>1, <2>1, <2>5
    <3> QED BY <2>3, <3>1, <3>2 DEF Precedes
  <2>7. \A i, j \in 1 .. Len(names') : i < j => Precedes(names'[i], names'[j])
    BY <1>1, <2>4, <2>6
  <2>8. lastRoll' <= now /\ names'[Len(names')] = <<lastRoll', sameSecondSeq'>>
    BY <1>1, <2>2, <2>4 DEF new
  <2> QED BY <2>7, <2>8
<1>3. CASE Keeps /\ UNCHANGED sameSecondSeq
  BY <1>1, <1>3 DEF Keeps
<1>4. ~(now < lastRoll)
  BY <1>1
<1> QED BY <1>0, <1>2, <1>3, <1>4, AppendCases

\* Overdue upkeep is not put off by an append that looks.
LEMMA AppendLate ==
    ASSUME Inv, NEW len \in Lengths, AppendLog(len) PROVE LateInv' /\ OutgrownOnlyBehind'
<1>0. TypeOK /\ FilesInv /\ LateInv
  BY DEF Inv
<1>1. /\ now \in Nat /\ lastRoll \in Nat /\ lastFlush \in Nat /\ lastRoll <= lastFlush
      /\ startOfPeriod = Period(lastRoll) /\ late \in Nat /\ count \in Nat
      /\ FlushInterval \in Nat /\ RollSize \in Nat
  BY <1>0, LogFileAssumption DEF TypeOK
<1>2. /\ late' = IF lastFlush' # now /\ (Period(now) > startOfPeriod
                                         \/ now - lastFlush > FlushInterval)
                 THEN late + 1 ELSE 0
      /\ behind' = (now < lastRoll)
  BY DEF AppendLog
<1>3. CASE Rolls /\ count' \in {0, count}
  BY <1>1, <1>2, <1>3 DEF Rolls, LateInv, OutgrownOnlyBehind
<1>4. CASE now < lastRoll /\ UNCHANGED lastFlush /\ count' \in {0, count}
  <2>1. Period(now) <= Period(lastRoll) /\ Period(now) \in Nat /\ Period(lastRoll) \in Nat
    BY <1>1, <1>4, PeriodMonotone
  <2>2. ~(Period(now) > startOfPeriod) /\ ~(now - lastFlush > FlushInterval)
    BY <1>1, <1>4, <2>1
  <2>3. late' = 0 BY <1>2, <2>2
  <2>4. behind' BY <1>2, <1>4
  <2> QED BY <1>1, <1>4, <2>3, <2>4 DEF LateInv, OutgrownOnlyBehind
<1>5. CASE /\ Period(now) = startOfPeriod /\ count' = 0 /\ written' <= RollSize
           /\ lastFlush' = now \/ now - lastFlush <= FlushInterval
  <2>1. startOfPeriod \in Nat BY <1>1, PeriodMonotone
  <2>2. late' = 0 BY <1>1, <1>2, <1>5, <2>1
  <2>3. written' \in Nat BY <1>0, AppendCases
  <2> QED BY <1>1, <1>5, <2>2, <2>3 DEF LateInv, OutgrownOnlyBehind
<1>6. CASE count' = count + 1 /\ written' <= RollSize
  <2>1. late' = late + 1 \/ late' = 0 BY <1>2
  <2>2. written' \in Nat BY <1>0, AppendCases
  <2> QED BY <1>0, <1>1, <1>6, <2>1, <2>2 DEF LateInv, OutgrownOnlyBehind
<1> QED BY <1>0, <1>3, <1>4, <1>5, <1>6, AppendCases

-----------------------------------------------------------------------------
(* All steps. *)

\* The constructor establishes the invariant.
LEMMA InitInv == Init => Inv
<1> SUFFICES ASSUME Init PROVE Inv
  OBVIOUS
<1>1. names = <<<<now, 0>>>> /\ disk = <<<<>>>> /\ now \in 1 .. MaxTime
  BY DEF Init
<1>2. /\ names \in Seq(Nat \X Nat) /\ disk \in Seq(Seq(Nat)) /\ Len(names) = 1 /\ Len(disk) = 1
      /\ names[1] = <<now, 0>>
  BY <1>1
<1>3. TypeOK
  <2>1. setBack \in BOOLEAN /\ faulty \in BOOLEAN /\ behind \in BOOLEAN /\ fp \in BOOLEAN BY DEF Init
  <2>2. buffer \in Seq(1 .. lines) BY DEF Init
  <2> QED BY <1>2, <2>1, <2>2, LogFileAssumption DEF Init, TypeOK
<1>4. FilesInv BY <1>2 DEF FilesInv
<1>5. NameInv BY <1>1, <1>2 DEF Init, NameInv
<1>6. LateInv /\ OutgrownOnlyBehind BY LogFileAssumption DEF Init, LateInv, OutgrownOnlyBehind
<1> QED BY <1>3, <1>4, <1>5, <1>6 DEF Inv

\* Spec keeps it.
LEMMA Invariance == Spec => []Inv
<1>1. Inv /\ [Next]_vars => Inv'
  <2> SUFFICES ASSUME Inv, [Next]_vars PROVE Inv'
    OBVIOUS
  <2>1. ASSUME NEW len \in Lengths, AppendLog(len) PROVE Inv'
    BY <2>1, AppendType, AppendNames, AppendLate DEF Inv
  <2>2. ASSUME Tick \/ SetBack PROVE Inv'
    <3>1. UNCHANGED <<faulty, count, sameSecondSeq, startOfPeriod, lastRoll, lastFlush, fp,
                      written, buffer, names, disk, lines, late, behind>>
      BY <2>2 DEF Tick, SetBack
    <3>2. now' \in 1 .. MaxTime /\ ((now' = now + 1 /\ setBack' = setBack) \/ setBack' = TRUE)
      BY <2>2, LogFileAssumption DEF Tick, SetBack, Inv, TypeOK
    <3>3. setBack' \in BOOLEAN
      BY <3>2 DEF Inv, TypeOK
    <3>4. TypeOK'
      BY <3>1, <3>2, <3>3 DEF Inv, TypeOK
    <3>5. FilesInv' /\ LateInv' /\ OutgrownOnlyBehind'
      BY <3>1 DEF Inv, FilesInv, LateInv, OutgrownOnlyBehind
    <3>6. NameInv'
      <4> SUFFICES ASSUME ~setBack' PROVE NameInv'
        BY DEF NameInv
      <4>1. ~setBack /\ now' = now + 1
        BY <3>2
      <4>2. lastRoll \in Nat /\ now \in Nat
        BY DEF Inv, TypeOK
      <4> QED BY <3>1, <4>1, <4>2 DEF Inv, NameInv
    <3> QED BY <3>4, <3>5, <3>6 DEF Inv
  <2>3. CASE Fault
    <3>1. faulty' \in BOOLEAN BY <2>3 DEF Fault, Inv, TypeOK
    <3> QED BY <2>3, <3>1
        DEF Fault, clock, Inv, TypeOK, FilesInv, NameInv, LateInv, OutgrownOnlyBehind
  <2>4. CASE FlushLog
    <3> DEFINE f == [disk |-> disk, buffer |-> buffer]
    <3>1. /\ f.disk \in Seq(Seq(Nat)) /\ Len(f.disk) > 0 /\ lines \in Nat
          /\ f.buffer \in Seq(1 .. lines)
      BY DEF Inv, TypeOK, FilesInv
    <3>2. disk' \in Flushes(f) BY <2>4 DEF FlushLog
    <3> HIDE DEF f
    <3>3. disk' \in Seq(Seq(Nat)) /\ Len(disk') = Len(f.disk)
      BY <3>1, <3>2, FlushesTyped
    <3>4. Len(f.disk) = Len(disk) BY DEF f
    <3>5. buffer' \in Seq(1 .. lines') BY <2>4 DEF FlushLog
    <3> QED BY <2>4, <3>3, <3>4, <3>5
        DEF FlushLog, clock, Inv, TypeOK, FilesInv, NameInv, LateInv, OutgrownOnlyBehind
  <2>5. CASE UNCHANGED vars
    BY <2>5 DEF vars, clock, Inv, TypeOK, FilesInv, NameInv, LateInv, OutgrownOnlyBehind
  <2> QED BY <2>1, <2>2, <2>3, <2>4, <2>5 DEF Next
<1> QED BY InitInv, <1>1, PTL DEF Spec

\* Two files get the same name only after the clock was set back.
THEOREM NamesApart == Spec => []NameReuseNeedsSetBack
<1>1. Inv => NameReuseNeedsSetBack
  <2> SUFFICES ASSUME Inv, ~setBack, NEW i \in DOMAIN names, NEW j \in DOMAIN names,
                      i # j, names[i] = names[j]
               PROVE  FALSE
    BY DEF NameReuseNeedsSetBack
  <2>1. /\ i \in 1 .. Len(names) /\ j \in 1 .. Len(names) /\ Len(names) \in Nat
        /\ names[i] \in Nat \X Nat
    BY LenProperties, ElementOfSeq DEF Inv, FilesInv
  <2>2. Precedes(names[i], names[j]) \/ Precedes(names[j], names[i])
    BY <2>1 DEF Inv, NameInv
  <2> QED BY <2>1, <2>2 DEF Precedes
<1> QED BY <1>1, Invariance, PTL

\* roll_size_ is exceeded only while the clock is behind the last roll.
THEOREM SizeKept == Spec => []OutgrownOnlyBehind
<1>1. Inv => OutgrownOnlyBehind BY DEF Inv
<1> QED BY <1>1, Invariance, PTL

\* The types, and: a new day or an overdue flush waits for fewer than check_every_n_
\* appends, whatever rolls, failures and clock changes come between.
THEOREM UpkeepComes == Spec => []UpkeepInTime
<1>1. Inv => UpkeepInTime
  BY LogFileAssumption DEF Inv, TypeOK, LateInv, UpkeepInTime
<1> QED BY <1>1, Invariance, PTL

-----------------------------------------------------------------------------
(* The files in a row: what FlattenSeq computes. *)

\* A set of naturals has a least element: this is what inductions rest on.
LEMMA LeastNatural ==
    ASSUME NEW T \in SUBSET Nat, T # {}
    PROVE  \E m \in T : \A k \in T : m <= k
<1> DEFINE R == OpToRel(<, Nat)
<1>1. IsWellFoundedOn(R, Nat)
  BY NatLessThanWellFounded
<1>2. \A a, b \in Nat : <<a, b>> \in R <=> a < b
  BY DEF OpToRel
<1> HIDE DEF R
<1>3. PICK m \in T : \A k \in T : ~(<<k, m>> \in R)
  BY <1>1, WFMin
<1>4. \A k \in T : k \in Nat /\ m \in Nat /\ ~(k < m)
  BY <1>2, <1>3
<1>5. \A k \in T : m <= k
  BY <1>4
<1>6. QED BY <1>3, <1>5

\* The i-th value is what the first i sequences of s are in a row.
Rows(s, n, f) == \A i \in 1 .. n : f[i] = IF i = 1 THEN s[i] ELSE f[i - 1] \o s[i]

\* There is such a function ...
LEMMA RowsExist ==
    ASSUME NEW S, NEW s \in Seq(Seq(S)), NEW n \in 0 .. Len(s)
    PROVE  \E f \in [1 .. n -> Seq(S)] : Rows(s, n, f)
<1> DEFINE Good(k) == \E f \in [1 .. k -> Seq(S)] : Rows(s, k, f)
           T == {k \in 0 .. Len(s) : ~Good(k)}
<1>1. Len(s) \in Nat /\ \A i \in 1 .. Len(s) : s[i] \in Seq(S)
  BY LenProperties, ElementOfSeq
<1>2. SUFFICES T = {}
  OBVIOUS
<1>3. SUFFICES ASSUME T # {} PROVE FALSE
  OBVIOUS
<1>4. T \in SUBSET Nat
  OBVIOUS
<1> HIDE DEF T, Good
<1>5. PICK m \in T : \A k \in T : m <= k
  BY <1>3, <1>4, LeastNatural
<1>6. m \in 0 .. Len(s) /\ ~Good(m)
  BY DEF T
<1>7. CASE m = 0
  <2>1. [i \in 1 .. 0 |-> <<>>] \in [1 .. 0 -> Seq(S)] /\ Rows(s, 0, [i \in 1 .. 0 |-> <<>>])
    BY DEF Rows
  <2>2. QED BY <1>6, <1>7, <2>1 DEF Good
<1>8. CASE m # 0
  <2>1. m - 1 \in 0 .. Len(s) /\ m \in 1 .. Len(s) /\ ~(m <= m - 1)
    BY <1>1, <1>6, <1>8
  <2>2. Good(m - 1)
    BY <1>5, <2>1 DEF T
  <2>3. PICK f \in [1 .. m - 1 -> Seq(S)] : Rows(s, m - 1, f)
    BY <2>2 DEF Good
  <2> DEFINE g == [i \in 1 .. m |-> IF i < m THEN f[i] ELSE IF m = 1 THEN s[m] ELSE f[m - 1] \o s[m]]
  <2>4. m # 1 => m - 1 \in 1 .. m - 1 /\ f[m - 1] \in Seq(S)
    BY <2>1, <2>3
  <2>5. s[m] \in Seq(S) /\ (m # 1 => f[m - 1] \o s[m] \in Seq(S))
    BY <1>1, <2>1, <2>4, ConcatProperties
  <2>6. ASSUME NEW i \in 1 .. m PROVE g[i] \in Seq(S)
    <3>1. CASE i < m
      BY <2>1, <2>3, <3>1
    <3>2. CASE ~(i < m)
      BY <2>5, <3>2
    <3>3. QED BY <3>1, <3>2
  <2>7. Rows(s, m, g)
    <3> SUFFICES ASSUME NEW i \in 1 .. m PROVE g[i] = IF i = 1 THEN s[i] ELSE g[i - 1] \o s[i]
      BY DEF Rows
    <3>1. i # 1 => i - 1 \in 1 .. m /\ i - 1 < m /\ g[i - 1] = f[i - 1]
      BY <2>1
    <3>2. CASE i < m
      <4>1. i \in 1 .. m - 1
        BY <2>1, <3>2
      <4>2. g[i] = f[i] /\ f[i] = IF i = 1 THEN s[i] ELSE f[i - 1] \o s[i]
        BY <2>3, <3>2, <4>1 DEF Rows
      <4>3. QED BY <3>1, <4>2
    <3>3. CASE ~(i < m)
      <4>1. i = m
        BY <2>1, <3>3
      <4>2. QED BY <3>1, <4>1
    <3>4. QED BY <3>2, <3>3
  <2>8. g \in [1 .. m -> Seq(S)]
    BY <2>6
  <2> HIDE DEF g
  <2>9. QED BY <1>6, <2>7, <2>8 DEF Good
<1>9. QED BY <1>7, <1>8

\* ... and no other.
LEMMA RowsUnique ==
    ASSUME NEW s, NEW n \in Nat, NEW f, NEW g, Rows(s, n, f), Rows(s, n, g)
    PROVE  \A i \in 1 .. n : f[i] = g[i]
<1> DEFINE T == {i \in 1 .. n : f[i] # g[i]}
<1>1. SUFFICES ASSUME T # {} PROVE FALSE
  OBVIOUS
<1>2. T \in SUBSET Nat
  OBVIOUS
<1> HIDE DEF T
<1>3. PICK m \in T : \A k \in T : m <= k
  BY <1>1, <1>2, LeastNatural
<1>4. m \in 1 .. n /\ f[m] # g[m]
  BY DEF T
<1>5. m # 1 => m - 1 \in 1 .. n /\ ~(m <= m - 1)
  BY <1>4
<1>6. m # 1 => f[m - 1] = g[m - 1]
  BY <1>3, <1>5 DEF T
<1>7. /\ f[m] = IF m = 1 THEN s[m] ELSE f[m - 1] \o s[m]
      /\ g[m] = IF m = 1 THEN s[m] ELSE g[m - 1] \o s[m]
  BY <1>4 DEF Rows
<1>8. QED BY <1>4, <1>6, <1>7

\* FlattenSeq is its last value.
LEMMA FlattenIsRow ==
    ASSUME NEW S, NEW s \in Seq(Seq(S)), s # <<>>
    PROVE  \E f \in [1 .. Len(s) -> Seq(S)] : Rows(s, Len(s), f) /\ FlattenSeq(s) = f[Len(s)]
<1> DEFINE Def(g) == [i \in 1 .. Len(s) |-> IF i = 1 THEN s[i] ELSE g[i - 1] \o s[i]]
           f == CHOOSE g : g = Def(g)
<1>1. Len(s) \in Nat /\ Len(s) # 0 /\ Len(s) \in 0 .. Len(s)
  BY LenProperties, EmptySeq
<1>2. FlattenSeq(s) = f[Len(s)]
  BY <1>1 DEF FlattenSeq
<1>3. PICK h \in [1 .. Len(s) -> Seq(S)] : Rows(s, Len(s), h)
  BY <1>1, RowsExist
<1>4. h = Def(h)
  BY <1>3 DEF Rows
<1>5. f = Def(f)
  BY <1>4
<1>6. Rows(s, Len(s), f)
  BY <1>5 DEF Rows
<1> HIDE DEF f
<1>7. \A i \in 1 .. Len(s) : f[i] = h[i]
  BY <1>1, <1>3, <1>6, RowsUnique
<1>8. f[Len(s)] = h[Len(s)]
  BY <1>1, <1>7
<1>9. QED BY <1>2, <1>3, <1>8

\* No files hold no lines.
LEMMA FlattenEmpty == FlattenSeq(<<>>) = <<>>
BY DEF FlattenSeq

\* The lines of a new file come behind all others.
LEMMA FlattenAppend ==
    ASSUME NEW S, NEW s \in Seq(Seq(S)), NEW x \in Seq(S)
    PROVE  FlattenSeq(s) \in Seq(S) /\ FlattenSeq(Append(s, x)) = FlattenSeq(s) \o x
<1> DEFINE t == Append(s, x)
<1>1. PICK n \in Nat : n = Len(s)
  BY LenProperties
<1>2. /\ t \in Seq(Seq(S)) /\ Len(t) = n + 1 /\ t[n + 1] = x /\ t # <<>>
      /\ \A i \in 1 .. n : t[i] = s[i]
  BY <1>1, AppendProperties
<1> HIDE DEF t
<1>3. PICK g \in [1 .. n + 1 -> Seq(S)] : Rows(t, n + 1, g) /\ FlattenSeq(t) = g[n + 1]
  BY <1>2, FlattenIsRow
<1>4. CASE s = <<>>
  <2>1. n = 0
    BY <1>1, <1>4, EmptySeq
  <2>2. 1 \in 1 .. n + 1 /\ n + 1 = 1
    BY <2>1
  <2>3. g[1] = t[1]
    BY <1>3, <2>2 DEF Rows
  <2>4. FlattenSeq(t) = x
    BY <1>2, <1>3, <2>2, <2>3
  <2>5. FlattenSeq(s) = <<>>
    BY <1>4, FlattenEmpty
  <2>6. QED BY <2>4, <2>5, ConcatEmptySeq, EmptySeq DEF t
<1>5. CASE s # <<>>
  <2>1. n # 0
    BY <1>1, <1>5, EmptySeq
  <2>2. PICK f \in [1 .. n -> Seq(S)] : Rows(s, n, f) /\ FlattenSeq(s) = f[n]
    BY <1>1, <1>5, FlattenIsRow
  <2>3. Rows(s, n, g)
    <3>1. n \in Nat /\ Rows(t, n + 1, g) /\ \A i \in 1 .. n : t[i] = s[i]
      BY <1>2, <1>3
    <3>2. \A i \in 1 .. n : i \in 1 .. n + 1
      BY <3>1
    <3>3. QED BY <3>1, <3>2 DEF Rows
  <2>4. \A i \in 1 .. n : g[i] = f[i]
    <3>1. Rows(s, n, f)
      BY <2>2
    <3>2. QED BY ONLY <2>3, <3>1, RowsUnique
  <2>5. n \in 1 .. n /\ n + 1 \in 1 .. n + 1 /\ n + 1 # 1 /\ (n + 1) - 1 = n
    BY <1>2, <2>1
  <2>6. g[n + 1] = g[n] \o t[n + 1]
    BY <1>3, <2>5 DEF Rows
  <2>7. FlattenSeq(t) = f[n] \o x /\ f[n] \in Seq(S)
    BY <1>2, <1>3, <2>2, <2>4, <2>5, <2>6
  <2>8. QED BY <2>2, <2>7 DEF t
<1>6. QED BY <1>4, <1>5

\* Where a row is cut in two does not matter.
LEMMA LinesInARow == \A a, b, c \in Seq(Nat) : (a \o b) \o c = a \o (b \o c)
<1> TAKE a, b, c \in Seq(Nat)
<1> QED BY ConcatAssociative

\* What is added to the last file is added to the row.
LEMMA ExtendLast ==
    ASSUME NEW d \in Seq(Seq(Nat)), Len(d) > 0, NEW s \in Seq(Nat)
    PROVE  /\ FlattenSeq(d) \in Seq(Nat)
           /\ FlattenSeq([d EXCEPT ![Len(d)] = @ \o s]) = FlattenSeq(d) \o s
<1>1. d # <<>>
  BY EmptySeq
<1>2. PICK e \in Seq(Seq(Nat)), z \in Seq(Nat) : d = Append(e, z)
  BY <1>1, SequenceEmptyOrAppend
<1>3. PICK n \in Nat : n = Len(e) /\ Len(d) = n + 1
  BY <1>2, LenProperties, AppendProperties
<1>4. d[n + 1] = z /\ \A i \in 1 .. n : d[i] = e[i]
  BY <1>2, <1>3, AppendProperties
<1>5. PICK y \in Seq(Nat) : y = z \o s
  BY ConcatProperties
<1>6. PICK g \in Seq(Seq(Nat)) : g = [d EXCEPT ![Len(d)] = @ \o s] /\ Len(g) = n + 1
  BY <1>3, LastFile
<1>7. PICK h \in Seq(Seq(Nat)) : h = Append(e, y) /\ Len(h) = n + 1
  BY <1>3, AppendProperties
<1>8. h[n + 1] = y /\ \A i \in 1 .. n : h[i] = e[i]
  BY <1>3, <1>7, AppendProperties
<1>9. g[n + 1] = y /\ \A i \in 1 .. n : g[i] = d[i]
  <2>1. d \in [1 .. n + 1 -> Seq(Nat)]
    BY <1>3, LenProperties
  <2>2. g = [d EXCEPT ![n + 1] = d[n + 1] \o s]
    BY <1>3, <1>6
  <2>3. n + 1 \in 1 .. n + 1 /\ \A i \in 1 .. n : i \in 1 .. n + 1 /\ i # n + 1
    OBVIOUS
  <2>4. g[n + 1] = d[n + 1] \o s /\ \A i \in 1 .. n : g[i] = d[i]
    BY <2>1, <2>2, <2>3, Zenon
  <2>5. QED BY <1>4, <1>5, <2>4, Zenon
<1>10. g = h
  <2>1. \A i \in 1 .. n + 1 : g[i] = h[i]
    <3>1. \A i \in 1 .. n + 1 : i \in 1 .. n \/ i = n + 1
      OBVIOUS
    <3>2. QED BY <1>4, <1>8, <1>9, <3>1, Zenon
  <2>2. QED BY <1>6, <1>7, <2>1, SeqEqual
<1>11. PICK b \in Seq(Nat) : b = FlattenSeq(e)
  BY FlattenAppend
<1>12. FlattenSeq(d) = b \o z
  BY <1>2, <1>11, FlattenAppend
<1>13. FlattenSeq(h) = b \o y
  BY <1>7, <1>11, FlattenAppend
<1>14. (b \o z) \o s = b \o (z \o s)
  BY LinesInARow, Zenon
<1>15. b \o z \in Seq(Nat)
  BY ConcatProperties
<1>16. QED BY <1>5, <1>6, <1>10, <1>12, <1>13, <1>14, <1>15, Zenon

\* A row is a prefix of what is put behind it.
LEMMA PrefixOfRow ==
    ASSUME NEW a \in Seq(Nat), NEW b \in Seq(Nat)
    PROVE  IsPrefix(a, a \o b)
<1>1. PICK m \in Nat, n \in Nat : m = Len(a) /\ n = Len(b)
  BY LenProperties
<1>2. PICK c \in Seq(Nat) : c = a \o b /\ Len(c) = m + n
  BY <1>1, ConcatProperties
<1>3. \A i \in 1 .. m : i \in 1 .. m + n /\ c[i] = a[i]
  BY <1>1, <1>2, ConcatProperties
<1>4. SubSeq(a, 1, m) = a
  BY <1>1, SubSeqFull
<1>5. SubSeq(c, 1, m) = a
  <2>1. \A i \in 1 .. m : c[i] \in Nat
    BY <1>2, <1>3, ElementOfSeq
  <2>2. PICK p \in Seq(Nat) : /\ p = SubSeq(c, 1, m) /\ Len(p) = m
                              /\ \A i \in 1 .. m : p[i] = c[i]
    <3>1. 1 \in Int /\ m \in Int /\ (m - 1 + 1 = m) /\ (1 > m => m = 0)
      OBVIOUS
    <3>2. SubSeq(c, 1, m) \in Seq(Nat)
      BY ONLY <2>1, <3>1, SubSeqProperties, Zenon
    <3>3. PICK p \in Seq(Nat) : p = SubSeq(c, 1, m)
      BY <3>2
    <3>4. Len(p) = IF 1 <= m THEN m - 1 + 1 ELSE 0
      BY ONLY <2>1, <3>1, <3>3, SubSeqProperties
    <3>5. \A i \in 1 .. m - 1 + 1 : p[i] = c[1 + i - 1]
      BY ONLY <2>1, <3>1, <3>3, SubSeqProperties
    <3>6. Len(p) = m
      BY <3>4
    <3>7. \A i \in 1 .. m : p[i] = c[i]
      BY <3>5
    <3>8. QED BY <3>3, <3>6, <3>7
  <2>3. QED BY <1>1, <1>3, <2>2, SeqEqual
<1>6. m <= m + n
  OBVIOUS
<1>7. QED BY <1>1, <1>2, <1>4, <1>5, <1>6 DEF IsPrefix

-----------------------------------------------------------------------------
(* The files are the sink AsyncLogger relies on. *)

\* The lines on disk, and those with the FILE's buffer behind them.
Durable(f) == FlattenSeq(f.disk)
Taken(f)   == Durable(f) \o f.buffer

\* Rows of lines that begin with the same lines.
Begins(a, b) == \E c \in Seq(Nat) : b = a \o c

LEMMA BeginsPrefix ==
    ASSUME NEW a \in Seq(Nat), NEW b, Begins(a, b)
    PROVE  IsPrefix(a, b) /\ b \in Seq(Nat)
<1>1. PICK c \in Seq(Nat) : b = a \o c
  BY DEF Begins
<1>2. QED BY <1>1, PrefixOfRow, ConcatProperties

LEMMA BeginsSelf ==
    ASSUME NEW a \in Seq(Nat)
    PROVE  Begins(a, a)
<1>1. a \o <<>> = a /\ <<>> \in Seq(Nat)
  BY ConcatEmptySeq, EmptySeq
<1>2. QED BY <1>1, Zenon DEF Begins

LEMMA BeginsChain ==
    ASSUME NEW a \in Seq(Nat), NEW b, NEW c, Begins(a, b), Begins(b, c)
    PROVE  Begins(a, c)
<1>1. PICK x \in Seq(Nat) : b = a \o x
  BY DEF Begins
<1>2. PICK y \in Seq(Nat) : c = b \o y
  BY DEF Begins
<1>3. (a \o x) \o y = a \o (x \o y)
  BY LinesInARow, Zenon
<1>4. PICK z \in Seq(Nat) : z = x \o y
  BY ConcatProperties
<1>5. c = a \o z
  BY <1>1, <1>2, <1>3, <1>4, Zenon
<1>6. QED BY <1>5, Zenon DEF Begins

\* Of the lines that were to be written, those that are come behind the lines on disk;
\* put the others behind them, and no line has moved.
LEMMA WrittenLines ==
    ASSUME NEW d \in Seq(Seq(Nat)), Len(d) > 0, NEW ls \in Seq(Nat), NEW k \in 0 .. Len(ls)
    PROVE  /\ FlattenSeq(d) \in Seq(Nat) /\ FlattenSeq(Written(d, ls, k)) \in Seq(Nat)
           /\ Written(d, ls, k) \in Seq(Seq(Nat))
           /\ SubSeq(ls, k + 1, Len(ls)) \in Seq(Nat)
           /\ Begins(FlattenSeq(d), FlattenSeq(Written(d, ls, k)))
           /\ FlattenSeq(Written(d, ls, k)) \o SubSeq(ls, k + 1, Len(ls)) = FlattenSeq(d) \o ls
           /\ k = Len(ls) => FlattenSeq(Written(d, ls, k)) = FlattenSeq(d) \o ls
<1>1. PICK m \in Nat : m = Len(ls) /\ k \in 0 .. m
  BY LenProperties
<1>2. \A i \in 1 .. m : ls[i] \in Nat
  BY <1>1, ElementOfSeq
<1>3. PICK x \in Seq(Nat) : x = SubSeq(ls, 1, k)
  <2>1. 1 \in Int /\ k \in Int /\ \A i \in 1 .. k : ls[i] \in Nat
    BY <1>1, <1>2
  <2>2. SubSeq(ls, 1, k) \in Seq(Nat)
    BY ONLY <2>1, SubSeqProperties, Zenon
  <2>3. QED BY <2>2
<1>4. PICK y \in Seq(Nat) : y = SubSeq(ls, k + 1, m)
  <2>1. k + 1 \in Int /\ m \in Int /\ \A i \in k + 1 .. m : ls[i] \in Nat
    BY <1>1, <1>2
  <2>2. SubSeq(ls, k + 1, m) \in Seq(Nat)
    BY ONLY <2>1, SubSeqProperties, Zenon
  <2>3. QED BY <2>2
<1>5. SubSeq(ls, 1, m) = ls
  BY <1>1, SubSeqFull
<1>6. x \o y = ls
  <2>1. 1 \in 1 .. Len(ls) + 1 /\ k \in 1 - 1 .. Len(ls) /\ m \in k .. Len(ls)
    BY <1>1
  <2>2. SubSeq(ls, 1, k) \o SubSeq(ls, k + 1, m) = SubSeq(ls, 1, m)
    BY <2>1, ConcatAdjacentSubSeq
  <2>3. QED BY <1>3, <1>4, <1>5, <2>2
<1>7. PICK e \in Seq(Nat) : e = FlattenSeq(d)
  BY ExtendLast, EmptySeq
<1>8. FlattenSeq(Written(d, ls, k)) = e \o x /\ Written(d, ls, k) \in Seq(Seq(Nat))
  BY <1>3, <1>7, ExtendLast, LastFile DEF Written
<1>9. e \o x \in Seq(Nat)
  BY ConcatProperties
<1>10. (e \o x) \o y = e \o (x \o y)
  BY LinesInARow, Zenon
<1>11. Begins(e, e \o x)
  BY Zenon DEF Begins
<1>12. k = m => x = ls
  BY <1>3, <1>5
<1>13. QED BY <1>1, <1>4, <1>6, <1>7, <1>8, <1>9, <1>10, <1>11, <1>12, Zenon

\* fflush() and fclose() write lines of the buffer in order, and all of them unless the
\* file system is faulty.
LEMMA FlushesLines ==
    ASSUME NEW f, f.disk \in Seq(Seq(Nat)), Len(f.disk) > 0, f.buffer \in Seq(Nat),
           NEW d \in Flushes(f)
    PROVE  /\ d \in Seq(Seq(Nat)) /\ FlattenSeq(d) \in Seq(Nat) /\ Durable(f) \in Seq(Nat)
           /\ Begins(Durable(f), FlattenSeq(d)) /\ Begins(FlattenSeq(d), Taken(f))
           /\ faulty \/ FlattenSeq(d) = Taken(f)
<1>1. PICK e \in Seq(Seq(Nat)), s \in Seq(Nat) : e = f.disk /\ s = f.buffer /\ Len(e) > 0
  OBVIOUS
<1>2. Len(s) \in Nat
  BY LenProperties
<1>3. PICK k \in 0 .. Len(s) : d = Written(e, s, k) /\ (faulty \/ k = Len(s))
  BY <1>1, <1>2 DEF Flushes
<1>4. Durable(f) = FlattenSeq(e) /\ Taken(f) = FlattenSeq(e) \o s
  BY <1>1 DEF Durable, Taken
<1>5. /\ FlattenSeq(e) \in Seq(Nat) /\ FlattenSeq(d) \in Seq(Nat) /\ d \in Seq(Seq(Nat))
      /\ SubSeq(s, k + 1, Len(s)) \in Seq(Nat)
      /\ Begins(FlattenSeq(e), FlattenSeq(d))
      /\ FlattenSeq(d) \o SubSeq(s, k + 1, Len(s)) = FlattenSeq(e) \o s
      /\ k = Len(s) => FlattenSeq(d) = FlattenSeq(e) \o s
  BY <1>1, <1>3, WrittenLines
<1>6. Begins(FlattenSeq(d), FlattenSeq(e) \o s)
  BY <1>5, Zenon DEF Begins
<1>7. QED BY <1>3, <1>4, <1>5, <1>6, Zenon

\* Of the lines t, disk and buffer keep what a sink may keep.
Holds(t, D, T) ==
    /\ Begins(FlattenSeq(disk), D) /\ Begins(D, t)
    /\ T = t \/ (faulty /\ T = D)

\* append() of the AppendFile takes the line behind all others, or loses it, and on a
\* faulty file system the buffer with it.
LEMMA AppendLineTakes ==
    ASSUME TypeOK, FilesInv, NEW len \in Lengths, NEW f \in AppendLine(len)
    PROVE  /\ f.buffer \in Seq(Nat) /\ FlattenSeq(disk) \in Seq(Nat)
           /\ \E t \in {FlattenSeq(disk) \o buffer, Append(FlattenSeq(disk) \o buffer, lines + 1)} :
                Holds(t, Durable(f), Taken(f))
<1>1. /\ lines \in Nat /\ lines + 1 \in Nat /\ written \in Nat /\ len \in Nat
      /\ buffer \in Seq(1 .. lines)
  BY LogFileAssumption DEF TypeOK
<1>2. PICK b \in Seq(Nat) : b = buffer
  <2>1. 1 .. lines \subseteq Nat
    BY <1>1
  <2>2. buffer \in Seq(Nat)
    BY ONLY <1>1, <2>1, SeqMonotonic, Zenon
  <2>3. QED BY <2>2
<1>3. PICK d \in Seq(Nat) : d = FlattenSeq(disk)
  BY ExtendLast, EmptySeq DEF FilesInv
<1>4. PICK l \in Nat : l = lines + 1
  BY <1>1
<1>5. PICK e \in Seq(Seq(Nat)) : e = disk /\ Len(e) > 0 /\ d = FlattenSeq(e)
  BY <1>3 DEF FilesInv
<1>6. CASE f \in Spills(Append(buffer, lines + 1), written + len)
  <2>1. PICK a \in Seq(Nat) : a = Append(b, l)
    BY AppendProperties
  <2>2. PICK k \in 0 .. Len(a) : f.disk = Written(e, a, k) /\ f.buffer = SubSeq(a, k + 1, Len(a))
    <3>1. f \in Spills(a, written + len)
      BY <1>2, <1>4, <1>6, <2>1, Zenon
    <3>2. PICK k \in 0 .. Len(a) : f = [disk |-> Written(disk, a, k),
            buffer |-> SubSeq(a, k + 1, Len(a)), written |-> written + len]
      BY <3>1, Zenon DEF Spills
    <3>3. QED BY <1>5, <3>2
  <2>3. /\ f.buffer \in Seq(Nat) /\ Durable(f) \in Seq(Nat) /\ Begins(d, Durable(f))
        /\ Taken(f) = d \o a
    <3>1. /\ FlattenSeq(Written(e, a, k)) \in Seq(Nat)
          /\ SubSeq(a, k + 1, Len(a)) \in Seq(Nat)
          /\ Begins(FlattenSeq(e), FlattenSeq(Written(e, a, k)))
          /\ FlattenSeq(Written(e, a, k)) \o SubSeq(a, k + 1, Len(a)) = FlattenSeq(e) \o a
      BY <1>5, WrittenLines
    <3>2. QED BY <1>5, <2>2, <3>1, Zenon DEF Durable, Taken
  <2>4. Begins(Durable(f), Taken(f))
    BY <2>3, Zenon DEF Taken, Begins
  <2>5. d \o a = Append(d \o b, l)
    <3>1. <<l>> \in Seq(Nat) /\ Append(b, l) = b \o <<l>>
      BY AppendIsConcat
    <3>2. PICK r \in Seq(Nat) : r = d \o b
      BY ConcatProperties
    <3>3. Append(r, l) = r \o <<l>>
      BY AppendIsConcat
    <3>4. (d \o b) \o <<l>> = d \o (b \o <<l>>)
      BY <3>1, LinesInARow, Zenon
    <3>5. QED BY <2>1, <3>1, <3>2, <3>3, <3>4, Zenon
  <2>6. Holds(Append(d \o b, l), Durable(f), Taken(f))
    BY <1>3, <2>3, <2>4, <2>5, Zenon DEF Holds
  <2>7. QED BY <1>2, <1>3, <1>4, <2>3, <2>6, Zenon
<1>7. CASE faulty /\ f \in Failures
  <2>1. PICK k \in 0 .. Len(b) : f.disk = Written(e, b, k) /\ f.buffer = <<>>
    <3>1. PICK k \in 0 .. Len(buffer) :
            f = [disk |-> Written(disk, buffer, k), buffer |-> <<>>, written |-> written]
      BY <1>7, Zenon DEF Failures
    <3>2. f.disk = Written(disk, buffer, k) /\ f.buffer = <<>>
      BY <3>1
    <3>3. QED BY <1>2, <1>5, <3>2
  <2>2. /\ Durable(f) \in Seq(Nat) /\ Begins(d, Durable(f))
        /\ \E y \in Seq(Nat) : Durable(f) \o y = d \o b
    <3>1. /\ FlattenSeq(Written(e, b, k)) \in Seq(Nat)
          /\ SubSeq(b, k + 1, Len(b)) \in Seq(Nat)
          /\ Begins(FlattenSeq(e), FlattenSeq(Written(e, b, k)))
          /\ FlattenSeq(Written(e, b, k)) \o SubSeq(b, k + 1, Len(b)) = FlattenSeq(e) \o b
      BY <1>5, WrittenLines
    <3>2. QED BY <1>5, <2>1, <3>1, Zenon DEF Durable
  <2>3. Durable(f) \in Seq(Nat) /\ Begins(d, Durable(f))
    BY <2>2
  <2>4. Begins(Durable(f), d \o b)
    BY <2>2, Zenon DEF Begins
  <2>5. Taken(f) = Durable(f) /\ f.buffer \in Seq(Nat)
    BY <2>1, <2>3, ConcatEmptySeq, EmptySeq DEF Taken
  <2>6. Holds(d \o b, Durable(f), Taken(f))
    BY <1>3, <1>7, <2>3, <2>4, <2>5, Zenon DEF Holds
  <2>7. QED BY <1>2, <1>3, <2>5, <2>6, Zenon
<1>8. CASE f = [disk |-> disk, buffer |-> buffer, written |-> written]
  <2>1. Durable(f) = d /\ f.buffer = b /\ Taken(f) = d \o b
    BY <1>2, <1>3, <1>8 DEF Durable, Taken
  <2>2. Begins(d, d) /\ Begins(d, d \o b)
    BY BeginsSelf, Zenon DEF Begins
  <2>3. Holds(d \o b, Durable(f), Taken(f))
    BY <1>3, <2>1, <2>2, Zenon DEF Holds
  <2>4. QED BY <1>2, <1>3, <2>1, <2>3, Zenon
<1>9. QED BY <1>6, <1>7, <1>8 DEF AppendLine

\* Rolling, flushing or neither, append() leaves a sink what it may leave.
LEMMA AppendLeaves ==
    ASSUME TypeOK, FilesInv, NEW len \in Lengths, NEW f \in AppendLine(len),
           RollFile(f) \/ Upkeep(f) \/ KeepFile(f)
    PROVE  \E t \in {FlattenSeq(disk) \o buffer, Append(FlattenSeq(disk) \o buffer, lines + 1)} :
             Holds(t, FlattenSeq(disk'), FlattenSeq(disk') \o buffer')
<1>1. f.disk \in Seq(Seq(Nat)) /\ Len(f.disk) > 0 /\ f.buffer \in Seq(Nat)
  BY AppendLineTyped, AppendLineTakes DEF FilesInv
<1>2. PICK t \in {FlattenSeq(disk) \o buffer, Append(FlattenSeq(disk) \o buffer, lines + 1)} :
        Holds(t, Durable(f), Taken(f))
  BY AppendLineTakes
<1>3. CASE KeepFile(f)
  <2>1. FlattenSeq(disk') = Durable(f) /\ FlattenSeq(disk') \o buffer' = Taken(f)
    BY <1>3 DEF KeepFile, Durable, Taken
  <2>2. QED BY <1>2, <2>1
<1>4. ASSUME NEW d \in Flushes(f), disk' = d \/ disk' = Append(d, <<>>), buffer' = <<>>
      PROVE  Holds(t, FlattenSeq(disk'), FlattenSeq(disk') \o buffer')
  <2>1. PICK F \in Seq(Nat) : F = FlattenSeq(d)
    BY <1>1, FlushesLines
  <2>2. F \o <<>> = F
    BY ConcatEmptySeq
  <2>3. FlattenSeq(disk') = F /\ FlattenSeq(disk') \o buffer' = F
    <3>1. d \in Seq(Seq(Nat)) /\ <<>> \in Seq(Nat)
      BY <1>1, FlushesLines, EmptySeq
    <3>2. FlattenSeq(Append(d, <<>>)) = F \o <<>>
      BY <2>1, <3>1, FlattenAppend
    <3>3. QED BY <1>4, <2>1, <2>2, <3>2, Zenon
  <2>4. /\ Durable(f) \in Seq(Nat) /\ Begins(Durable(f), F) /\ Begins(F, Taken(f))
        /\ faulty \/ F = Taken(f)
    BY <1>1, <2>1, FlushesLines
  <2>5. FlattenSeq(disk) \in Seq(Nat)
    BY AppendLineTakes
  <2>6. Begins(FlattenSeq(disk), F)
    BY <1>2, <2>4, <2>5, BeginsChain DEF Holds
  <2>7. CASE Taken(f) = t
    BY <2>3, <2>4, <2>6, <2>7, Zenon DEF Holds
  <2>8. CASE faulty /\ Taken(f) = Durable(f)
    <3>1. Begins(Durable(f), t)
      BY <1>2 DEF Holds
    <3>2. Begins(F, t)
      BY <2>4, <2>8, <3>1, BeginsChain
    <3>3. QED BY <2>3, <2>6, <2>8, <3>2, Zenon DEF Holds
  <2>9. QED BY <1>2, <2>7, <2>8 DEF Holds
<1>5. CASE \E d \in Flushes(f) : (disk' = d \/ disk' = Append(d, <<>>)) /\ buffer' = <<>>
  BY <1>4, <1>5, Zenon
<1>6. QED BY <1>3, <1>5 DEF RollFile, Upkeep

\* The constructor's empty file is an empty sink.
LEMMA InitSink == Init => Sink!SinkInit
<1> SUFFICES ASSUME Init PROVE Sink!SinkInit
  OBVIOUS
<1>1. disk = <<<<>>>> /\ buffer = <<>> /\ faulty \in BOOLEAN
  BY DEF Init
<1>2. <<<<>>>> = Append(<<>>, <<>>)
  OBVIOUS
<1>3. FlattenSeq(Append(<<>>, <<>>)) = FlattenSeq(<<>>) \o <<>>
  BY FlattenAppend, EmptySeq
<1>4. <<>> \o <<>> = <<>>
  BY ConcatEmptySeq, EmptySeq
<1>5. FlattenSeq(disk) = <<>>
  BY <1>1, <1>2, <1>3, <1>4, FlattenEmpty, Zenon
<1>6. QED BY <1>1, <1>4, <1>5 DEF Sink!SinkInit

\* append() is a write, flush() a flush, and the clock none of the sink's business.
LEMMA SinkStep ==
    ASSUME Inv, [Next]_vars
    PROVE  [Sink!SinkNext]_<<FlattenSeq(disk) \o buffer, FlattenSeq(disk), faulty>>
<1> USE DEF Inv
<1>1. FlattenSeq(disk) \in Seq(Nat)
  BY ExtendLast, EmptySeq DEF FilesInv
<1>2. ASSUME NEW t, Holds(t, FlattenSeq(disk'), FlattenSeq(disk') \o buffer'), UNCHANGED faulty
      PROVE  Sink!Outcome(t)
  <2>1. IsPrefix(FlattenSeq(disk), FlattenSeq(disk')) /\ FlattenSeq(disk') \in Seq(Nat)
    BY <1>1, <1>2, BeginsPrefix DEF Holds
  <2>2. IsPrefix(FlattenSeq(disk'), t)
    BY <1>2, <2>1, BeginsPrefix DEF Holds
  <2>3. \A a, b : IsPrefix(a, b) => Sink!IsPrefix(a, b)
    BY DEF IsPrefix, Sink!IsPrefix
  <2>4. \/ FlattenSeq(disk') \o buffer' = t
        \/ faulty /\ FlattenSeq(disk') \o buffer' = FlattenSeq(disk')
    BY <1>2 DEF Holds
  <2>5. QED BY <1>2, <2>1, <2>2, <2>3, <2>4, Zenon DEF Sink!Outcome
<1>3. ASSUME NEW len \in Lengths, AppendLog(len) PROVE \E l \in 1 .. MaxLines : Sink!Write(l)
  <2>1. PICK f \in AppendLine(len) : RollFile(f) \/ Upkeep(f) \/ KeepFile(f)
    BY <1>3 DEF AppendLog
  <2>2. PICK l \in 1 .. MaxLines : l = lines + 1
    BY <1>3, LogFileAssumption DEF AppendLog, TypeOK
  <2>3. PICK t \in {FlattenSeq(disk) \o buffer, Append(FlattenSeq(disk) \o buffer, lines + 1)} :
          Holds(t, FlattenSeq(disk'), FlattenSeq(disk') \o buffer')
    BY <2>1, AppendLeaves
  <2>4. UNCHANGED faulty
    BY <1>3 DEF AppendLog
  <2>5. Sink!Outcome(t)
    BY <1>2, <2>3, <2>4
  <2>6. Sink!Write(l)
    BY <2>2, <2>3, <2>5, Zenon DEF Sink!Write
  <2>7. QED BY <2>6
<1>4. ASSUME FlushLog PROVE Sink!Flush
  <2>1. PICK f : f = [disk |-> disk, buffer |-> buffer]
    OBVIOUS
  <2>2. /\ disk' \in Flushes(f) /\ buffer' = <<>> /\ f.disk = disk /\ f.buffer = buffer
        /\ UNCHANGED faulty
    BY <1>4, <2>1 DEF FlushLog
  <2>3. f.disk \in Seq(Seq(Nat)) /\ Len(f.disk) > 0 /\ f.buffer \in Seq(Nat)
    <3>1. buffer \in Seq(1 .. lines) /\ 1 .. lines \subseteq Nat
      BY DEF TypeOK
    <3>2. buffer \in Seq(Nat)
      BY ONLY <3>1, SeqMonotonic, Zenon
    <3>3. QED BY <2>2, <3>2 DEF FilesInv
  <2>4. Durable(f) = FlattenSeq(disk) /\ Taken(f) = FlattenSeq(disk) \o buffer
    BY <2>2 DEF Taken, Durable
  <2>5. /\ FlattenSeq(disk') \in Seq(Nat)
        /\ Begins(FlattenSeq(disk), FlattenSeq(disk'))
        /\ Begins(FlattenSeq(disk'), FlattenSeq(disk) \o buffer)
        /\ faulty \/ FlattenSeq(disk') = FlattenSeq(disk) \o buffer
    BY <2>2, <2>3, <2>4, FlushesLines
  <2>6. FlattenSeq(disk') \o buffer' = FlattenSeq(disk')
    BY <2>2, <2>5, ConcatEmptySeq
  <2>7. Holds(FlattenSeq(disk) \o buffer, FlattenSeq(disk'), FlattenSeq(disk') \o buffer')
    BY <2>5, <2>6, Zenon DEF Holds
  <2>8. Sink!Outcome(FlattenSeq(disk) \o buffer)
    BY <1>2, <2>2, <2>7
  <2>9. QED BY <2>6, <2>8, Zenon DEF Sink!Flush
<1>5. ASSUME Fault PROVE Sink!Fault
  BY <1>5 DEF Fault, Sink!Fault
<1>6. ASSUME Tick \/ SetBack \/ UNCHANGED vars PROVE UNCHANGED <<disk, buffer, faulty>>
  BY <1>6 DEF Tick, SetBack, vars
<1>7. QED BY <1>3, <1>4, <1>5, <1>6 DEF Next, Sink!SinkNext

\* LogFile implements LogSink: over any rolls, clock changes, failed opens and failed
\* writes the files hold the taken lines in order, complete but for the FILE's buffer;
\* only a failing fwrite, fflush or fclose loses lines, and none that is on disk.
THEOREM FilesAreASink == Spec => ImplementsSink
<1>1. Inv /\ [Next]_vars => [Sink!SinkNext]_<<FlattenSeq(disk) \o buffer, FlattenSeq(disk), faulty>>
  BY SinkStep
<1>2. QED BY <1>1, InitSink, Invariance, PTL DEF Spec, ImplementsSink, Sink!SinkSpec
==========================================================================
