------------------------------- MODULE LogFile --------------------------------
(***************************************************************************)
(* coro_net::LogFile and AppendFile: the file of the logger's backend       *)
(* thread, rolled by size and by day.  Only that thread uses it; what       *)
(* changes around it is the wall clock, which time() reads and which may be *)
(* set back, and the file system.  An open may fail at any time.  While the *)
(* file system is faulty (full, say) so may any write, be it fwrite's,      *)
(* fflush's or fclose's: what the C library has not written by then is      *)
(* dropped from the FILE's buffer.  LogFile looks at no result but          *)
(* fwrite's.  The torn end of a line whose write failed is left out.        *)
(*                                                                          *)
(* A file name is its second and its sequence number (basename, host and    *)
(* process id do not change).  The n-th append() writes line n, of some     *)
(* length.  Files are kept in the order in which they were opened.          *)
(***************************************************************************)
EXTENDS Integers, Sequences, SequencesExt

CONSTANTS
    RollSize,      \* roll_size_
    FlushInterval, \* flush_interval_
    CheckEveryN,   \* check_every_n_
    Day,           \* kRollPerSeconds
    Lengths,       \* lengths of what is appended
    MaxTime,       \* bound: the clock's last second
    MaxLines       \* bound: how often append() is called

ASSUME LogFileAssumption ==
    /\ RollSize \in Nat /\ FlushInterval \in Nat
    /\ CheckEveryN \in Nat \ {0} /\ Day \in Nat \ {0}
    /\ Lengths \subseteq Nat /\ MaxTime \in Nat \ {0} /\ MaxLines \in Nat

VARIABLES
    now,           \* what time() returns
    setBack,       \* history: the clock was set back
    faulty,        \* writes to the file system may fail at present
    count,         \* count_
    sameSecondSeq, \* same_second_seq_
    startOfPeriod, \* start_of_period_
    lastRoll,      \* last_roll_
    lastFlush,     \* last_flush_
    fp,            \* file_->fp_ is not null
    written,       \* file_->written_bytes_
    buffer,        \* file_->buffer_: lines not yet written to the file
    names,         \* the name of each file, in the order of opening
    disk,          \* the lines in each of them
    lines,         \* how many lines were appended
    late,          \* history: appends in a row that found a new day or a flush overdue
    behind         \* history: the last append found the clock before the last roll

clock == <<now, setBack>>
vars  == <<clock, faulty, count, sameSecondSeq, startOfPeriod, lastRoll, lastFlush, fp,
           written, buffer, names, disk, lines, late, behind>>

Period(t) == (t \div Day) * Day

\* Types, and how the dates that LogFile keeps relate.
TypeOK ==
    /\ now \in 1 .. MaxTime /\ setBack \in BOOLEAN /\ faulty \in BOOLEAN
    /\ count \in 0 .. CheckEveryN - 1 /\ sameSecondSeq \in Nat
    /\ lastRoll \in 1 .. MaxTime /\ lastFlush \in lastRoll .. MaxTime
    /\ startOfPeriod = Period(lastRoll)
    /\ fp \in BOOLEAN /\ written \in Nat /\ lines \in 0 .. MaxLines
    /\ buffer \in Seq(1 .. lines) /\ late \in Nat /\ behind \in BOOLEAN
    /\ Len(names) = Len(disk)

\* The constructor rolls for the first time.
Init ==
    /\ now \in 1 .. MaxTime /\ setBack = FALSE /\ faulty \in BOOLEAN
    /\ count = 0 /\ sameSecondSeq = 0
    /\ startOfPeriod = Period(now) /\ lastRoll = now /\ lastFlush = now
    /\ fp \in BOOLEAN /\ written = 0 /\ buffer = <<>>
    /\ names = <<<<now, 0>>>> /\ disk = <<<<>>>>
    /\ lines = 0 /\ late = 0 /\ behind = FALSE

-----------------------------------------------------------------------------
(* The clock and the file system. *)

Tick ==
    /\ now < MaxTime /\ now' = now + 1
    /\ UNCHANGED <<setBack, faulty, count, sameSecondSeq, startOfPeriod, lastRoll, lastFlush,
                   fp, written, buffer, names, disk, lines, late, behind>>

SetBack ==
    /\ now' \in 1 .. now - 1 /\ setBack' = TRUE
    /\ UNCHANGED <<faulty, count, sameSecondSeq, startOfPeriod, lastRoll, lastFlush, fp,
                   written, buffer, names, disk, lines, late, behind>>

\* The file system begins to refuse writes, or takes them again.
Fault ==
    /\ faulty' = ~faulty
    /\ UNCHANGED <<clock, count, sameSecondSeq, startOfPeriod, lastRoll, lastFlush, fp,
                   written, buffer, names, disk, lines, late, behind>>

-----------------------------------------------------------------------------
(* AppendFile: what may be on disk, in the FILE's buffer and in written_bytes_. *)

\* The first k of the lines reach the last file of d.
Written(d, ls, k) == [d EXCEPT ![Len(d)] = @ \o SubSeq(ls, 1, k)]

\* The FILE's buffer spills at any point.
Spills(all, w) ==
    {[disk |-> Written(disk, all, k), buffer |-> SubSeq(all, k + 1, Len(all)),
      written |-> w] : k \in 0 .. Len(all)}

\* A failing fwrite: the line is lost, and what the buffer held and did not reach
\* the file; nothing is counted.
Failures ==
    {[disk |-> Written(disk, buffer, k), buffer |-> <<>>, written |-> written] :
        k \in 0 .. Len(buffer)}

\* append(): nothing without a FILE.
AppendLine(len) ==
    IF fp
    THEN Spills(Append(buffer, lines + 1), written + len)
         \cup (IF faulty /\ len > 0 THEN Failures ELSE {})
    ELSE {[disk |-> disk, buffer |-> buffer, written |-> written]}

Flushes_NoWrite(f) == {f.disk}

\* fflush() and fclose(), whose results nobody looks at: what may be in the files
\* afterwards.  The buffer is empty either way.
Flushes(f) ==
    {Written(f.disk, f.buffer, k) :
        k \in IF faulty THEN 0 .. Len(f.buffer) ELSE {Len(f.buffer)}}

-----------------------------------------------------------------------------
(* LogFile; f is the AppendFile after the write. *)

KeepFile(f) ==
    /\ disk' = f.disk /\ buffer' = f.buffer /\ written' = f.written
    /\ UNCHANGED <<startOfPeriod, lastRoll, lastFlush, fp, names>>

MakeFilename_NoSeq == 0

\* make_filename: the sequence number of a name made now.
MakeFilename == IF now = lastRoll THEN sameSecondSeq + 1 ELSE 0

RollAllowed_Strict == now > lastRoll

RollAllowed == now >= lastRoll

\* roll_file: nothing but the sequence number changes while the clock is behind
\* the last roll; else the new file is opened, or fails to, and the old one closed.
RollFile(f) ==
    /\ sameSecondSeq' = MakeFilename
    /\ \/ ~RollAllowed /\ KeepFile(f)
       \/ /\ RollAllowed
          /\ lastRoll' = now /\ lastFlush' = now /\ startOfPeriod' = Period(now)
          /\ names' = Append(names, <<now, MakeFilename>>)
          /\ fp' \in BOOLEAN /\ written' = 0
          /\ disk' \in {Append(d, <<>>) : d \in Flushes(f)} /\ buffer' = <<>>

Upkeep_NoDayRoll(f) == KeepFile(f) /\ UNCHANGED sameSecondSeq

\* Every CheckEveryN appends: roll on another day, else flush after the interval.
Upkeep(f) ==
    \/ Period(now) # startOfPeriod /\ RollFile(f)
    \/ /\ Period(now) = startOfPeriod /\ now - lastFlush > FlushInterval
       /\ lastFlush' = now /\ disk' \in Flushes(f) /\ buffer' = <<>> /\ written' = f.written
       /\ UNCHANGED <<sameSecondSeq, startOfPeriod, lastRoll, fp, names>>
    \/ /\ Period(now) = startOfPeriod /\ now - lastFlush <= FlushInterval
       /\ KeepFile(f) /\ UNCHANGED sameSecondSeq

CheckDue == count + 1 >= CheckEveryN

\* append(): a file over its size is rolled, and not counted.
AppendLog(len) ==
    /\ lines < MaxLines /\ lines' = lines + 1
    /\ behind' = (now < lastRoll)
    /\ \E f \in AppendLine(len) :
        \/ f.written > RollSize /\ RollFile(f) /\ count' = count
        \/ f.written <= RollSize /\ CheckDue /\ Upkeep(f) /\ count' = 0
        \/ /\ f.written <= RollSize /\ ~CheckDue
           /\ KeepFile(f) /\ UNCHANGED sameSecondSeq /\ count' = count + 1
    /\ late' = IF lastFlush' # now /\ (Period(now) > startOfPeriod
                                        \/ now - lastFlush > FlushInterval)
               THEN late + 1 ELSE 0
    /\ UNCHANGED <<clock, faulty>>

\* flush(), called by the backend after each round.
FlushLog ==
    /\ disk' \in Flushes([disk |-> disk, buffer |-> buffer]) /\ buffer' = <<>>
    /\ UNCHANGED <<clock, faulty, count, sameSecondSeq, startOfPeriod, lastRoll, lastFlush, fp,
                   written, names, lines, late, behind>>

Next == Tick \/ SetBack \/ Fault \/ FlushLog \/ \E len \in Lengths : AppendLog(len)

Spec == Init /\ [][Next]_vars

-----------------------------------------------------------------------------
(* Properties. *)

Sink == INSTANCE LogSink
    WITH Lines <- 1 .. MaxLines, taken <- FlattenSeq(disk) \o buffer,
         durable <- FlattenSeq(disk)

\* Whatever rolls, clock changes, failed opens and failed writes happen between appends,
\* the files read in the order of their opening are a sink: no taken line is doubled or
\* overtaken, none that reached the disk is lost, and none is lost at all nor left in the
\* buffer by a flush unless the file system was faulty just then.
ImplementsSink == Sink!SinkSpec

\* make_filename's sequence numbers keep names apart; only a clock that was set
\* back can make two files share one.
NameReuseNeedsSetBack ==
    \A i, j \in DOMAIN names : i # j /\ names[i] = names[j] => setBack

\* A file outgrows roll_size_ only through appends made while the clock was behind
\* the last roll: the first append after it caught up rolls.
OutgrownOnlyBehind == written > RollSize => behind

\* The check that only every check_every_n_-th append makes is never starved by
\* rolls or failures: a new day, or an overdue flush, is found within that many.
UpkeepInTime == TypeOK /\ late < CheckEveryN
=============================================================================
