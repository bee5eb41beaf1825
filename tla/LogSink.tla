------------------------------- MODULE LogSink --------------------------------
(***************************************************************************)
(* What the logger's backend may expect of the file it writes to.  Lines    *)
(* are taken in order; what is durable is always a prefix of what was       *)
(* taken, and stays durable.  A flush leaves nothing taken that is not      *)
(* durable.  On a healthy file system no line that was taken is lost, so    *)
(* that a flush makes all of them durable; on a faulty one those that are   *)
(* not durable may be lost, without notice.                                 *)
(***************************************************************************)
EXTENDS Sequences, SequencesExt

CONSTANT Lines

VARIABLES taken, durable, faulty

SinkInit == taken = <<>> /\ durable = <<>> /\ faulty \in BOOLEAN

\* Of the lines t some more may reach the disk; the others stay taken, or, on a
\* faulty file system only, are lost.
Outcome(t) ==
    /\ IsPrefix(durable, durable') /\ IsPrefix(durable', t)
    /\ taken' = t \/ (faulty /\ taken' = durable')
    /\ UNCHANGED faulty

\* A line is taken, or refused for good.
Write(l) == \E t \in {taken, Append(taken, l)} : Outcome(t)

Flush == Outcome(taken) /\ taken' = durable'

Fault == faulty' = ~faulty /\ UNCHANGED <<taken, durable>>

SinkNext == (\E l \in Lines : Write(l)) \/ Flush \/ Fault

SinkSpec == SinkInit /\ [][SinkNext]_<<taken, durable, faulty>>
=============================================================================
