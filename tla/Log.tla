---------------------------------- MODULE Log ----------------------------------
(***************************************************************************)
(* kernel/os_log.c: lines written by tasks and interrupts into a byte ring *)
(* that the log task drains into the output hook of the application.       *)
(*                                                                         *)
(* A byte is the colour of its line and its place in it.  The formatting   *)
(* of a line is left out but for the lengths it gives.                     *)
(***************************************************************************)
EXTENDS Naturals, Sequences, FiniteSetsExt

CONSTANTS
    BufferSize,     \* OS_CONFIG_LOG_BUFFER_SIZE
    LineMax,        \* OS_CONFIG_LOG_LINE_MAX
    Prefix,         \* the length of the time stamp and the severity
    Bodies,         \* the lengths vsnprintf may report
    DropModulus     \* the counts of dropped lines wrap here, at 2^32 in the code

\* No check of the code holds the longest line under the size of the ring: a
\* longer one would be dropped even when the ring is empty, and not reported
\* before another is queued.
ASSUME LogAssumption ==
    /\ LineMax \in Nat /\ Prefix \in Nat /\ Prefix + 3 < LineMax
    /\ BufferSize \in Nat /\ LineMax < BufferSize
    /\ Bodies \subseteq Nat /\ DropModulus \in Nat \ {0}

Colour == 0 .. 1
Place == 0 .. BufferSize - 1
Line(c, length) == [i \in 1 .. length |-> <<c, i>>]

VARIABLES
    ring, logHead, logTail, dropped, droppedPending, \* os_log_*
    logPc,          \* where the log task is
    chunk,          \* its chunk and length: where the hook reads, and how much
    notice,         \* its dropped
    owedLines,      \* bytes accepted that the hook has not seen
    reported        \* dropped lines the hook was told of

counters == <<dropped, droppedPending>>
logVars == <<ring, logHead, logTail, counters, logPc, chunk, notice, owedLines, reported>>

NoChunk == [from |-> 0, length |-> 0]

\* os_log_system_init, and the log task ready to run.
LogInit ==
    /\ ring = [i \in Place |-> <<0, 0>>]
    /\ logHead = 0 /\ logTail = 0
    /\ dropped = 0 /\ droppedPending = 0
    /\ logPc = "look" /\ chunk = NoChunk /\ notice = 0
    /\ owedLines = <<>> /\ reported = 0

-----------------------------------------------------------------------------
(* os_log_write                                                            *)

\* The line as long as it fits, its ending included.
Total(body) == Min({Prefix + body, LineMax - 3}) + 2

FreeSpace ==
    BufferSize - 1 - (IF logHead >= logTail THEN logHead - logTail
                      ELSE BufferSize - (logTail - logHead))

\* Mutant: the part of a line that wraps is copied behind the other.
PutStraight(data) ==
    [i \in Place |-> IF i >= logHead /\ i < logHead + Len(data) THEN data[i - logHead + 1]
                     ELSE ring[i]]
\* os_log_put: up to the end of the buffer, the rest from its start.
PutLine(data) ==
    LET first == Min({BufferSize - logHead, Len(data)}) IN
    [i \in Place |->
       IF i >= logHead /\ i < logHead + first THEN data[i - logHead + 1]
       ELSE IF i < Len(data) - first THEN data[first + i + 1]
       ELSE ring[i]]

\* os_log_queue; the wake reaches the log task only when it sleeps.
LogWrite(data) ==
    IF FreeSpace < Len(data)
    THEN /\ dropped' = (dropped + 1) % DropModulus
         /\ droppedPending' = (droppedPending + 1) % DropModulus
         /\ UNCHANGED <<ring, logHead, logTail, logPc, chunk, notice, owedLines, reported>>
    ELSE /\ ring' = PutLine(data)
         /\ logHead' = (logHead + Len(data)) % BufferSize
         /\ owedLines' = owedLines \o data
         /\ logPc' = IF logPc = "asleep" THEN "look" ELSE logPc
         /\ UNCHANGED <<logTail, counters, chunk, notice, reported>>

-----------------------------------------------------------------------------
(* os_log_task_entry, one critical section or one call of the hook a step. *)

\* The longest run that does not wrap.
LookAtRing ==
    /\ logPc = "look"
    /\ IF logHead # logTail
       THEN /\ chunk' = [from |-> logTail,
                         length |-> (IF logHead > logTail THEN logHead ELSE BufferSize) - logTail]
            /\ logPc' = "output"
       ELSE chunk' = NoChunk /\ logPc' = "empty"
    /\ UNCHANGED <<ring, logHead, logTail, counters, notice, owedLines, reported>>

ChunkBytes == [i \in 1 .. chunk.length |-> ring[chunk.from + i - 1]]
StartsWith(text) == Len(text) <= Len(owedLines) /\ SubSeq(owedLines, 1, Len(text)) = text

\* os_log_output_cb: the application reads the buffer while others write it.
Output ==
    /\ logPc = "output"
    /\ owedLines' = SubSeq(owedLines, chunk.length + 1, Len(owedLines))
    /\ logPc' = "advance"
    /\ UNCHANGED <<ring, logHead, logTail, counters, chunk, notice, reported>>

Advance ==
    /\ logPc = "advance"
    /\ logTail' = (logTail + chunk.length) % BufferSize
    /\ logPc' = "look" /\ chunk' = NoChunk
    /\ UNCHANGED <<ring, logHead, counters, notice, owedLines, reported>>

\* Mutant: the pending count is taken with the lifetime total.
TakeTotal == dropped
\* The drops not reported yet.
TakePending == droppedPending

Empty ==
    /\ logPc = "empty"
    /\ notice' = TakePending /\ droppedPending' = 0
    /\ logPc' = IF TakePending # 0 THEN "notice" ELSE "sleep"
    /\ UNCHANGED <<ring, logHead, logTail, dropped, chunk, owedLines, reported>>

\* os_log_emit_dropped: to the hook, past the ring.
EmitDropped ==
    /\ logPc = "notice"
    /\ reported' = (reported + notice) % DropModulus
    /\ notice' = 0 /\ logPc' = "look"
    /\ UNCHANGED <<ring, logHead, logTail, counters, chunk, owedLines>>

\* Mutant: the second look at the ring is left out.
SleepsAtOnce == TRUE
SeesEmpty == logHead = logTail

\* The look and the sleep are one critical section.
LogSleep ==
    /\ logPc = "sleep"
    /\ logPc' = IF SeesEmpty THEN "asleep" ELSE "look"
    /\ UNCHANGED <<ring, logHead, logTail, counters, chunk, notice, owedLines, reported>>

LogNext ==
    \/ \E c \in Colour, body \in Bodies : LogWrite(Line(c, Total(body)))
    \/ LookAtRing \/ Output \/ Advance \/ Empty \/ EmitDropped \/ LogSleep

LogSpec == LogInit /\ [][LogNext]_logVars

-----------------------------------------------------------------------------
LogByte == Colour \X (0 .. LineMax)

LogTypeOK ==
    /\ ring \in [Place -> LogByte]
    /\ logHead \in Place /\ logTail \in Place
    /\ {dropped, droppedPending, notice, reported} \subseteq 0 .. DropModulus - 1
    /\ logPc \in {"look", "output", "advance", "empty", "notice", "sleep", "asleep"}
    /\ chunk \in [from : Place, length : 0 .. BufferSize]
    /\ Len(owedLines) < BufferSize

\* What the hook reads is what it is owed, in the order it was queued, though
\* the lines are written while it reads.
HookReadsOwed == logPc = "output" => chunk.length > 0 /\ StartsWith(ChunkBytes)
\* Every dropped line is reported once, or is waiting to be.
DropsCounted == dropped = (reported + notice + droppedPending) % DropModulus
\* The notice never lands inside a line.
NoticeBetweenLines == logPc = "notice" /\ owedLines # <<>> => owedLines[1][2] = 1
\* The log task does not sleep on a line or on an unreported drop.
NothingSleptOn == logPc = "asleep" => owedLines = <<>> /\ droppedPending = 0

\* The log hands over every accepted line whole, and owns up to every other.
LogFaithful == HookReadsOwed /\ DropsCounted /\ NoticeBetweenLines /\ NothingSleptOn
=============================================================================
