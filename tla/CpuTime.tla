-------------------------------- MODULE CpuTime -------------------------------
(***************************************************************************)
(* Processor time, spent and counted: the busy waits of kernel/os_delay.c  *)
(* on a free-running counter that wraps, and the two usage counters of     *)
(* kernel/os_tick.c, which core 0 advances and any core reads and resets.  *)
(* The two share no state.                                                 *)
(*                                                                         *)
(* A clock of 0 Hz, which the code traps as a fault of the configuration,  *)
(* is left out.                                                            *)
(***************************************************************************)
EXTENDS Integers, FiniteSetsExt

CONSTANTS
    CounterLimit,   \* the counter wraps there, at 2^32 in the code
    MaxChunk,       \* OS_DELAY_MAX_CYCLE_CHUNK
    CounterHz,      \* os_arch_delay_counter_hz_get
    PerSecond,      \* OS_DELAY_US_PER_SECOND
    TickRate,       \* OS_CONFIG_TICK_HZ
    Durations,      \* the microseconds and ticks asked for
    MaxSpin,        \* bound on the cycles between two reads of the counter
    UsageLimit,     \* the usage counters wrap there, at 2^32 in the code
    MaxAnnounced,   \* bound on an announced window
    MaxSample       \* bound on the ticks between two readings of the usage

\* A waiter that is kept from looking for so long that the counter comes round
\* waits for another turn of it.
ASSUME CpuTimeAssumption ==
    /\ {CounterHz, PerSecond, TickRate, MaxChunk, MaxSpin, UsageLimit} \subseteq Nat \ {0}
    /\ CounterLimit \in Nat /\ MaxChunk + MaxSpin < CounterLimit
    /\ Durations \subseteq Nat /\ MaxAnnounced \in Nat /\ MaxSample \in Nat

-----------------------------------------------------------------------------
(* Busy waits.                                                             *)

VARIABLES
    spinAt,         \* "out", "chunk" (between two chunks) or "spin"
    cycleCount,     \* cycle_count: what is left of the wait
    began,          \* start: the counter when the chunk began
    delayCounter,   \* os_arch_delay_counter_get
    asked,          \* history: the call, in cycles * asked.per
    spent           \* history: cycles since the call

busyVars == <<spinAt, cycleCount, began, delayCounter, asked, spent>>

BusyInit ==
    /\ spinAt = "out" /\ cycleCount = 0 /\ began = 0 /\ spent = 0
    /\ delayCounter = 0 /\ asked = [cycles |-> 0, per |-> 1, chunks |-> 0]

\* Mutant: a microsecond that is cut short.
CyclesDown(us) == (us * CounterHz) \div PerSecond

CyclesOf(us) == (us * CounterHz + PerSecond - 1) \div PerSecond

Chunks(cycles) == (cycles + MaxChunk - 1) \div MaxChunk

Spin(cycles, exact, per) ==
    /\ spinAt = "out" /\ spinAt' = "chunk"
    /\ cycleCount' = cycles
    /\ asked' = [cycles |-> exact, per |-> per, chunks |-> Chunks(cycles)]
    /\ spent' = 0
    /\ UNCHANGED <<began, delayCounter>>

DelayUs(us) == us # 0 /\ Spin(CyclesOf(us), us * CounterHz, PerSecond)

\* os_delay_ticks where the caller cannot block: a fraction of a cycle is cut.
DelayTicksBusy(ticks) ==
    /\ ticks # 0
    /\ LET cycles == (ticks * CounterHz) \div TickRate
       IN  Spin(cycles, cycles, 1)

\* Mutant: a chunk as long as the counter is wide.
ChunkOfAll == Min({cycleCount, CounterLimit - 1})

Chunk == Min({cycleCount, MaxChunk})

ChunkBegin ==
    /\ spinAt = "chunk" /\ cycleCount > 0
    /\ spinAt' = "spin" /\ began' = delayCounter
    /\ UNCHANGED <<cycleCount, delayCounter, asked, spent>>

\* The counter runs while the code is between two reads of it.
Elapses(n) ==
    /\ spent' = spent + n
    /\ delayCounter' = (delayCounter + n) % CounterLimit

\* os_arch_delay_counter_get() - start, in the width of the counter.
SpinElapsed == (delayCounter + CounterLimit - began) % CounterLimit

SpinOn(n) ==
    /\ spinAt = "spin" /\ SpinElapsed < Chunk
    /\ Elapses(n)
    /\ UNCHANGED <<spinAt, cycleCount, began, asked>>

ChunkEnd(n) ==
    /\ spinAt = "spin" /\ SpinElapsed >= Chunk
    /\ spinAt' = "chunk" /\ cycleCount' = cycleCount - Chunk
    /\ Elapses(n)
    /\ UNCHANGED <<began, asked>>

BusyReturn ==
    /\ spinAt = "chunk" /\ cycleCount = 0
    /\ spinAt' = "out"
    /\ UNCHANGED <<cycleCount, began, delayCounter, asked, spent>>

BusyNext ==
    \/ \E d \in Durations : DelayUs(d) \/ DelayTicksBusy(d)
    \/ ChunkBegin
    \/ \E n \in 1 .. MaxSpin : SpinOn(n)
    \/ \E n \in 0 .. MaxSpin : ChunkEnd(n)
    \/ BusyReturn

BusySpec == BusyInit /\ [][BusyNext]_busyVars

-----------------------------------------------------------------------------
(* The usage counters.                                                     *)

VARIABLES
    totalTicks, idleTicks, \* os_tick_usage_total_ticks, os_tick_usage_idle_ticks
    usage,          \* what os_cpu_usage_get has answered, in per cent
    sample,         \* history: the ticks since it last restarted the window
    sampled         \* history: those the last answer was about

usageVars == <<totalTicks, idleTicks, usage, sample, sampled>>

NoTicks == [busy |-> 0, idle |-> 0]
TicksIn(s) == s.busy + s.idle

UsageInit ==
    /\ totalTicks = 0 /\ idleTicks = 0 /\ usage = 0
    /\ sample = NoTicks /\ sampled = NoTicks

GoneBy(idle, busy) ==
    /\ TicksIn(sample) + idle + busy <= MaxSample
    /\ sample' = [busy |-> sample.busy + busy, idle |-> sample.idle + idle]
    /\ UNCHANGED <<usage, sampled>>

Recorded(total, idle) ==
    /\ totalTicks' = (totalTicks + total) % UsageLimit
    /\ idleTicks' = (idleTicks + idle) % UsageLimit

\* os_tick_handler on core 0, over its idle task or over anything else.
UsageTick ==
    \/ GoneBy(1, 0) /\ Recorded(1, 1)
    \/ GoneBy(0, 1) /\ Recorded(1, 0)

\* Mutant: a window is slept through, but not counted as idle.
UsageBusyWindow(elapsed) == GoneBy(elapsed, 0) /\ Recorded(elapsed, 0)

\* os_tick_announce: a suppressed window is idle.
UsageWindow(elapsed) == GoneBy(elapsed, 0) /\ Recorded(elapsed, elapsed)

\* Mutant: the count of idle ticks is believed.
IdleAsRead == idleTicks

\* Of the two counters the total may have come round alone.
IdleCounted == Min({idleTicks, totalTicks})

\* os_cpu_usage_get on any core.
UsageGet ==
    /\ usage' = IF totalTicks = 0 THEN 0
                ELSE ((totalTicks - IdleCounted) * 100) \div totalTicks
    /\ totalTicks' = 0 /\ idleTicks' = 0
    /\ sample' = NoTicks /\ sampled' = sample

UsageNext ==
    \/ UsageTick
    \/ \E elapsed \in 2 .. MaxAnnounced : UsageWindow(elapsed)
    \/ UsageGet

UsageSpec == UsageInit /\ [][UsageNext]_usageVars

-----------------------------------------------------------------------------
(* Properties.                                                             *)

\* The variables keep their types.
BusyTypeOK ==
    /\ spinAt \in {"out", "chunk", "spin"} /\ cycleCount \in Nat
    /\ {began, delayCounter} \subseteq 0 .. CounterLimit - 1 /\ spent \in Nat

\* A busy wait that returns has lasted as long as it was asked to, however often
\* the counter came round meanwhile, and has overrun by no more than the time
\* between two looks at the counter, twice for each chunk.
BusyWaitExact ==
    spinAt = "out" =>
        /\ spent * asked.per >= asked.cycles
        /\ asked.chunks > 0 =>
             (spent - 2 * MaxSpin * asked.chunks) * asked.per < asked.cycles + asked.per

\* The variables keep their types.
UsageTypeOK == {totalTicks, idleTicks} \subseteq 0 .. UsageLimit - 1

\* The usage is the share of busy ticks, whole windows included, since it was
\* last asked for. A window of 2^32 ticks or more gives a wrong share, but a
\* percentage.
UsageHonest ==
    /\ usage \in 0 .. 100
    /\ TicksIn(sampled) \in 1 .. UsageLimit - 1 =>
          usage = (sampled.busy * 100) \div TicksIn(sampled)
    /\ TicksIn(sampled) = 0 => usage = 0
=============================================================================
