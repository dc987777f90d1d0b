---------------------------- MODULE CycleCounter -----------------------------
(***************************************************************************)
(* The cycle counter of one core that arch/arm/common/                     *)
(* os_arch_cycle_systick.c makes out of its SysTick: the periods its tick  *)
(* handler counts, the timer's position, and a base.                       *)
(*                                                                         *)
(* A read is several accesses to registers while the timer runs on.  In a  *)
(* tickless window (module SysTick) no periods are counted; the window is  *)
(* credited with as many as the kernel announces.                          *)
(***************************************************************************)
EXTENDS Integers, FiniteSetsExt

CONSTANTS
    PeriodCycles,   \* reload + 1
    CountLimit,     \* the counter wraps there, at 2^32 in the code
    MaxReadGap,     \* cycles between two accesses
    MaxWindow,      \* bound on a window, in periods
    MaxInterval     \* bound on the cycles between two reads

ASSUME CycleCounterAssumption ==
    /\ PeriodCycles \in Nat /\ PeriodCycles >= 2
    /\ CountLimit \in Nat
    /\ MaxReadGap \in Nat /\ 2 * MaxReadGap < PeriodCycles  \* a read takes less than a tick
    /\ MaxWindow \in Nat /\ MaxInterval \in Nat
    /\ 2 * (MaxInterval + MaxWindow + 2) * PeriodCycles < CountLimit

VARIABLES
    counting,       \* has SysTick been started?
    position,       \* [cvr, pend]: the timer, the tick it has pending
    base,           \* os_arch_cycle_fallback + os_arch_cycle_periods * (reload + 1)
    lastRead,       \* os_arch_cycle_last
    inWindow, windowMark, crossed, \* a window: os_arch_cycle_window_mark, its periods
    handed,         \* history: the value of the last read
    truly           \* history: the cycles since, a window as long as it was announced

cycleVars == <<counting, position, base, lastRead, inWindow, windowMark, crossed, handed, truly>>

Reload == PeriodCycles - 1

\* os_arch_cycle_systick_reset, as the core enters the scheduler.
CycleInit ==
    /\ counting = FALSE
    /\ position = [cvr |-> 0, pend |-> FALSE]
    /\ base = 0 /\ lastRead = 0
    /\ inWindow = FALSE /\ windowMark = 0 /\ crossed = 0
    /\ handed = 0 /\ truly = 0

Modulo(n) == n % CountLimit

\* The timer pends a tick as it reaches zero, unless that is silenced.
CycleOn(p) ==
    [cvr |-> IF p.cvr = 0 THEN Reload ELSE p.cvr - 1,
     pend |-> p.pend \/ (p.cvr = 1 /\ ~inWindow)]

PositionAfter(n) ==
    LET on[i \in 0 .. n] == IF i = 0 THEN position ELSE CycleOn(on[i - 1])
    IN  on[n]

\* A tick is not left pending for a whole period.
Served(n) == ~(position.pend /\ position.cvr # 0 /\ position.cvr <= n)

-----------------------------------------------------------------------------
\* os_tick_init starts the timer.
StartTicking ==
    /\ ~counting
    /\ counting' = TRUE
    /\ position' = [cvr |-> Reload, pend |-> FALSE]
    /\ UNCHANGED <<base, lastRead, inWindow, windowMark, crossed, handed, truly>>

PassCycle ==
    /\ Served(1) /\ truly < MaxInterval
    /\ inWindow => crossed < MaxWindow
    /\ position' = IF counting THEN CycleOn(position) ELSE position
    /\ crossed' = IF inWindow /\ position.cvr = 1 THEN crossed + 1 ELSE crossed
    /\ truly' = IF inWindow THEN truly ELSE truly + 1
    /\ UNCHANGED <<counting, base, lastRead, inWindow, windowMark, handed>>

\* os_arch_cycle_tick.
CountPeriod ==
    /\ counting /\ position.pend /\ ~inWindow
    /\ position' = [position EXCEPT !.pend = FALSE]
    /\ base' = Modulo(base + PeriodCycles)
    /\ UNCHANGED <<counting, lastRead, inWindow, windowMark, crossed, handed, truly>>

\* Mutant: nothing is held back.
Unclamped(value) == value

\* A step back of up to two periods is held; a larger one is a long step forward.
Clamped(value) ==
    IF Modulo(lastRead - value) \in 1 .. 2 * PeriodCycles - 1 THEN lastRead ELSE value

\* os_arch_cycle_systick_get: the position, the pending bit, and the position
\* again to see that the timer has not come round in between.
ReadCounter(a, b) ==
    LET pend == PositionAfter(a).pend
        value == Modulo(base + (IF pend THEN PeriodCycles ELSE 0) + Reload - position.cvr)
    IN  /\ counting /\ ~inWindow /\ Served(a + b)
        /\ PositionAfter(a + b).cvr <= position.cvr
        /\ lastRead' = Clamped(value) /\ handed' = lastRead'
        /\ position' = PositionAfter(a + b)
        /\ truly' = a + b
        /\ UNCHANGED <<counting, base, inWindow, windowMark, crossed>>

\* Without the timer a read counts a few cycles, fewer than it takes. A core
\* starts its timer long before this count is near its limit.
ReadFallback ==
    /\ ~counting /\ truly > 1 /\ base < MaxInterval
    /\ base' = Modulo(base + 1) /\ handed' = base'
    /\ truly' = 0
    /\ UNCHANGED <<counting, position, lastRead, inWindow, windowMark, crossed>>

\* os_arch_cycle_raw_get.
RawCount == Modulo(base + Reload - position.cvr)

\* os_arch_cycle_window_open.
OpenCycleWindow ==
    /\ counting /\ ~inWindow /\ truly < MaxInterval
    /\ inWindow' = TRUE
    /\ windowMark' = RawCount
    /\ crossed' = 0
    /\ UNCHANGED <<counting, position, base, lastRead, handed, truly>>

\* os_arch_cycle_window_close: the counter has moved by what is announced, which
\* is the periods that have begun in the window.
CloseCycleWindow ==
    /\ inWindow
    /\ inWindow' = FALSE
    /\ base' = Modulo(base + crossed * PeriodCycles - (RawCount - windowMark))
    /\ windowMark' = 0 /\ crossed' = 0
    /\ truly' = truly + Max({1, crossed * PeriodCycles})
    /\ UNCHANGED <<counting, position, lastRead, handed>>

CycleNext ==
    \/ StartTicking
    \/ PassCycle
    \/ CountPeriod
    \/ \E a, b \in 0 .. MaxReadGap : ReadCounter(a, b)
    \/ ReadFallback
    \/ OpenCycleWindow
    \/ CloseCycleWindow

CycleSpec == CycleInit /\ [][CycleNext]_cycleVars

-----------------------------------------------------------------------------
(* Properties.                                                             *)

\* The counter never goes backwards: callers subtract two reads as unsigned
\* numbers, and one step back would be an interval of nearly 2^32 cycles.
NeverBackwards == [][Modulo(handed' - handed) < CountLimit \div 2]_cycleVars

\* An interval is never measured longer than it was. It does not hold: a tick is
\* pending one cycle before the timer reloads, and a read there counts a period
\* that is not over, which the clamp then holds until time has caught up.
NeverOvercounts == [][handed' # handed => Modulo(handed' - handed) <= truly]_cycleVars

-----------------------------------------------------------------------------
(* The inductive invariant.                                                *)

\* The cycles counted once the timer, as it shows cvr, has been reloaded: a
\* period that is pending or counted as the timer shows zero is not over yet.
Passed(cvr) ==
    base + (IF position.pend THEN PeriodCycles ELSE 0) + Reload - cvr
        - (IF cvr = 0 THEN PeriodCycles ELSE 0)

\* How far it can have come since the last read.
FurthestAhead(cycles) ==
    IF cycles < MaxInterval THEN cycles * PeriodCycles
    ELSE (MaxInterval + MaxWindow) * PeriodCycles + Reload

\* The last read is at most a period ahead of the cycles that have passed, and
\* less than half the counter behind them; in a window, of those that had
\* passed as it was opened.
AheadOfRead ==
    \E shown \in 0 .. Reload, ahead \in -PeriodCycles .. FurthestAhead(truly), turns \in Int :
        /\ Passed(shown) = handed + ahead + turns * CountLimit
        /\ ~inWindow => shown = position.cvr
        /\ inWindow => /\ windowMark = Modulo(base + Reload - shown)
                       /\ position.cvr = 0 => crossed # 0 \/ shown = 0
        /\ lastRead # handed => lastRead = 0 /\ handed <= MaxInterval /\ ahead >= 0

CycleIInv ==
    /\ {counting, inWindow} \subseteq BOOLEAN
    /\ position \in [cvr : 0 .. Reload, pend : BOOLEAN]
    /\ {base, lastRead, windowMark, handed} \subseteq 0 .. CountLimit - 1
    /\ crossed \in 0 .. MaxWindow /\ truly \in Nat
    /\ ~counting => /\ ~inWindow /\ position.cvr = 0 /\ handed = base
                    /\ lastRead = 0 /\ base <= MaxInterval
    /\ inWindow => truly < MaxInterval
    /\ counting => AheadOfRead
=============================================================================
