-------------------------------- MODULE Window --------------------------------
(***************************************************************************)
(* A suppressed window on a counter that never stops: the LPTIM of         *)
(* soc/st/stm32/soc_cb.c, the timer of soc/raspberrypi/rp2040/soc_cb.c and *)
(* the POWMAN timer of soc/raspberrypi/common/soc_powman.h, with their     *)
(* caller arch/common/os_arch_tickless.c.  A tick is not a whole number of *)
(* counts: what a window measures beyond whole ticks is kept for the next. *)
(*                                                                         *)
(* The LPTIM is the general case: its counter is the narrowest, its        *)
(* compare register slow, its rate measured.  A window that is never       *)
(* served until the counter comes round (a debugger) is left out.          *)
(***************************************************************************)
EXTENDS Naturals, FiniteSetsExt

CONSTANTS
    Declared,       \* SOC_CONFIG_TICKLESS_LPTIM_CLOCK_HZ
    TickHz,         \* OS_CONFIG_TICK_HZ
    Span,           \* SOC_LPTIM_PERIOD + 1
    ArmCounts       \* SOC_LPTIM_ARM_COUNTS

MaxCounts == (Span * 3) \div 4          \* SOC_LPTIM_MAX_COUNTS

ASSUME WindowAssumption ==
    /\ {Declared, TickHz, Span, ArmCounts} \subseteq Nat \ {0}
    /\ Declared >= TickHz                       \* the #error of both sources
    /\ ArmCounts * Declared < MaxCounts * TickHz

VARIABLES
    rate,           \* SOC_LPTIM_RATE
    counter,        \* the counter, modulo Span
    opened,         \* soc_lptim_start
    target,         \* the compare register
    windowAt,       \* "shut", "read", "written" or "asleep"
    windowOf,       \* os_arch_tickless_planned
    matched,        \* the match flag, and the interrupt pending for it
    stale,          \* history: an earlier target matched while the new one settled
    banked,         \* soc_lptim_accum, in counts * TickHz
    since,          \* history: counts since the window opened
    owing,          \* history: counts * TickHz measured and not given out
    slipped         \* history: has a tick been given out and not announced?

windowVars == <<rate, counter, opened, target, windowAt, windowOf, matched, stale, banked,
                since, owing, slipped>>

\* soc_lptim_rate_verify and os_arch_soc_ready_cb: the rate is the declared one
\* or what was measured, refused if it is more than a quarter away.
Rates == Declared - Declared \div 4 .. Declared + Declared \div 4

WindowInit ==
    /\ rate \in Rates
    /\ counter = 0 /\ opened = 0 /\ target = 0
    /\ windowAt = "shut" /\ windowOf = 0
    /\ matched = FALSE /\ stale = FALSE
    /\ banked = 0 /\ since = 0 /\ owing = 0 /\ slipped = FALSE

-----------------------------------------------------------------------------
(* The counter.                                                            *)

\* A compare write takes less than ArmCounts to reach the counter's domain.
InBounds == since < IF windowAt = "asleep" THEN Span - 1 ELSE ArmCounts

CountUp ==
    /\ windowAt # "shut" => InBounds
    /\ counter' = (counter + 1) % Span
    /\ since' = IF windowAt = "shut" THEN 0 ELSE since + 1
    /\ matched' = (matched \/ (windowAt = "asleep" /\ counter' = target))
    /\ UNCHANGED <<rate, opened, target, windowAt, windowOf, stale, banked, owing, slipped>>

\* The target of the window before is live until the new one has settled.
StaleMatch ==
    /\ windowAt \in {"read", "written"}
    /\ matched' = TRUE /\ stale' = TRUE
    /\ UNCHANGED <<rate, counter, opened, target, windowAt, windowOf, banked, since, owing,
                   slipped>>

\* The handler: it takes note of nothing.
MatchIsr ==
    /\ windowAt = "shut" /\ matched
    /\ matched' = FALSE
    /\ UNCHANGED <<rate, counter, opened, target, windowAt, windowOf, stale, banked,
                   since, owing, slipped>>

-----------------------------------------------------------------------------
(* Opening a window.                                                       *)

Ceiling(a, b) == (a + b - 1) \div b

\* Mutant: a tick is taken for a whole number of counts.
PreDividedCeiling == MaxCounts \div (Declared \div TickHz)

\* os_arch_tick_suppress_max_cb.
CeilingTicks == (MaxCounts * TickHz) \div rate

\* Mutant: the time it takes to arm a window is nothing.
NoFloor == 0

\* os_arch_tick_suppress_min_cb.
FloorTicks == Ceiling(ArmCounts, Declared \div TickHz)

\* Mutant: what is banked already counts for this window.
CountsNetted(n) == Ceiling(n * rate - banked, TickHz)

\* soc_lptim_ticks_to_counts.
CountsOf(n) == Ceiling(n * rate, TickHz)

\* os_arch_tick_suppress_cb of a window the kernel has planned: it reads the
\* counter first, so that all that follows is measured.
OpenSource(n) ==
    /\ windowAt = "shut"
    /\ n >= 2 /\ n >= FloorTicks /\ n <= CeilingTicks
    /\ opened' = counter
    /\ windowOf' = n
    /\ windowAt' = "read" /\ since' = 0 /\ stale' = FALSE
    /\ UNCHANGED <<rate, counter, target, matched, banked, owing, slipped>>

\* Mutant: the interrupt of the window before stays pending.
NothingCleared == matched' = matched /\ stale' = stale

\* The flag and the pending bit, before the target is written: the next match
\* is not lost.
ClearMatch == matched' = FALSE /\ stale' = FALSE

WriteTarget ==
    /\ windowAt = "read"
    /\ ClearMatch
    /\ target' = (opened + Min({CountsOf(windowOf), MaxCounts})) % Span
    /\ windowAt' = "written"
    /\ UNCHANGED <<rate, counter, opened, windowOf, banked, since, owing,
                   slipped>>

\* soc_lptim_write_settle.
TargetSettles ==
    /\ windowAt = "written"
    /\ matched' = (matched \/ counter = target)
    /\ windowAt' = "asleep"
    /\ UNCHANGED <<rate, counter, opened, target, windowOf, stale, banked, since, owing,
                   slipped>>

-----------------------------------------------------------------------------
(* Closing it.                                                             *)

SpanSince == (counter + Span - opened) % Span

\* os_arch_tick_resume_cb, soc_powman_window_close: whole ticks,
TicksMeasured == (banked + SpanSince * TickHz) \div rate

\* Mutant: the fraction of a tick is dropped.
NothingBanked == 0

\* and what remains for the next window.
BankLeft == (banked + SpanSince * TickHz) % rate

\* os_arch_elapsed_ticks_get: never more than was planned.
Announced == Min({TicksMeasured, windowOf})

\* The alarm has fired, or any other interrupt came before it.
CloseSource ==
    /\ windowAt = "asleep"
    /\ banked' = BankLeft
    /\ owing' = owing + since * TickHz - TicksMeasured * rate
    /\ slipped' = (slipped \/ Announced < TicksMeasured)
    /\ windowAt' = "shut" /\ windowOf' = 0 /\ since' = 0
    /\ UNCHANGED <<rate, counter, opened, target, matched, stale>>

-----------------------------------------------------------------------------
WindowNext ==
    \/ CountUp \/ StaleMatch \/ MatchIsr
    \/ \E n \in 2 .. MaxCounts : OpenSource(n)
    \/ WriteTarget \/ TargetSettles
    \/ CloseSource

WindowSpec == WindowInit /\ [][WindowNext]_windowVars

-----------------------------------------------------------------------------
(* Properties.                                                             *)

\* The variables keep their types.
WindowTypeOK ==
    /\ rate \in Rates /\ {counter, opened, target} \subseteq 0 .. Span - 1
    /\ windowAt \in {"shut", "read", "written", "asleep"}
    /\ windowOf \in Nat /\ {matched, stale, slipped} \subseteq BOOLEAN
    /\ banked \in 0 .. rate - 1 /\ since \in 0 .. Span - 1 /\ owing \in Nat

\* A window that sleeps to its end reaches the deadline it was opened for, not
\* one count less, whatever was left over from the windows before; and it does
\* end: once the time is up the core has been woken.
AlarmInTime ==
    windowAt = "asleep" =>
        LET due == since * TickHz >= windowOf * rate
        IN  /\ matched => due \/ stale
            /\ since >= CountsOf(windowOf) => matched

\* Nothing that was measured gets lost or is counted twice, over any number of
\* windows, the rounding, and the counter coming round inside of one.
NothingDropped == windowAt = "shut" => owing = banked

\* What soc/st/stm32/soc_cb.c says of its accumulator, "the announced time converges on
\* the real elapsed time". It does not hold: a window that ran to its end with
\* nearly a tick banked measures one tick more than was planned, and that
\* tick is never announced.
ClockConverges == ~slipped
=============================================================================
